--------------------------- MODULE SupportGenProofs ---------------------------
(***************************************************************************)
(* The Benes network of benes.rs permutes by the permutation that pi_test  *)
(* of controlbits.rs follows, for all control bits, and so the support     *)
(* that decryption computes is the one of key generation.                  *)
(*                                                                         *)
(* pi_test takes the layers one by one, in terms of the places of a list   *)
(* of 2^b bits.  apply_benes holds the bits in matrices, transposes them   *)
(* twice on the way, and pairs words, bits or halves by position.  The     *)
(* proof says where place x of the list is in the matrices (Cell), that    *)
(* each layer of the code pairs the same places and reads the same control *)
(* bits (OuterPoint, InnerPoint), hence moves the set of the 1 bits as the *)
(* layer of pi_test does (OuterLayerActs, InnerLayerActs), and follows the *)
(* set through all layers (NetworkFollowsTrace).                           *)
(*                                                                         *)
(* The second part is about cbrecursion, which computes the control bits   *)
(* in one array of words: the fields of a word stay apart in every step.   *)
(* int32_sort leaves the words outside its slice alone and brings no other *)
(* words into it (SortKeeps); the expressions of the steps keep a field in *)
(* its bits; and a call writes below the permutations of those that wait   *)
(* for it, into its own rows of out (CbInv).                               *)
(***************************************************************************)
EXTENDS SupportGen, TLAPS

L == INSTANCE LinearLemmas WITH GFBITS <- 12, TAPS <- {3, 0},
                                SYS_T <- 64, SYS_N <- 3488

-------------------------------------------------------------------------------
(* Counting up from x to y, for a property that is a set. *)
LEMMA Upward ==
  ASSUME NEW x \in Int, NEW y \in Int, NEW P, x \in P,
         \A k \in x..(y - 1) : k \in P => k + 1 \in P
  PROVE  \A k \in x..y : k \in P
<1>. DEFINE T == {m \in Nat : x + m <= y /\ x + m \notin P}
<1>1. T = {}
  <2>1. SUFFICES ASSUME T # {}  PROVE FALSE
    OBVIOUS
  <2>2. PICK m \in T : \A k \in T : m <= k
    <3>1. T \in SUBSET Nat
      OBVIOUS
    <3>. HIDE DEF T
    <3>2. L!Min(T) \in T
      BY <2>1, <3>1, L!MinOfNaturals DEF L!PK_NROWS
    <3>3. \A k \in T : L!Min(T) <= k
      BY <2>1, <3>1, L!MinOfNaturals DEF L!PK_NROWS
    <3>. QED
      BY <3>2, <3>3
  <2>3. m \in Nat /\ m # 0 /\ x + m <= y /\ x + m \notin P
    BY <2>2
  <2>4. m - 1 \in Nat /\ m - 1 \notin T /\ x + (m - 1) <= y - 1
    BY <2>2, <2>3
  <2>5. x + (m - 1) \in P /\ x + (m - 1) \in x..(y - 1) /\ (x + (m - 1)) + 1 = x + m
    BY <2>3, <2>4
  <2>. QED
    BY <2>3, <2>5
<1>2. ASSUME NEW k \in x..y, k \notin P  PROVE FALSE
  <2>1. k - x \in Nat /\ x + (k - x) = k
    OBVIOUS
  <2>2. k - x \in T
    BY <1>2, <2>1
  <2>. QED
    BY <1>1, <2>2
<1>. QED
  BY <1>2

-------------------------------------------------------------------------------
(* Powers of 2, as far as a word of 32 bits can need them.                 *)

(* One exponent at a time: of 2^k the provers know its value for a numeral k. *)
LEMMA PowerStep ==
  ASSUME NEW k \in 0..15
  PROVE  2^k \in Nat \ {0} /\ 2^(k + 1) = 2 * 2^k
<1>0. CASE k = 0
  BY <1>0
<1>1. CASE k = 1
  BY <1>1
<1>2. CASE k = 2
  BY <1>2
<1>3. CASE k = 3
  BY <1>3
<1>4. CASE k = 4
  BY <1>4
<1>5. CASE k = 5
  BY <1>5
<1>6. CASE k = 6
  BY <1>6
<1>7. CASE k = 7
  BY <1>7
<1>8. CASE k = 8
  BY <1>8
<1>9. CASE k = 9
  BY <1>9
<1>10. CASE k = 10
  BY <1>10
<1>11. CASE k = 11
  BY <1>11
<1>12. CASE k = 12
  BY <1>12
<1>13. CASE k = 13
  BY <1>13
<1>14. CASE k = 14
  BY <1>14
<1>15. CASE k = 15
  BY <1>15
<1>. QED
  BY <1>0, <1>1, <1>2, <1>3, <1>4, <1>5, <1>6, <1>7, <1>8, <1>9, <1>10, <1>11, <1>12, <1>13,
     <1>14, <1>15

(* 2^(x + y) = 2^x * 2^y. *)
LEMMA PowerSum ==
  ASSUME NEW x \in 0..15, NEW y \in 0..15, x + y <= 15
  PROVE  2^(x + y) = 2^x * 2^y
<1>. DEFINE P == {k \in 0..15 : 2^(x + k) = 2^x * 2^k}
<1>1. 0 \in P
  <2>1. 2^x \in Nat
    BY PowerStep
  <2>. QED
    BY <2>1
<1>2. ASSUME NEW k \in 0..(y - 1), k \in P  PROVE k + 1 \in P
  <2>1. 2^(x + k) = 2^x * 2^k
    BY <1>2
  <2>2. /\ 2^x \in Nat /\ 2^k \in Nat /\ 2^(k + 1) = 2 * 2^k
        /\ 2^((x + k) + 1) = 2 * 2^(x + k)
    <3>1. k \in 0..15 /\ x + k \in 0..15
      OBVIOUS
    <3>. QED
      BY <3>1, PowerStep
  <2>3. \A m, q \in Nat : 2 * (m * q) = m * (2 * q)
    OBVIOUS
  <2>4. (x + k) + 1 = x + (k + 1) /\ k + 1 \in 0..15
    OBVIOUS
  <2>. QED
    BY <2>1, <2>2, <2>3, <2>4
<1>. HIDE DEF P
<1>3. y \in P
  BY <1>1, <1>2, Upward
<1>. QED
  BY <1>3 DEF P

-------------------------------------------------------------------------------
(* Quotients and remainders.                                               *)

(* The digits q and r < d of q * d + r. *)
LEMMA Quotient ==
  ASSUME NEW d \in Nat \ {0}, NEW q \in Int, NEW r \in 0..(d - 1)
  PROVE  (q * d + r) \div d = q /\ (q * d + r) % d = r
OBVIOUS

(* Every number has such digits. *)
LEMMA Digits ==
  ASSUME NEW d \in Nat \ {0}, NEW x \in Nat
  PROVE  /\ x \div d \in Nat /\ x % d \in 0..(d - 1)
         /\ x = ((x \div d) * d) + (x % d)
OBVIOUS

(* The digits of a place x at a stride d: e is which of the two places of  *)
(* its pair it is.                                                         *)
Join(q, d, r) == q * d + r
Place(q, e, d, r) == Join(2 * q + e, d, r)

HasDigits(x, d, q, e, r) ==
  /\ d \in Nat \ {0} /\ q \in Nat /\ e \in {0, 1} /\ r \in 0..(d - 1)
  /\ x = Place(q, e, d, r)

(* The pair, and the partner, of a number whose digits at stride d are known. *)
LEMMA PairDigits ==
  ASSUME NEW x, NEW d, NEW q, NEW e, NEW r, HasDigits(x, d, q, e, r)
  PROVE  /\ PairOf(x, d) = Join(q, d, r)
         /\ Partner(x, d) = Place(q, 1 - e, d, r)
         /\ HasDigits(Partner(x, d), d, q, 1 - e, r)
<1>0. /\ d \in Nat \ {0} /\ q \in Nat /\ e \in {0, 1} /\ r \in 0..(d - 1)
      /\ x = (2 * q + e) * d + r
  BY DEF HasDigits, Place, Join
<1>1. x = q * (2 * d) + (e * d + r) /\ e * d + r \in 0..(2 * d - 1)
  <2>1. CASE e = 0
    BY <1>0, <2>1
  <2>2. CASE e = 1
    BY <1>0, <2>2
  <2>. QED
    BY <1>0, <2>1, <2>2
<1>2. x \div (2 * d) = q
  <2>. DEFINE D == 2 * d
              y == e * d + r
  <2>1. D \in Nat \ {0} /\ y \in 0..(D - 1)
    BY <1>0, <1>1
  <2>. HIDE DEF D, y
  <2>2. (q * D + y) \div D = q
    BY ONLY <1>0, <2>1, Quotient
  <2>3. x = q * D + y
    BY <1>1 DEF D, y
  <2>. QED
    BY <2>2, <2>3 DEF D
<1>3. x \div d = 2 * q + e /\ x % d = r
  <2>. DEFINE y == 2 * q + e
  <2>1. y \in Int /\ x = y * d + r
    BY <1>0
  <2>. HIDE DEF y
  <2>. QED
    BY ONLY <1>0, <2>1, Quotient DEF y
<1>4. (2 * q + e) % 2 = e
  BY <1>0
<1>5. PairOf(x, d) = q * d + r
  BY <1>2, <1>3 DEF PairOf
<1>6. Partner(x, d) = IF e = 0 THEN x + d ELSE x - d
  BY <1>3, <1>4 DEF Partner
<1>7. Partner(x, d) = (2 * q + (1 - e)) * d + r
  <2>1. CASE e = 0
    BY <1>0, <1>6, <2>1
  <2>2. CASE e = 1
    BY <1>0, <1>6, <2>2
  <2>. QED
    BY <1>0, <2>1, <2>2
<1>8. HasDigits(Partner(x, d), d, q, 1 - e, r)
  BY <1>0, <1>7 DEF HasDigits, Place, Join
<1>. QED
  BY <1>5, <1>7, <1>8 DEF Place, Join

(* And every place has such digits. *)
LEMMA HasPairDigits ==
  ASSUME NEW d \in Nat \ {0}, NEW x \in Nat
  PROVE  \E q, e, r : HasDigits(x, d, q, e, r)
<1>1. x \div d \in Nat /\ x % d \in 0..(d - 1) /\ x = ((x \div d) * d) + (x % d)
  BY Digits
<1>. DEFINE y == x \div d
<1>. HIDE DEF y
<1>2. y \div 2 \in Nat /\ y % 2 \in {0, 1} /\ y = 2 * (y \div 2) + (y % 2)
  BY <1>1 DEF y
<1>3. x = (2 * (y \div 2) + (y % 2)) * d + (x % d)
  <2>1. x = (y * d) + (x % d)
    BY <1>1 DEF y
  <2>. QED
    BY ONLY <1>2, <2>1
<1>. QED
  BY <1>1, <1>2, <1>3 DEF HasDigits, Place, Join

(* The two places of a pair are partners of each other. *)
LEMMA PartnerOfPartner ==
  ASSUME NEW d \in Nat \ {0}, NEW x \in Nat
  PROVE  /\ Partner(x, d) \in Nat
         /\ Partner(Partner(x, d), d) = x
         /\ PairOf(x, d) \in Nat
         /\ PairOf(Partner(x, d), d) = PairOf(x, d)
<1>1. PICK q, e, r : HasDigits(x, d, q, e, r)
  BY HasPairDigits
<1>2. /\ PairOf(x, d) = Join(q, d, r)
      /\ Partner(x, d) = Place(q, 1 - e, d, r)
      /\ HasDigits(Partner(x, d), d, q, 1 - e, r)
  BY <1>1, PairDigits
<1>3. /\ PairOf(Partner(x, d), d) = Join(q, d, r)
      /\ Partner(Partner(x, d), d) = Place(q, 1 - (1 - e), d, r)
      /\ HasDigits(Partner(Partner(x, d), d), d, q, 1 - (1 - e), r)
  BY <1>2, PairDigits
<1>4. Join(q, d, r) \in Nat /\ Partner(x, d) \in Nat
  BY <1>1, <1>2 DEF HasDigits, Place, Join
<1>5. Partner(Partner(x, d), d) = x
  <2>1. 1 - (1 - e) = e /\ x = Place(q, e, d, r)
    BY <1>1 DEF HasDigits
  <2>. QED
    BY <1>3, <2>1
<1>. QED
  BY <1>2, <1>3, <1>4, <1>5

(* A stride that divides the half of m is within the low digit of a number *)
(* with digits to the base m.                                              *)
Doubled(d, p, m) ==
  d \in Nat \ {0} /\ m = 2 * p /\ \E k \in Nat \ {0} : p = k * d

(* Below 2 * p, p a multiple of the stride: the multiples of 2 * p stay apart. *)
LEMMA PairWithin ==
  ASSUME NEW d, NEW p, NEW m, Doubled(d, p, m), NEW h \in Nat, NEW c \in 0..(m - 1)
  PROVE  /\ PairOf(c, d) \in 0..(p - 1)
         /\ Partner(c, d) \in 0..(m - 1)
         /\ PairOf(Join(h, m, c), d) = Join(h, p, PairOf(c, d))
         /\ Partner(Join(h, m, c), d) = Join(h, m, Partner(c, d))
<1>. PICK k \in Nat \ {0} : p = k * d
  BY DEF Doubled
<1>. d \in Nat \ {0} /\ m = 2 * p
  BY DEF Doubled
<1>a. p \in Nat /\ m = 2 * (k * d) /\ c \in Nat /\ c \in 0..(2 * (k * d) - 1)
  OBVIOUS
<1>0. PICK q, e, r : HasDigits(c, d, q, e, r)
  BY <1>a, HasPairDigits
<1>1. /\ q \in Nat /\ e \in {0, 1} /\ r \in 0..(d - 1)
      /\ c = (2 * q + e) * d + r
  BY <1>0 DEF HasDigits, Place, Join
<1>2. PairOf(c, d) = q * d + r /\ Partner(c, d) = (2 * q + (1 - e)) * d + r
  <2>1. PairOf(c, d) = Join(q, d, r) /\ Partner(c, d) = Place(q, 1 - e, d, r)
    BY <1>0, PairDigits
  <2>. QED
    BY <2>1 DEF Place, Join
<1>3. q < k
  <2>1. SUFFICES ASSUME q >= k  PROVE FALSE
    BY <1>1
  <2>2. (q - k) * d >= 0
    BY <1>1, <2>1
  <2>3. e * d >= 0
    BY <1>1
  <2>4. c = (2 * ((q - k) * d)) + (2 * (k * d)) + (e * d) + r
    BY <1>1
  <2>. QED
    BY <1>1, <1>a, <2>2, <2>3, <2>4
<1>4. PICK u \in Nat : k = (q + 1) + u
  <2>1. k - (q + 1) \in Nat /\ k = (q + 1) + (k - (q + 1))
    BY <1>1, <1>3
  <2>. QED
    BY <2>1
<1>5. k * d = (q * d) + d + (u * d) /\ u * d \in Nat /\ q * d \in Nat
  BY <1>1, <1>4
<1>6. PairOf(c, d) \in 0..(k * d - 1)
  BY <1>1, <1>2, <1>5
<1>7. Partner(c, d) \in 0..(2 * (k * d) - 1)
  <2>1. (1 - e) * d \in 0..d
    <3>1. CASE e = 0
      BY <3>1
    <3>2. CASE e = 1
      BY <3>2
    <3>. QED
      BY <1>1, <3>1, <3>2
  <2>2. Partner(c, d) = (2 * (q * d)) + ((1 - e) * d) + r
    BY <1>1, <1>2
  <2>. QED
    BY <1>1, <1>5, <2>1, <2>2
<1>. DEFINE g == h * k + q
            y == h * (2 * (k * d)) + c
<1>8. HasDigits(y, d, g, e, r)
  BY <1>1 DEF HasDigits, Place, Join
<1>9. /\ g * d + r = h * (k * d) + (q * d + r)
      /\ (2 * g + (1 - e)) * d + r = h * (2 * (k * d)) + ((2 * q + (1 - e)) * d + r)
  BY <1>1
<1>. HIDE DEF g, y
<1>10. PairOf(y, d) = g * d + r /\ Partner(y, d) = (2 * g + (1 - e)) * d + r
  <2>1. PairOf(y, d) = Join(g, d, r) /\ Partner(y, d) = Place(g, 1 - e, d, r)
    BY <1>8, PairDigits
  <2>. QED
    BY <2>1 DEF Place, Join
<1>11. /\ PairOf(y, d) = h * (k * d) + PairOf(c, d)
       /\ Partner(y, d) = h * (2 * (k * d)) + Partner(c, d)
  BY ONLY <1>2, <1>9, <1>10
<1>. QED
  BY <1>a, <1>6, <1>7, <1>11 DEF y, Join

(* And a multiple of m is a stride of the high digit. *)
IsProduct(g, d, m) == d \in Nat \ {0} /\ m \in Nat \ {0} /\ g = d * m

(* For a stride that is a multiple of m, the digit below m plays no part. *)
LEMMA PairAbove ==
  ASSUME NEW d, NEW m, NEW g, IsProduct(g, d, m),
         NEW x \in Nat, NEW c \in 0..(m - 1)
  PROVE  /\ PairOf(Join(x, m, c), g) = Join(PairOf(x, d), m, c)
         /\ Partner(Join(x, m, c), g) = Join(Partner(x, d), m, c)
<1>. d \in Nat \ {0} /\ m \in Nat \ {0} /\ g = d * m
  BY DEF IsProduct
<1>0. PICK q, e, r : HasDigits(x, d, q, e, r)
  BY HasPairDigits
<1>1. /\ q \in Nat /\ e \in {0, 1} /\ r \in 0..(d - 1)
      /\ x = (2 * q + e) * d + r
  BY <1>0 DEF HasDigits, Place, Join
<1>2. PairOf(x, d) = q * d + r /\ Partner(x, d) = (2 * q + (1 - e)) * d + r
  <2>1. PairOf(x, d) = Join(q, d, r) /\ Partner(x, d) = Place(q, 1 - e, d, r)
    BY <1>0, PairDigits
  <2>. QED
    BY <2>1 DEF Place, Join
<1>. DEFINE D == d * m
            y == r * m + c
            z == x * m + c
<1>3. D \in Nat \ {0}
  OBVIOUS
<1>4. y \in 0..(D - 1)
  <2>1. PICK k \in Nat : d = r + 1 + k
    <3>1. d - (r + 1) \in Nat /\ d = r + 1 + (d - (r + 1))
      BY <1>1
    <3>. QED
      BY <3>1
  <2>2. D = (r * m) + m + (k * m) /\ k * m \in Nat /\ r * m \in Nat
    BY <1>1, <2>1
  <2>. QED
    BY <2>2
<1>5. z = (2 * q + e) * D + y
  BY <1>1
<1>6. /\ q * D + y = (q * d + r) * m + c
      /\ (2 * q + (1 - e)) * D + y = ((2 * q + (1 - e)) * d + r) * m + c
  BY <1>1
<1>. HIDE DEF D, y, z
<1>7. HasDigits(z, D, q, e, y)
  BY <1>1, <1>3, <1>4, <1>5 DEF HasDigits, Place, Join
<1>8. /\ PairOf(z, D) = q * D + y
      /\ Partner(z, D) = (2 * q + (1 - e)) * D + y
  <2>1. PairOf(z, D) = Join(q, D, y) /\ Partner(z, D) = Place(q, 1 - e, D, y)
    BY <1>7, PairDigits
  <2>. QED
    BY <2>1 DEF Place, Join
<1>9. PairOf(z, D) = PairOf(x, d) * m + c /\ Partner(z, D) = Partner(x, d) * m + c
  BY ONLY <1>2, <1>6, <1>8
<1>. QED
  BY <1>9 DEF D, z, Join

(* Quotient and remainder by d and by 2 * d. *)
LEMMA QuotientsOf ==
  ASSUME NEW x, NEW d, NEW q, NEW e, NEW r, HasDigits(x, d, q, e, r)
  PROVE  /\ x \div d = 2 * q + e /\ x % d = r /\ (x \div d) % 2 = e
         /\ x \div (2 * d) = q /\ x % (2 * d) = Join(e, d, r)
<1>0. /\ d \in Nat \ {0} /\ q \in Nat /\ e \in {0, 1} /\ r \in 0..(d - 1)
      /\ x = (2 * q + e) * d + r
  BY DEF HasDigits, Place, Join
<1>. DEFINE D == 2 * d
            y == e * d + r
            z == 2 * q + e
<1>1. D \in Nat \ {0} /\ y \in 0..(D - 1) /\ z \in Int /\ z % 2 = e
  <2>1. CASE e = 0
    BY <1>0, <2>1
  <2>2. CASE e = 1
    BY <1>0, <2>2
  <2>. QED
    BY <1>0, <2>1, <2>2
<1>2. x = q * D + y /\ x = z * d + r
  BY <1>0
<1>3. y = Join(e, d, r)
  BY DEF Join
<1>. HIDE DEF D, y, z
<1>4. (q * D + y) \div D = q /\ (q * D + y) % D = y
  BY ONLY <1>0, <1>1, Quotient
<1>5. (z * d + r) \div d = z /\ (z * d + r) % d = r
  BY ONLY <1>0, <1>1, Quotient
<1>6. x \div D = q /\ x % D = y /\ x \div d = z /\ x % d = r
  BY ONLY <1>2, <1>4, <1>5
<1>. QED
  BY <1>1, <1>3, <1>6 DEF D, z

-------------------------------------------------------------------------------
(* The transposition.                                                      *)

(* The high digits of y, at the place of those of x. *)
Spliced(x, y, d) == ((y \div d) * d) + (x % d)

(* One round makes of a splice at 2 * d one at d. *)
LEMMA RoundOfSplice ==
  ASSUME NEW d \in Nat \ {0}, NEW x \in Nat, NEW y \in Nat
  PROVE  LET row == Spliced(x, y, 2 * d)
             col == Spliced(y, x, 2 * d)
         IN  row + (((col \div d) % 2) - ((row \div d) % 2)) * d = Spliced(x, y, d)
<1>1. PICK q, e, r : HasDigits(x, d, q, e, r)
  BY HasPairDigits
<1>2. PICK g, f, t : HasDigits(y, d, g, f, t)
  BY HasPairDigits
<1>3. /\ q \in Nat /\ e \in {0, 1} /\ r \in 0..(d - 1)
      /\ g \in Nat /\ f \in {0, 1} /\ t \in 0..(d - 1)
  BY <1>1, <1>2 DEF HasDigits
<1>4. /\ x \div d = 2 * q + e /\ x % d = r
      /\ x \div (2 * d) = q /\ x % (2 * d) = Join(e, d, r)
      /\ y \div d = 2 * g + f /\ y % d = t
      /\ y \div (2 * d) = g /\ y % (2 * d) = Join(f, d, t)
  BY <1>1, <1>2, QuotientsOf
<1>5. /\ HasDigits(Spliced(x, y, 2 * d), d, g, e, r)
      /\ HasDigits(Spliced(y, x, 2 * d), d, q, f, t)
  <2>1. /\ Spliced(x, y, 2 * d) = g * (2 * d) + (e * d + r)
        /\ Spliced(y, x, 2 * d) = q * (2 * d) + (f * d + t)
    BY <1>4 DEF Spliced, Join
  <2>2. /\ g * (2 * d) + (e * d + r) = (2 * g + e) * d + r
        /\ q * (2 * d) + (f * d + t) = (2 * q + f) * d + t
    BY <1>3
  <2>. QED
    BY <1>3, <2>1, <2>2 DEF HasDigits, Place, Join
<1>6. /\ (Spliced(x, y, 2 * d) \div d) % 2 = e
      /\ (Spliced(y, x, 2 * d) \div d) % 2 = f
  BY <1>5, QuotientsOf
<1>7. Spliced(x, y, 2 * d) = (2 * g + e) * d + r
  BY <1>5 DEF HasDigits, Place, Join
<1>8. Spliced(x, y, d) = (2 * g + f) * d + r
  BY <1>4 DEF Spliced
<1>9. ((2 * g + e) * d + r) + ((f - e) * d) = (2 * g + f) * d + r
  BY <1>3
<1>. QED
  BY ONLY <1>6, <1>7, <1>8, <1>9

Turned(y) == <<y[1], y[3], y[2]>>

(* The side of a matrix is a power of 2, and there are one or two of them. *)
LEMMA SideIsPower ==
  ASSUME NEW b \in 2..15
  PROVE  /\ b \div 2 \in 1..7 /\ Side(b) = 2^(b \div 2) /\ Side(b) \in Nat \ {0}
         /\ Halves(b) \in {1, 2}
<1>1. b \div 2 \in 1..7 /\ b % 2 \in {0, 1}
  OBVIOUS
<1>2. b \div 2 \in 0..15
  BY <1>1
<1>3. 2^(b \div 2) \in Nat \ {0}
  BY <1>2, PowerStep
<1>. QED
  BY <1>1, <1>3 DEF Side, Halves

(* The first and the last round of a transposition. *)
LEMMA SplicedEnds ==
  ASSUME NEW d \in Nat \ {0}, NEW x \in Nat, NEW y \in Nat
  PROVE  /\ x < d /\ y < d => Spliced(x, y, d) = x
         /\ Spliced(x, y, 1) = y
         /\ Spliced(x, y, d) \in Nat
<1>1. ASSUME x < d, y < d  PROVE Spliced(x, y, d) = x
  <2>1. 0 * d + x = x /\ 0 * d + y = y /\ x \in 0..(d - 1) /\ y \in 0..(d - 1)
    BY <1>1
  <2>2. x % d = x /\ y \div d = 0
    BY <2>1, Quotient
  <2>. QED
    BY <2>1, <2>2 DEF Spliced
<1>2. Spliced(x, y, 1) = y
  BY DEF Spliced
<1>3. Spliced(x, y, d) \in Nat
  BY Digits DEF Spliced
<1>. QED
  BY <1>1, <1>2, <1>3

(* transpose_64x64_inplace transposes: before round d - 1, the digits of   *)
(* the words and of the bits from 2^d up are exchanged.                    *)
LEMMA TransposeTurns ==
  ASSUME NEW b \in 2..15, NEW X,
         NEW m \in SUBSET (X \X (0..(Side(b) - 1)) \X (0..(Side(b) - 1)))
  PROVE  transpose(m, b) = {Turned(y) : y \in m}
<1>. DEFINE o == b \div 2
            Mixed(d, y) == <<y[1], Spliced(y[2], y[3], 2^d), Spliced(y[3], y[2], 2^d)>>
            Is(f) == f = [d \in 0..o |->
                            IF d = o THEN m ELSE {Exchanged(x, d) : x \in f[d + 1]}]
            R == [d \in 0..o |-> {Mixed(d, y) : y \in m}]
            F == CHOOSE f : Is(f)
<1>1. o \in 1..7 /\ \A d \in 0..o : 2^d \in Nat \ {0} /\ 2^(d + 1) = 2 * 2^d
  <2>1. o \in 1..7
    BY SideIsPower
  <2>. HIDE DEF o
  <2>2. ASSUME NEW d \in 0..o  PROVE 2^d \in Nat \ {0} /\ 2^(d + 1) = 2 * 2^d
    <3>1. d \in 0..15
      BY <2>1
    <3>. QED
      BY <3>1, PowerStep
  <2>. QED
    BY <2>1, <2>2
<1>2. ASSUME NEW y \in m
      PROVE  /\ y[2] \in Nat /\ y[3] \in Nat /\ y[2] < 2^o /\ y[3] < 2^o
             /\ y = <<y[1], y[2], y[3]>>
  <2>1. y \in X \X (0..(Side(b) - 1)) \X (0..(Side(b) - 1))
    OBVIOUS
  <2>2. Side(b) = 2^o /\ Side(b) \in Nat \ {0}
    BY SideIsPower
  <2>3. /\ y[2] \in 0..(Side(b) - 1) /\ y[3] \in 0..(Side(b) - 1)
        /\ y = <<y[1], y[2], y[3]>>
    BY ONLY <2>1
  <2>. HIDE DEF o
  <2>. QED
    BY ONLY <2>2, <2>3
<1>3. R[o] = m
  <2>1. ASSUME NEW y \in m  PROVE Mixed(o, y) = y
    <3>1. Spliced(y[2], y[3], 2^o) = y[2] /\ Spliced(y[3], y[2], 2^o) = y[3]
      <4>1. 2^o \in Nat \ {0}
        BY <1>1
      <4>. HIDE DEF o
      <4>. QED
        BY <1>2, <4>1, SplicedEnds
    <3>. QED
      BY <1>2, <3>1
  <2>2. o \in 0..o
    BY <1>1
  <2>3. {Mixed(o, y) : y \in m} = m
    BY <2>1
  <2>. QED
    BY <2>2, <2>3
<1>4. ASSUME NEW d \in 0..(o - 1)
      PROVE  R[d] = {Exchanged(x, d) : x \in R[d + 1]}
  <2>1. ASSUME NEW y \in m  PROVE Exchanged(Mixed(d + 1, y), d) = Mixed(d, y)
    <3>. DEFINE row == Spliced(y[2], y[3], 2 * 2^d)
                col == Spliced(y[3], y[2], 2 * 2^d)
                bit(x) == (x \div 2^d) % 2
    <3>1. 2^d \in Nat \ {0} /\ 2^(d + 1) = 2 * 2^d
      BY <1>1
    <3>2. /\ row + (bit(col) - bit(row)) * 2^d = Spliced(y[2], y[3], 2^d)
          /\ col + (bit(row) - bit(col)) * 2^d = Spliced(y[3], y[2], 2^d)
      <4>. DEFINE P == 2^d
                  u == y[2]
                  v == y[3]
      <4>1. P \in Nat \ {0} /\ u \in Nat /\ v \in Nat
        BY <1>2, <3>1
      <4>. HIDE DEF P, u, v
      <4>2. Spliced(u, v, 2 * P) + (((Spliced(v, u, 2 * P) \div P) % 2)
              - ((Spliced(u, v, 2 * P) \div P) % 2)) * P = Spliced(u, v, P)
        BY ONLY <4>1, RoundOfSplice
      <4>3. Spliced(v, u, 2 * P) + (((Spliced(u, v, 2 * P) \div P) % 2)
              - ((Spliced(v, u, 2 * P) \div P) % 2)) * P = Spliced(v, u, P)
        BY ONLY <4>1, RoundOfSplice
      <4>. QED
        BY <4>2, <4>3 DEF P, u, v
    <3>3. Mixed(d + 1, y) = <<y[1], row, col>>
      BY <3>1
    <3>. HIDE DEF row, col
    <3>4. Exchanged(<<y[1], row, col>>, d)
            = <<y[1], row + (bit(col) - bit(row)) * 2^d, col + (bit(row) - bit(col)) * 2^d>>
      BY DEF Exchanged
    <3>. HIDE DEF bit
    <3>. QED
      BY <3>2, <3>3, <3>4
  <2>2. R[d] = {Mixed(d, y) : y \in m} /\ R[d + 1] = {Mixed(d + 1, y) : y \in m}
    BY <1>1
  <2>. HIDE DEF R, Mixed
  <2>. QED
    BY <2>1, <2>2
<1>5. Is(R)
  <2>1. R = [d \in 0..o |-> R[d]]
    OBVIOUS
  <2>2. \A d \in 0..o : d # o => d \in 0..(o - 1)
    BY <1>1
  <2>. HIDE DEF R, o
  <2>. QED
    BY <1>3, <1>4, <2>1, <2>2
<1>6. Is(F)
  BY <1>5
<1>7. transpose(m, b) = F[0]
  BY DEF transpose
<1>8. F[0] = R[0]
  <2>. DEFINE P == {k \in 0..o : F[o - k] = R[o - k]}
  <2>1. 0 \in P
    <3>1. o \in 0..o /\ 0 \in 0..o /\ o - 0 = o
      BY <1>1
    <3>2. F[o] = m
      BY <1>6, <3>1
    <3>. HIDE DEF o, F, R
    <3>. QED
      BY <1>3, <3>1, <3>2
  <2>2. ASSUME NEW k \in 0..(o - 1), k \in P  PROVE k + 1 \in P
    <3>. DEFINE d == o - (k + 1)
    <3>1. d \in 0..(o - 1) /\ d \in 0..o /\ d # o /\ d + 1 = o - k /\ k + 1 \in 0..o
      BY <1>1
    <3>2. F[d] = {Exchanged(x, d) : x \in F[d + 1]}
      <4>. HIDE DEF d, F, o
      <4>. QED
        BY <1>6, <3>1
    <3>3. F[d + 1] = R[d + 1]
      BY <2>2, <3>1
    <3>4. F[d] = R[d]
      <4>. HIDE DEF d, F, R, o
      <4>. QED
        BY <1>4, <3>1, <3>2, <3>3
    <3>. QED
      BY <3>1, <3>4
  <2>3. o \in Nat /\ o \in 0..o /\ o - o = 0
    BY <1>1
  <2>. HIDE DEF P, o
  <2>4. o \in P
    BY <2>1, <2>2, <2>3, Upward
  <2>. QED
    BY <2>3, <2>4 DEF P
<1>9. R[0] = {Turned(y) : y \in m}
  <2>1. ASSUME NEW y \in m  PROVE Mixed(0, y) = Turned(y)
    <3>1. 2^0 = 1
      OBVIOUS
    <3>2. Spliced(y[2], y[3], 1) = y[3] /\ Spliced(y[3], y[2], 1) = y[2]
      BY <1>2, SplicedEnds
    <3>. QED
      BY <3>1, <3>2 DEF Turned
  <2>2. R[0] = {Mixed(0, y) : y \in m}
    BY <1>1
  <2>. HIDE DEF R, Mixed
  <2>. QED
    BY <2>1, <2>2
<1>. QED
  BY <1>7, <1>8, <1>9

-------------------------------------------------------------------------------
(* A place of the network, and where it is in the matrices: bit c of word  *)
(* a of matrix h.                                                          *)

Cell(b, h, a, c) == a * (Side(b) * Halves(b)) + (h * Side(b) + c)

InWords(b, x) ==
  <<(x \div Side(b)) % Halves(b), x \div (Side(b) * Halves(b)), x % Side(b)>>

Points(b) == 0..(2^b - 1)
InSide(b) == 0..(Side(b) - 1)
InHalves(b) == 0..(Halves(b) - 1)

(* The 2^b places fill the matrices. *)
LEMMA SizeOfNetwork ==
  ASSUME NEW b \in 2..15
  PROVE  /\ 2^b = Side(b) * (Side(b) * Halves(b)) /\ 2^b \in Nat \ {0}
         /\ 2^b = 2 * 2^(b - 1) /\ 2^(b - 1) \in Nat \ {0}
         /\ 2^Outer(b) = Side(b) * Halves(b)
<1>. DEFINE o == b \div 2
<1>1. /\ o \in 1..7 /\ Side(b) = 2^o /\ Side(b) \in Nat \ {0}
      /\ (b = o + o /\ b % 2 = 0) \/ (b = o + (o + 1) /\ b % 2 = 1)
  <2>1. (b = o + o /\ b % 2 = 0) \/ (b = o + (o + 1) /\ b % 2 = 1)
    OBVIOUS
  <2>. QED
    BY <2>1, SideIsPower
<1>2. b - 1 \in 0..15 /\ b \in 0..15 /\ (b - 1) + 1 = b
  OBVIOUS
<1>3. /\ 2^b \in Nat \ {0} /\ 2^(b - 1) \in Nat \ {0} /\ 2^((b - 1) + 1) = 2 * 2^(b - 1)
  BY <1>2, PowerStep
<1>. HIDE DEF o
<1>4. o \in 0..15 /\ o + 1 \in 0..15 /\ 2^(o + 1) = 2 * 2^o
  <2>1. o \in 0..15 /\ o + 1 \in 0..15
    BY <1>1
  <2>2. 2^(o + 1) = 2 * 2^o
    BY ONLY <2>1, PowerStep
  <2>. QED
    BY <2>1, <2>2
<1>5. CASE b = o + o /\ b % 2 = 0
  <2>1. 2^(o + o) = 2^o * 2^o
    <3>1. o + o <= 15
      BY <1>1
    <3>. QED
      BY ONLY <1>4, <3>1, PowerSum
  <2>2. Outer(b) = o /\ Halves(b) = 1
    BY <1>1, <1>5 DEF Outer, Halves, o
  <2>. QED
    BY <1>1, <1>2, <1>3, <1>5, <2>1, <2>2
<1>6. CASE b = o + (o + 1) /\ b % 2 = 1
  <2>1. 2^(o + (o + 1)) = 2^o * 2^(o + 1)
    <3>1. o + (o + 1) <= 15
      BY <1>1
    <3>. QED
      BY ONLY <1>4, <3>1, PowerSum
  <2>2. Outer(b) = o + 1 /\ Halves(b) = 2
    BY <1>1, <1>6 DEF Outer, Halves, o
  <2>3. 2 * 2^o = 2^o * 2
    BY <1>1
  <2>. QED
    BY <1>1, <1>2, <1>3, <1>4, <1>6, <2>1, <2>2, <2>3
<1>. QED
  BY <1>1, <1>5, <1>6

(* ToMatrix finds bit c of word a of matrix h where FromMatrix puts it. *)
LEMMA CellInWords ==
  ASSUME NEW b \in 2..15, NEW h \in InHalves(b), NEW a \in InSide(b), NEW c \in InSide(b)
  PROVE  Cell(b, h, a, c) \in Points(b) /\ InWords(b, Cell(b, h, a, c)) = <<h, a, c>>
<1>. DEFINE S == Side(b)
            H == Halves(b)
            x == Cell(b, h, a, c)
            M == S * H
            z == h * S + c
<1>1. S \in Nat \ {0} /\ H \in {1, 2} /\ 2^b = S * M /\ h \in {0, 1} /\ h < H
      /\ a \in 0..(S - 1) /\ c \in 0..(S - 1)
  <2>1. S \in Nat \ {0} /\ H \in {1, 2} /\ 2^b = S * M
    BY SideIsPower, SizeOfNetwork
  <2>2. h \in 0..(H - 1) /\ a \in 0..(S - 1) /\ c \in 0..(S - 1)
    BY DEF InHalves, InSide
  <2>. HIDE DEF S, H, M
  <2>. QED
    BY <2>1, <2>2
<1>2. x = a * M + z
  BY DEF Cell
<1>. HIDE DEF x, S, H
<1>3. M \in Nat \ {0} /\ z \in 0..(M - 1)
  <2>1. CASE H = 1
    BY <1>1, <2>1
  <2>2. CASE H = 2 /\ h = 0
    BY <1>1, <2>2
  <2>3. CASE H = 2 /\ h = 1
    BY <1>1, <2>3
  <2>. QED
    BY <1>1, <2>1, <2>2, <2>3
<1>. HIDE DEF M, z
<1>4. x \div M = a
  <2>1. (a * M + z) \div M = a
    <3>1. a \in Int
      BY <1>1
    <3>. QED
      BY ONLY <1>3, <3>1, Quotient
  <2>. QED
    BY <1>2, <2>1
<1>5. x % S = c /\ (x \div S) % H = h
  <2>. DEFINE y == a * H + h
  <2>1. y \in Int /\ x = y * S + c
    BY <1>1, <1>2, <1>3 DEF M, z
  <2>2. y % H = h
    <3>1. h \in 0..(H - 1) /\ H \in Nat \ {0}
      BY <1>1
    <3>. QED
      BY <1>1, <3>1, Quotient
  <2>. HIDE DEF y
  <2>3. (y * S + c) \div S = y /\ (y * S + c) % S = c
    BY ONLY <1>1, <2>1, Quotient
  <2>. QED
    BY <2>1, <2>2, <2>3
<1>6. x \in 0..(2^b - 1)
  <2>1. PICK k \in Nat : S = a + 1 + k
    <3>1. S - (a + 1) \in Nat /\ S = a + 1 + (S - (a + 1))
      BY <1>1
    <3>. QED
      BY <3>1
  <2>2. S * M = (a * M) + M + (k * M) /\ k * M \in Nat /\ a * M \in Nat
    BY <1>1, <1>3, <2>1
  <2>. QED
    BY <1>1, <1>2, <1>3, <2>2
<1>. QED
  BY <1>4, <1>5, <1>6 DEF InWords, Points, x, S, H, M

(* Every place is such a bit. *)
LEMMA HasCell ==
  ASSUME NEW b \in 2..15, NEW x \in Points(b)
  PROVE  \E h \in InHalves(b), a \in InSide(b), c \in InSide(b) : x = Cell(b, h, a, c)
<1>. DEFINE S == Side(b)
            H == Halves(b)
            M == S * H
            y == x \div S
<1>1. S \in Nat \ {0} /\ H \in {1, 2} /\ 2^b = S * M /\ x \in 0..(S * M - 1)
  BY SideIsPower, SizeOfNetwork DEF Points
<1>. HIDE DEF S, H
<1>2. y \in Nat /\ x % S \in 0..(S - 1) /\ x = (y * S) + (x % S)
  <2>1. x \in Nat
    BY DEF Points
  <2>. QED
    BY <1>1, <2>1, Digits
<1>. HIDE DEF y
<1>3. /\ y \div H \in Nat /\ y % H \in 0..(H - 1) /\ y = ((y \div H) * H) + (y % H)
  BY <1>1, <1>2, Digits
<1>. DEFINE a == y \div H
            h == y % H
            c == x % S
<1>4. a \in Nat /\ h \in 0..(H - 1) /\ c \in 0..(S - 1) /\ x = ((a * H) + h) * S + c
  BY <1>2, <1>3
<1>. HIDE DEF a, h, c
<1>5. x = a * M + (h * S + c)
  BY <1>1, <1>4
<1>6. a < S
  <2>1. SUFFICES ASSUME a >= S  PROVE FALSE
    BY <1>1, <1>4
  <2>2. M \in Nat /\ h * S \in Nat
    BY <1>1, <1>4
  <2>. HIDE DEF M
  <2>3. (a - S) * M >= 0 /\ a * M = (a - S) * M + S * M
    BY <1>1, <1>4, <2>1, <2>2
  <2>. QED
    BY <1>1, <1>4, <1>5, <2>2, <2>3
<1>7. h \in InHalves(b) /\ a \in InSide(b) /\ c \in InSide(b)
  BY <1>1, <1>4, <1>6 DEF InHalves, InSide, S, H
<1>. QED
  BY <1>5, <1>7 DEF Cell, S, H, M

-------------------------------------------------------------------------------
(* The layers.                                                             *)

(* Where a layer moves the bit at place x. *)
Moved(x, cb, d) == IF PairOf(x, d) \in cb THEN Partner(x, d) ELSE x

Halved(b) == Side(b) \div 2

(* A stride within a matrix. *)
IsStride(b, d) == \E k \in 0..((b \div 2) - 1) : d = 2^k

(* A side is even. *)
LEMMA HalvedIsHalf ==
  ASSUME NEW b \in 2..15
  PROVE  Halved(b) \in Nat \ {0} /\ Side(b) = 2 * Halved(b)
<1>. DEFINE o == b \div 2
<1>0. o \in 1..7 /\ Side(b) = 2^o
  BY SideIsPower
<1>. HIDE DEF o
<1>1. o - 1 \in 0..15 /\ (o - 1) + 1 = o
  BY <1>0
<1>2. 2^(o - 1) \in Nat \ {0} /\ 2^((o - 1) + 1) = 2 * 2^(o - 1)
  BY ONLY <1>1, PowerStep
<1>. DEFINE q == 2^(o - 1)
<1>3. q \in Nat \ {0} /\ Side(b) = 2 * q
  BY ONLY <1>0, <1>1, <1>2
<1>. HIDE DEF q
<1>4. (2 * q) \div 2 = q
  BY <1>3
<1>. QED
  BY <1>3, <1>4 DEF Halved

(* A stride between the bits of a word. *)
LEMMA PairOfBits ==
  ASSUME NEW b \in 2..15, NEW d, IsStride(b, d),
         NEW h \in InHalves(b), NEW a \in InSide(b), NEW c \in InSide(b)
  PROVE  /\ PairOf(c, d) \in 0..(Halved(b) - 1) /\ Partner(c, d) \in InSide(b)
         /\ PairOf(Cell(b, h, a, c), d)
              = Join(a, Halved(b) * Halves(b), Join(h, Halved(b), PairOf(c, d)))
         /\ Partner(Cell(b, h, a, c), d) = Cell(b, h, a, Partner(c, d))
<1>0. PICK k \in 0..((b \div 2) - 1) : d = 2^k
  BY DEF IsStride
<1>. DEFINE S == Side(b)
            H == Halves(b)
            o == b \div 2
            g == 2^(o - 1 - k)
            q == g * d
<1>1. /\ S \in Nat \ {0} /\ H \in {1, 2} /\ a \in Nat /\ c \in 0..(S - 1)
      /\ h \in 0..(H - 1)
  BY SideIsPower DEF InHalves, InSide
<1>2. d \in Nat \ {0} /\ g \in Nat \ {0} /\ S = 2 * q
  <2>1. o \in 1..7 /\ S = 2^o /\ k \in 0..(o - 1)
    BY SideIsPower
  <2>. HIDE DEF o, S
  <2>2. /\ k \in 0..15 /\ o - 1 - k \in 0..15 /\ (o - 1 - k) + k <= 15
        /\ (o - 1 - k) + k = o - 1 /\ o - 1 \in 0..15 /\ (o - 1) + 1 = o
    BY <2>1
  <2>3. d \in Nat \ {0} /\ g \in Nat \ {0} /\ 2^((o - 1) + 1) = 2 * 2^(o - 1)
    BY <1>0, <2>2, PowerStep
  <2>4. 2^((o - 1 - k) + k) = g * d
    BY ONLY <1>0, <2>2, PowerSum
  <2>. QED
    BY ONLY <1>0, <2>1, <2>2, <2>3, <2>4
<1>3. Halved(b) = q /\ q \in Nat \ {0}
  <2>1. q \in Nat \ {0}
    BY <1>2
  <2>. HIDE DEF q
  <2>2. (2 * q) \div 2 = q
    BY <2>1
  <2>. QED
    BY <1>2, <2>1, <2>2 DEF Halved
<1>. DEFINE e == H * g
            y == h * S + c
<1>4. /\ e \in Nat \ {0} /\ h \in Nat /\ y \in 0..(2 * (e * d) - 1) /\ S * H = 2 * (e * d)
      /\ e * d = q * H
  <2>1. CASE H = 1
    BY <1>1, <1>2, <2>1
  <2>2. CASE H = 2 /\ h = 0
    BY <1>1, <1>2, <2>2
  <2>3. CASE H = 2 /\ h = 1
    BY <1>1, <1>2, <2>3
  <2>. QED
    BY <1>1, <2>1, <2>2, <2>3
<1>5. c \in 0..(2 * (g * d) - 1)
  BY <1>1, <1>2
<1>. HIDE DEF S, H, g, e
<1>6. /\ PairOf(c, d) \in 0..(q - 1)
      /\ Partner(c, d) \in 0..(S - 1)
      /\ PairOf(Join(h, S, c), d) = Join(h, q, PairOf(c, d))
      /\ Partner(Join(h, S, c), d) = Join(h, S, Partner(c, d))
  <2>1. Doubled(d, q, S) /\ c \in 0..(S - 1) /\ h \in Nat
    BY <1>1, <1>2, <1>4 DEF Doubled
  <2>. HIDE DEF q
  <2>. QED
    BY ONLY <2>1, PairWithin
<1>. HIDE DEF y
<1>7. /\ PairOf(Join(a, S * H, y), d) = Join(a, e * d, PairOf(y, d))
      /\ Partner(Join(a, S * H, y), d) = Join(a, S * H, Partner(y, d))
  <2>. DEFINE p == e * d
              m == S * H
  <2>1. Doubled(d, p, m) /\ y \in 0..(m - 1)
    BY <1>2, <1>4 DEF Doubled
  <2>. HIDE DEF p, m
  <2>2. /\ PairOf(Join(a, m, y), d) = Join(a, p, PairOf(y, d))
        /\ Partner(Join(a, m, y), d) = Join(a, m, Partner(y, d))
    BY ONLY <1>1, <2>1, PairWithin
  <2>. QED
    BY <2>2 DEF p, m
<1>8. /\ y = Join(h, S, c)
      /\ Cell(b, h, a, c) = Join(a, S * H, y)
      /\ Cell(b, h, a, Partner(c, d)) = Join(a, S * H, Join(h, S, Partner(c, d)))
  BY DEF Cell, Join, y, S, H
<1>. HIDE DEF q
<1>10. PairOf(Cell(b, h, a, c), d) = Join(a, q * H, Join(h, q, PairOf(c, d)))
  BY ONLY <1>4, <1>6, <1>7, <1>8
<1>11. Partner(Cell(b, h, a, c), d) = Cell(b, h, a, Partner(c, d))
  BY ONLY <1>6, <1>7, <1>8
<1>12. Partner(c, d) \in InSide(b)
  BY <1>6 DEF InSide, S
<1>. QED
  BY <1>3, <1>6, <1>10, <1>11, <1>12 DEF H

(* The stride between the two matrices. *)
LEMMA PairOfHalves ==
  ASSUME NEW b \in 2..15, Halves(b) = 2,
         NEW h \in InHalves(b), NEW a \in InSide(b), NEW c \in InSide(b)
  PROVE  /\ PairOf(Cell(b, h, a, c), Side(b)) = Join(a, Side(b), c)
         /\ Partner(Cell(b, h, a, c), Side(b)) = Cell(b, 1 - h, a, c)
         /\ 1 - h \in InHalves(b)
<1>. DEFINE x == Cell(b, h, a, c)
            S == Side(b)
<1>1. S \in Nat \ {0} /\ a \in Nat /\ c \in 0..(S - 1) /\ h \in {0, 1}
  BY SideIsPower DEF InSide, InHalves
<1>2. x = a * (S * 2) + (h * S + c)
  BY DEF Cell
<1>3. Cell(b, 1 - h, a, c) = a * (S * 2) + ((1 - h) * S + c)
  BY DEF Cell
<1>. HIDE DEF x, S
<1>4. x = (2 * a + h) * S + c /\ Cell(b, 1 - h, a, c) = (2 * a + (1 - h)) * S + c
  BY <1>1, <1>2, <1>3
<1>5. HasDigits(x, S, a, h, c)
  BY <1>1, <1>4 DEF HasDigits, Place, Join
<1>6. PairOf(x, S) = Join(a, S, c) /\ Partner(x, S) = Place(a, 1 - h, S, c)
  BY <1>5, PairDigits
<1>7. PairOf(x, S) = Join(a, S, c) /\ Partner(x, S) = Cell(b, 1 - h, a, c)
  <2>1. Place(a, 1 - h, S, c) = (2 * a + (1 - h)) * S + c
    BY DEF Place, Join
  <2>. QED
    BY ONLY <1>4, <1>6, <2>1
<1>8. 1 - h \in InHalves(b)
  BY <1>1 DEF InHalves
<1>. QED
  BY <1>7, <1>8 DEF x, S

(* A stride between words. *)
Scaled(b, d) == d * 2^Outer(b)

LEMMA PairOfWords ==
  ASSUME NEW b \in 2..15, NEW d, IsStride(b, d),
         NEW h \in InHalves(b), NEW a \in InSide(b), NEW c \in InSide(b)
  PROVE  /\ Partner(a, d) \in InSide(b)
         /\ PairOf(Cell(b, h, a, c), Scaled(b, d))
              = Join(Join(PairOf(a, d), Halves(b), h), Side(b), c)
         /\ Partner(Cell(b, h, a, c), Scaled(b, d)) = Cell(b, h, Partner(a, d), c)
         /\ PairOf(a, d) \in 0..(Halved(b) - 1)
<1>. DEFINE S == Side(b)
            H == Halves(b)
            M == S * H
            y == h * S + c
<1>1. /\ S \in Nat \ {0} /\ H \in {1, 2} /\ a \in Nat /\ c \in 0..(S - 1)
      /\ h \in 0..(H - 1) /\ 2^Outer(b) = M
  BY SideIsPower, SizeOfNetwork DEF InHalves, InSide
<1>2. /\ Partner(a, d) \in InSide(b) /\ d \in Nat \ {0} /\ PairOf(a, d) \in Nat
      /\ PairOf(a, d) \in 0..(Halved(b) - 1)
  <2>1. Partner(a, d) \in InSide(b) /\ PairOf(a, d) \in 0..(Halved(b) - 1)
    BY PairOfBits
  <2>2. PICK k \in 0..((b \div 2) - 1) : d = 2^k
    BY DEF IsStride
  <2>3. k \in 0..15
    BY SideIsPower
  <2>4. d \in Nat \ {0}
    BY <2>2, <2>3, PowerStep
  <2>5. PairOf(a, d) \in Nat
    BY <2>1, HalvedIsHalf
  <2>. QED
    BY <2>1, <2>4, <2>5
<1>3. /\ Cell(b, h, a, c) = Join(a, M, y)
      /\ Cell(b, h, Partner(a, d), c) = Join(Partner(a, d), M, y)
  BY DEF Cell, Join
<1>4. M \in Nat \ {0} /\ y \in 0..(M - 1)
  <2>. HIDE DEF S, H
  <2>1. CASE H = 1
    BY <1>1, <2>1
  <2>2. CASE H = 2 /\ h = 0
    BY <1>1, <2>2
  <2>3. CASE H = 2 /\ h = 1
    BY <1>1, <2>3
  <2>. QED
    BY <1>1, <2>1, <2>2, <2>3
<1>5. PairOf(a, d) * M + y = (PairOf(a, d) * H + h) * S + c
  <2>1. H \in Nat /\ h \in Nat
    BY <1>1
  <2>. HIDE DEF S, H
  <2>. QED
    BY <1>1, <1>2, <2>1
<1>. HIDE DEF S, H, M, y
<1>6. /\ PairOf(Join(a, M, y), d * M) = Join(PairOf(a, d), M, y)
      /\ Partner(Join(a, M, y), d * M) = Join(Partner(a, d), M, y)
  <2>. DEFINE g == d * M
  <2>1. IsProduct(g, d, M)
    BY <1>2, <1>4 DEF IsProduct
  <2>. HIDE DEF g
  <2>2. /\ PairOf(Join(a, M, y), g) = Join(PairOf(a, d), M, y)
        /\ Partner(Join(a, M, y), g) = Join(Partner(a, d), M, y)
    BY ONLY <1>1, <1>4, <2>1, PairAbove
  <2>. QED
    BY <2>2 DEF g
<1>7. /\ PairOf(Cell(b, h, a, c), d * M) = Join(Join(PairOf(a, d), H, h), S, c)
      /\ Partner(Cell(b, h, a, c), d * M) = Cell(b, h, Partner(a, d), c)
  <2>1. Join(PairOf(a, d), M, y) = Join(Join(PairOf(a, d), H, h), S, c)
    BY <1>5 DEF Join
  <2>. QED
    BY ONLY <1>3, <1>6, <2>1
<1>8. Scaled(b, d) = d * M
  BY <1>1 DEF Scaled
<1>. QED
  BY <1>2, <1>7, <1>8 DEF S, H

-------------------------------------------------------------------------------
(* The control bits of a layer, loaded into words.                         *)

(* A 1 bit of the words that a string of bits fills. *)
LEMMA LoadHas ==
  ASSUME NEW C \in SUBSET Nat, NEW d \in Nat \ {0}, NEW v \in Nat, NEW t \in 0..(d - 1)
  PROVE  <<0, v, t>> \in {<<0, c \div d, c % d>> : c \in C} <=> v * d + t \in C
<1>1. (v * d + t) \div d = v /\ (v * d + t) % d = t
  BY Quotient
<1>2. ASSUME NEW c \in C, c \div d = v, c % d = t  PROVE c = v * d + t
  <2>1. c = ((c \div d) * d) + (c % d)
    BY Digits
  <2>. QED
    BY <1>2, <2>1
<1>. DEFINE x == v * d + t
<1>. HIDE DEF x
<1>3. ASSUME x \in C  PROVE <<0, v, t>> \in {<<0, c \div d, c % d>> : c \in C}
  <2>1. <<0, x \div d, x % d>> \in {<<0, c \div d, c % d>> : c \in C}
    BY <1>3
  <2>2. x \div d = v /\ x % d = t
    BY <1>1 DEF x
  <2>. QED
    BY <2>1, <2>2
<1>4. ASSUME <<0, v, t>> \in {<<0, c \div d, c % d>> : c \in C}  PROVE x \in C
  <2>1. PICK c \in C : <<0, v, t>> = <<0, c \div d, c % d>>
    BY <1>4
  <2>2. c = v * d + t
    BY <1>2, <2>1
  <2>. QED
    BY <2>2 DEF x
<1>. QED
  BY <1>3, <1>4 DEF x

(* A layer has 2^(b - 1) control bits. *)
LEMMA LayerBitsTyped ==
  ASSUME NEW b \in 2..15, NEW bits, NEW m \in Nat
  PROVE  LayerBits(bits, b, m) \in SUBSET (0..(2^(b - 1) - 1))
<1>. DEFINE half == 2^(b - 1)
            z == m * half
<1>1. half \in Nat \ {0}
  BY SizeOfNetwork
<1>. HIDE DEF half
<1>. DEFINE next == (m + 1) * half
<1>2. z \in Nat /\ next = z + half
  BY <1>1
<1>4. LayerBits(bits, b, m) = {c - z : c \in bits \cap (z..(next - 1))}
  BY DEF LayerBits, half
<1>. HIDE DEF z, next
<1>3. \A c \in z..(next - 1) : c - z \in 0..(half - 1)
  BY <1>1, <1>2
<1>5. LayerBits(bits, b, m) \in SUBSET (0..(half - 1))
  BY <1>3, <1>4
<1>. QED
  BY <1>5 DEF half

(* The words as they are loaded, and transposed. *)
Fits(b, d) == d \in Nat \ {0} /\ d <= Side(b) /\ 2^(b - 1) = Side(b) * d

(* Control bit number v * d + t is bit t of word v, for words of d bits. *)
LEMMA LoadedHas ==
  ASSUME NEW b \in 2..15, NEW bits, NEW m \in Nat,
         NEW d \in Nat \ {0}, NEW v \in Nat, NEW t \in 0..(d - 1)
  PROVE  <<0, v, t>> \in Load(bits, b, m, d) <=> Join(v, d, t) \in LayerBits(bits, b, m)
<1>. DEFINE C == LayerBits(bits, b, m)
<1>1. C \in SUBSET (0..(2^(b - 1) - 1)) /\ 2^(b - 1) \in Nat
  BY LayerBitsTyped, SizeOfNetwork
<1>2. Load(bits, b, m, d) = {<<0, c \div d, c % d>> : c \in C}
  BY DEF Load
<1>. HIDE DEF C
<1>3. C \in SUBSET Nat
  BY <1>1
<1>4. <<0, v, t>> \in Load(bits, b, m, d) <=> v * d + t \in C
  BY <1>2, <1>3, LoadHas
<1>. QED
  BY <1>4 DEF Join, C

(* It is bit v of word t when the words are transposed. *)
LEMMA TurnedHas ==
  ASSUME NEW b \in 2..15, NEW bits, NEW m \in Nat,
         NEW d, Fits(b, d), NEW v \in InSide(b), NEW t \in 0..(d - 1)
  PROVE  <<0, t, v>> \in transpose(Load(bits, b, m, d), b)
           <=> Join(v, d, t) \in LayerBits(bits, b, m)
<1>00. d \in Nat \ {0} /\ d <= Side(b) /\ 2^(b - 1) = Side(b) * d
  BY DEF Fits
<1>. DEFINE C == LayerBits(bits, b, m)
            S == Side(b)
            M == Load(bits, b, m, d)
<1>0. S \in Nat \ {0} /\ C \in SUBSET (0..(2^(b - 1) - 1)) /\ v \in Nat /\ v \in 0..(S - 1)
  <2>1. S \in Nat \ {0}
    BY SideIsPower
  <2>2. C \in SUBSET (0..(2^(b - 1) - 1))
    BY LayerBitsTyped
  <2>3. v \in 0..(S - 1)
    BY DEF InSide
  <2>. HIDE DEF S, C
  <2>. QED
    BY <2>1, <2>2, <2>3
<1>1. M = {<<0, c \div d, c % d>> : c \in C}
  BY DEF Load
<1>2. C \in SUBSET Nat
  <2>. HIDE DEF C
  <2>. QED
    BY <1>0
<1>. HIDE DEF C, S, M
<1>3. <<0, v, t>> \in M <=> Join(v, d, t) \in C
  BY ONLY b \in 2..15, m \in Nat, <1>0, <1>00, t \in 0..(d - 1), LoadedHas DEF M, C
<1>4. <<0, t, v>> \in transpose(M, b) <=> <<0, v, t>> \in M
  <2>1. ASSUME NEW c \in C  PROVE c \div d \in 0..(S - 1) /\ c % d \in 0..(S - 1)
    <3>1. c \in 0..(S * d - 1)
      BY <1>0, <1>00 DEF S
    <3>2. c \div d \in Nat /\ c % d \in 0..(d - 1) /\ c = ((c \div d) * d) + (c % d)
      <4>1. c \in Nat
        BY <1>2
      <4>. QED
        BY ONLY <1>00, <4>1, Digits
    <3>. DEFINE q == c \div d
    <3>3. q < S
      <4>1. SUFFICES ASSUME q >= S  PROVE FALSE
        BY <1>0, <1>00, <3>2
      <4>2. q \in Nat /\ c = q * d + (c % d)
        BY <3>2
      <4>. HIDE DEF q
      <4>3. (q - S) * d >= 0 /\ q * d = (q - S) * d + S * d
        BY <1>0, <1>00, <4>1, <4>2
      <4>. QED
        BY <1>0, <1>00, <3>1, <3>2, <4>2, <4>3
    <3>4. d <= S
      BY <1>00 DEF S
    <3>. QED
      BY <1>0, <1>00, <3>2, <3>3, <3>4
  <2>2. M \in SUBSET ({0} \X (0..(S - 1)) \X (0..(S - 1)))
    BY <1>1, <2>1
  <2>3. transpose(M, b) = {Turned(y) : y \in M}
    BY <2>2, TransposeTurns DEF S
  <2>4. \A y \in M : y = <<0, y[2], y[3]>> /\ Turned(y) = <<0, y[3], y[2]>>
    BY <1>1 DEF Turned
  <2>5. ASSUME <<0, t, v>> \in transpose(M, b)  PROVE <<0, v, t>> \in M
    <3>1. PICK y \in M : <<0, t, v>> = Turned(y)
      BY <2>3, <2>5
    <3>2. y = <<0, v, t>>
      BY <2>4, <3>1
    <3>. QED
      BY <3>2
  <2>6. ASSUME <<0, v, t>> \in M  PROVE <<0, t, v>> \in transpose(M, b)
    <3>1. Turned(<<0, v, t>>) = <<0, t, v>>
      BY DEF Turned
    <3>. QED
      BY <2>3, <2>6, <3>1
  <2>. QED
    BY <2>5, <2>6
<1>. QED
  BY <1>3, <1>4 DEF C, S, M

-------------------------------------------------------------------------------
(* What a layer of the code does to the places, in the two arrangements.   *)

Spread(b, D) == {InWords(b, x) : x \in D}
Across(b, D) == {Turned(InWords(b, x)) : x \in D}
AfterLayer(D, cb, d) == {Moved(x, cb, d) : x \in D}

(* A layer stays inside the network. *)
LEMMA MovedTyped ==
  ASSUME NEW b \in 2..15, NEW k \in 0..(b - 1), NEW x \in Points(b), NEW cb
  PROVE  Moved(x, cb, 2^k) \in Points(b)
<1>. DEFINE d == 2^k
            p == 2^(b - 1)
            m == 2^b
            g == 2^(b - 1 - k)
<1>1. Doubled(d, p, m) /\ d \in Nat \ {0} /\ m \in Nat
  <2>1. /\ k \in 0..15 /\ b - 1 - k \in 0..15 /\ (b - 1 - k) + k <= 15
        /\ (b - 1 - k) + k = b - 1
    OBVIOUS
  <2>2. d \in Nat \ {0} /\ g \in Nat \ {0}
    BY <2>1, PowerStep
  <2>3. 2^((b - 1 - k) + k) = g * d
    BY ONLY <2>1, PowerSum
  <2>4. m = 2 * p /\ m \in Nat
    BY SizeOfNetwork
  <2>5. p = g * d
    BY ONLY <2>1, <2>3
  <2>. HIDE DEF d, p, m, g
  <2>. QED
    BY <2>2, <2>4, <2>5 DEF Doubled
<1>2. x \in 0..(m - 1) /\ x \in Nat
  BY DEF Points
<1>. HIDE DEF d, p, m
<1>3. Partner(x, d) \in 0..(m - 1)
  BY ONLY <1>1, <1>2, 0 \in Nat, PairWithin
<1>5. Moved(x, cb, d) \in 0..(m - 1)
  BY <1>2, <1>3 DEF Moved
<1>. QED
  BY <1>5 DEF d, m, Points

(* A layer is its own inverse. *)
LEMMA MovedBack ==
  ASSUME NEW b \in 2..15, NEW k \in 0..(b - 1), NEW x \in Points(b), NEW cb
  PROVE  Moved(Moved(x, cb, 2^k), cb, 2^k) = x
<1>. DEFINE d == 2^k
<1>1. k \in 0..15 /\ d \in Nat \ {0}
  <2>1. k \in 0..15
    OBVIOUS
  <2>. QED
    BY <2>1, PowerStep
<1>2. x \in Nat
  BY SizeOfNetwork DEF Points
<1>. HIDE DEF d
<1>3. PairOf(Partner(x, d), d) = PairOf(x, d) /\ Partner(Partner(x, d), d) = x
  BY ONLY <1>1, <1>2, PartnerOfPartner
<1>4. CASE PairOf(x, d) \in cb
  BY <1>3, <1>4 DEF Moved, d
<1>5. CASE PairOf(x, d) \notin cb
  BY <1>5 DEF Moved, d
<1>. QED
  BY <1>4, <1>5

(* EXCEPT on a triple. *)
LEMMA Replaced ==
  ASSUME NEW u, NEW v, NEW x, NEW e
  PROVE  /\ [<<u, v, x>> EXCEPT ![1] = e] = <<e, v, x>>
         /\ [<<u, v, x>> EXCEPT ![2] = e] = <<u, e, x>>
OBVIOUS

(* For odd b the control bits fill a matrix. *)
LEMMA OddFits ==
  ASSUME NEW b \in 2..15, Halves(b) = 2
  PROVE  Fits(b, Side(b))
<1>. DEFINE p == 2^(b - 1)
            S == Side(b)
<1>1. 2 * p = S * (S * 2) /\ S \in Nat \ {0} /\ p \in Nat
  BY SizeOfNetwork, SideIsPower
<1>. HIDE DEF p, S
<1>2. S * (S * 2) = 2 * (S * S)
  BY <1>1
<1>3. p = S * S /\ S <= S
  BY <1>1, <1>2
<1>. QED
  BY <1>1, <1>3 DEF Fits, p, S

(* The matrix transposed: b even, the strides within a word. *)
LEMMA OuterEven ==
  ASSUME NEW b \in 2..15, Halves(b) = 1, NEW d, IsStride(b, d),
         NEW h \in InHalves(b), NEW a \in InSide(b), NEW c \in InSide(b),
         NEW bits, NEW m \in Nat
  PROVE  Turned(InWords(b, Moved(Cell(b, h, a, c), LayerBits(bits, b, m), d)))
           = IF <<0, PairOf(c, d), a>> \in transpose(Load(bits, b, m, Halved(b)), b)
             THEN <<h, Partner(c, d), a>> ELSE <<h, c, a>>
<1>1. /\ PairOf(c, d) \in 0..(Halved(b) - 1) /\ Partner(c, d) \in InSide(b)
      /\ PairOf(Cell(b, h, a, c), d)
           = Join(a, Halved(b) * Halves(b), Join(h, Halved(b), PairOf(c, d)))
      /\ Partner(Cell(b, h, a, c), d) = Cell(b, h, a, Partner(c, d))
  BY PairOfBits
<1>2. Fits(b, Halved(b))
  <2>. DEFINE p == 2^(b - 1)
              q == Halved(b)
              S == Side(b)
  <2>1. 2 * p = S * (S * 1) /\ S = 2 * q /\ q \in Nat \ {0} /\ p \in Nat
    BY SizeOfNetwork, HalvedIsHalf
  <2>. HIDE DEF p, q, S
  <2>2. S * S = 2 * (S * q)
    BY <2>1
  <2>3. p = S * q /\ q <= S
    BY <2>1, <2>2
  <2>. QED
    BY <2>1, <2>3 DEF Fits, p, q, S
<1>3. Join(a, Halved(b) * Halves(b), Join(h, Halved(b), PairOf(c, d)))
        = Join(a, Halved(b), PairOf(c, d))
  <2>1. h = 0 /\ a \in Nat
    BY SideIsPower DEF InHalves, InSide
  <2>. QED
    BY <1>1, <2>1, HalvedIsHalf DEF Join
<1>4. <<0, PairOf(c, d), a>> \in transpose(Load(bits, b, m, Halved(b)), b)
        <=> Join(a, Halved(b), PairOf(c, d)) \in LayerBits(bits, b, m)
  BY <1>1, <1>2, TurnedHas
<1>5. InWords(b, Cell(b, h, a, c)) = <<h, a, c>>
  BY CellInWords
<1>6. InWords(b, Cell(b, h, a, Partner(c, d))) = <<h, a, Partner(c, d)>>
  BY <1>1, CellInWords
<1>7. \A u, v, t : Turned(<<u, v, t>>) = <<u, t, v>>
  BY DEF Turned
<1>. QED
  BY <1>1, <1>3, <1>4, <1>5, <1>6, <1>7 DEF Moved

(* b odd: the stride between the matrices. *)
LEMMA OuterHalves ==
  ASSUME NEW b \in 2..15, Halves(b) = 2,
         NEW h \in InHalves(b), NEW a \in InSide(b), NEW c \in InSide(b),
         NEW bits, NEW m \in Nat
  PROVE  Turned(InWords(b, Moved(Cell(b, h, a, c), LayerBits(bits, b, m), Side(b))))
           = IF <<0, c, a>> \in transpose(Load(bits, b, m, Side(b)), b)
             THEN <<1 - h, c, a>> ELSE <<h, c, a>>
<1>1. /\ PairOf(Cell(b, h, a, c), Side(b)) = Join(a, Side(b), c)
      /\ Partner(Cell(b, h, a, c), Side(b)) = Cell(b, 1 - h, a, c)
      /\ 1 - h \in InHalves(b)
  BY PairOfHalves
<1>2. Fits(b, Side(b))
  BY OddFits
<1>4. <<0, c, a>> \in transpose(Load(bits, b, m, Side(b)), b)
        <=> Join(a, Side(b), c) \in LayerBits(bits, b, m)
  <2>1. c \in 0..(Side(b) - 1)
    BY DEF InSide
  <2>. QED
    BY <1>2, <2>1, TurnedHas
<1>5. InWords(b, Cell(b, h, a, c)) = <<h, a, c>>
  BY CellInWords
<1>6. InWords(b, Cell(b, 1 - h, a, c)) = <<1 - h, a, c>>
  BY <1>1, CellInWords
<1>7. \A u, v, t : Turned(<<u, v, t>>) = <<u, t, v>>
  BY DEF Turned
<1>. QED
  BY <1>1, <1>4, <1>5, <1>6, <1>7 DEF Moved

(* b odd: the strides within a word. *)
LEMMA OuterOdd ==
  ASSUME NEW b \in 2..15, Halves(b) = 2, NEW d, IsStride(b, d),
         NEW h \in InHalves(b), NEW a \in InSide(b), NEW c \in InSide(b),
         NEW bits, NEW m \in Nat
  PROVE  Turned(InWords(b, Moved(Cell(b, h, a, c), LayerBits(bits, b, m), d)))
           = IF <<0, Join(h, Halved(b), PairOf(c, d)), a>>
                  \in transpose(Load(bits, b, m, Side(b)), b)
             THEN <<h, Partner(c, d), a>> ELSE <<h, c, a>>
<1>1. /\ PairOf(c, d) \in 0..(Halved(b) - 1) /\ Partner(c, d) \in InSide(b)
      /\ PairOf(Cell(b, h, a, c), d)
           = Join(a, Halved(b) * Halves(b), Join(h, Halved(b), PairOf(c, d)))
      /\ Partner(Cell(b, h, a, c), d) = Cell(b, h, a, Partner(c, d))
  BY PairOfBits
<1>2. Fits(b, Side(b)) /\ Halved(b) * Halves(b) = Side(b)
  BY OddFits, HalvedIsHalf
<1>3. Join(h, Halved(b), PairOf(c, d)) \in 0..(Side(b) - 1)
  <2>1. h \in {0, 1}
    BY DEF InHalves
  <2>. QED
    BY <1>1, <2>1, HalvedIsHalf DEF Join
<1>4. <<0, Join(h, Halved(b), PairOf(c, d)), a>> \in transpose(Load(bits, b, m, Side(b)), b)
        <=> Join(a, Side(b), Join(h, Halved(b), PairOf(c, d))) \in LayerBits(bits, b, m)
  BY <1>2, <1>3, TurnedHas
<1>5. InWords(b, Cell(b, h, a, c)) = <<h, a, c>>
  BY CellInWords
<1>6. InWords(b, Cell(b, h, a, Partner(c, d))) = <<h, a, Partner(c, d)>>
  BY <1>1, CellInWords
<1>7. \A u, v, t : Turned(<<u, v, t>>) = <<u, t, v>>
  BY DEF Turned
<1>. QED
  BY <1>1, <1>2, <1>4, <1>5, <1>6, <1>7 DEF Moved

(* The matrix as it is: the strides between words, b even and odd. *)
LEMMA InnerAny ==
  ASSUME NEW b \in 2..15, NEW d, IsStride(b, d),
         NEW h \in InHalves(b), NEW a \in InSide(b), NEW c \in InSide(b),
         NEW bits, NEW m \in Nat
  PROVE  /\ InWords(b, Moved(Cell(b, h, a, c), LayerBits(bits, b, m), Scaled(b, d)))
              = IF <<0, Join(PairOf(a, d), Halves(b), h), c>> \in Load(bits, b, m, Side(b))
                THEN <<h, Partner(a, d), c>> ELSE <<h, a, c>>
         /\ PairOf(a, d) \in Nat /\ h \in Nat
<1>1. /\ Partner(a, d) \in InSide(b)
      /\ PairOf(Cell(b, h, a, c), Scaled(b, d))
           = Join(Join(PairOf(a, d), Halves(b), h), Side(b), c)
      /\ Partner(Cell(b, h, a, c), Scaled(b, d)) = Cell(b, h, Partner(a, d), c)
      /\ PairOf(a, d) \in 0..(Halved(b) - 1)
  BY PairOfWords
<1>2. c \in 0..(Side(b) - 1) /\ Side(b) \in Nat \ {0} /\ PairOf(a, d) \in Nat /\ h \in Nat
  <2>1. Side(b) \in Nat \ {0} /\ Halves(b) \in {1, 2} /\ Halved(b) \in Nat \ {0}
    BY SideIsPower, HalvedIsHalf
  <2>2. c \in 0..(Side(b) - 1) /\ h \in 0..(Halves(b) - 1)
    BY DEF InSide, InHalves
  <2>. QED
    BY ONLY <1>1, <2>1, <2>2
<1>3. Join(PairOf(a, d), Halves(b), h) \in Nat
  <2>1. Halves(b) \in {1, 2}
    BY SideIsPower
  <2>. QED
    BY <1>2, <2>1 DEF Join
<1>4. <<0, Join(PairOf(a, d), Halves(b), h), c>> \in Load(bits, b, m, Side(b))
        <=> Join(Join(PairOf(a, d), Halves(b), h), Side(b), c) \in LayerBits(bits, b, m)
  BY <1>2, <1>3, LoadedHas
<1>5. InWords(b, Cell(b, h, a, c)) = <<h, a, c>>
  BY CellInWords
<1>6. InWords(b, Cell(b, h, Partner(a, d), c)) = <<h, Partner(a, d), c>>
  BY <1>1, CellInWords
<1>7. InWords(b, Moved(Cell(b, h, a, c), LayerBits(bits, b, m), Scaled(b, d)))
        = IF <<0, Join(PairOf(a, d), Halves(b), h), c>> \in Load(bits, b, m, Side(b))
          THEN <<h, Partner(a, d), c>> ELSE <<h, a, c>>
  BY <1>1, <1>4, <1>5, <1>6 DEF Moved
<1>. QED
  BY <1>2, <1>7

-------------------------------------------------------------------------------
(* What layer, layer_in and layer_ex do to one place.                      *)

InLayer(y, cond, d) ==
  IF <<0, PairOf(y[2], d), y[3]>> \in cond THEN [y EXCEPT ![2] = Partner(@, d)] ELSE y

InLayerIn(y, cond, d) ==
  IF <<0, 2 * PairOf(y[2], d) + y[1], y[3]>> \in cond
  THEN [y EXCEPT ![2] = Partner(@, d)] ELSE y

InLayerEx(y, cond, d, b) ==
  IF <<0, y[1] * (Side(b) \div 2) + PairOf(y[2], d), y[3]>> \in cond
  THEN [y EXCEPT ![2] = Partner(@, d)] ELSE y

BetweenHalves(y, cond) ==
  IF <<0, y[2], y[3]>> \in cond THEN [y EXCEPT ![1] = 1 - @] ELSE y

(* Every place x, in the arrangement of the inner layers. *)
LEMMA InnerPoint ==
  ASSUME NEW b \in 2..15, NEW d, IsStride(b, d), NEW x \in Points(b),
         NEW bits, NEW m \in Nat
  PROVE  LET z == InWords(b, Moved(x, LayerBits(bits, b, m), Scaled(b, d)))
             cond == Load(bits, b, m, Side(b))
         IN  /\ Halves(b) = 1 => InLayer(InWords(b, x), cond, d) = z
             /\ Halves(b) = 2 => InLayerIn(InWords(b, x), cond, d) = z
<1>1. PICK h \in InHalves(b), a \in InSide(b), c \in InSide(b) : x = Cell(b, h, a, c)
  BY HasCell
<1>2. InWords(b, x) = <<h, a, c>>
  BY <1>1, CellInWords
<1>. DEFINE y == <<h, a, c>>
            cond == Load(bits, b, m, Side(b))
<1>3. y[1] = h /\ y[2] = a /\ y[3] = c /\ [y EXCEPT ![2] = Partner(@, d)] = <<h, Partner(a, d), c>>
  BY Replaced
<1>4. /\ InWords(b, Moved(x, LayerBits(bits, b, m), Scaled(b, d)))
           = IF <<0, Join(PairOf(a, d), Halves(b), h), c>> \in cond
             THEN <<h, Partner(a, d), c>> ELSE y
      /\ PairOf(a, d) \in Nat /\ h \in Nat
  BY <1>1, InnerAny
<1>5. ASSUME Halves(b) = 1  PROVE Join(PairOf(a, d), Halves(b), h) = PairOf(a, d)
  <2>1. h = 0
    BY <1>5 DEF InHalves
  <2>. QED
    BY <1>4, <1>5, <2>1 DEF Join
<1>6. ASSUME Halves(b) = 2  PROVE Join(PairOf(a, d), Halves(b), h) = 2 * PairOf(a, d) + h
  BY <1>4, <1>6 DEF Join
<1>. HIDE DEF cond, y
<1>7. Halves(b) = 1 => InLayer(y, cond, d)
                         = InWords(b, Moved(x, LayerBits(bits, b, m), Scaled(b, d)))
  BY ONLY <1>3, <1>4, <1>5 DEF InLayer
<1>8. Halves(b) = 2 => InLayerIn(y, cond, d)
                         = InWords(b, Moved(x, LayerBits(bits, b, m), Scaled(b, d)))
  BY ONLY <1>3, <1>4, <1>6 DEF InLayerIn
<1>. QED
  BY <1>2, <1>7, <1>8 DEF cond, y

(* Every place x, in the arrangement of the outer layers. *)
LEMMA OuterPoint ==
  ASSUME NEW b \in 2..15, NEW d, NEW x \in Points(b), NEW bits, NEW m \in Nat
  PROVE  LET y == Turned(InWords(b, x))
             z == Turned(InWords(b, Moved(x, LayerBits(bits, b, m), d)))
         IN  /\ Halves(b) = 1 /\ IsStride(b, d) =>
                  InLayer(y, transpose(Load(bits, b, m, Halved(b)), b), d) = z
             /\ Halves(b) = 2 /\ d = Side(b) =>
                  BetweenHalves(y, transpose(Load(bits, b, m, Side(b)), b)) = z
             /\ Halves(b) = 2 /\ IsStride(b, d) =>
                  InLayerEx(y, transpose(Load(bits, b, m, Side(b)), b), d, b) = z
<1>1. PICK h \in InHalves(b), a \in InSide(b), c \in InSide(b) : x = Cell(b, h, a, c)
  BY HasCell
<1>. DEFINE y == <<h, c, a>>
            z == Turned(InWords(b, Moved(x, LayerBits(bits, b, m), d)))
            half == transpose(Load(bits, b, m, Halved(b)), b)
            whole == transpose(Load(bits, b, m, Side(b)), b)
<1>2. Turned(InWords(b, x)) = y
  <2>1. InWords(b, x) = <<h, a, c>>
    BY <1>1, CellInWords
  <2>. QED
    BY <2>1 DEF Turned
<1>3. /\ y[1] = h /\ y[2] = c /\ y[3] = a
      /\ [y EXCEPT ![2] = Partner(@, d)] = <<h, Partner(c, d), a>>
      /\ [y EXCEPT ![1] = 1 - @] = <<1 - h, c, a>>
  BY Replaced
<1>4. ASSUME Halves(b) = 1, IsStride(b, d)
      PROVE  z = IF <<0, PairOf(c, d), a>> \in half
                 THEN <<h, Partner(c, d), a>> ELSE <<h, c, a>>
  BY <1>1, <1>4, OuterEven
<1>5. ASSUME Halves(b) = 2, d = Side(b)
      PROVE  z = IF <<0, c, a>> \in whole THEN <<1 - h, c, a>> ELSE <<h, c, a>>
  BY <1>1, <1>5, OuterHalves
<1>6. ASSUME Halves(b) = 2, IsStride(b, d)
      PROVE  z = IF <<0, h * (Side(b) \div 2) + PairOf(c, d), a>> \in whole
                 THEN <<h, Partner(c, d), a>> ELSE <<h, c, a>>
  <2>1. z = IF <<0, Join(h, Halved(b), PairOf(c, d)), a>> \in whole
            THEN <<h, Partner(c, d), a>> ELSE <<h, c, a>>
    BY <1>1, <1>6, OuterOdd
  <2>2. Join(h, Halved(b), PairOf(c, d)) = h * (Side(b) \div 2) + PairOf(c, d)
    BY DEF Join, Halved
  <2>. QED
    BY <2>1, <2>2
<1>7. y = <<h, c, a>>
  OBVIOUS
<1>. HIDE DEF y, z, half, whole
<1>8. Halves(b) = 1 /\ IsStride(b, d) => InLayer(y, half, d) = z
  BY ONLY <1>3, <1>4, <1>7 DEF InLayer
<1>9. Halves(b) = 2 /\ d = Side(b) => BetweenHalves(y, whole) = z
  BY ONLY <1>3, <1>5, <1>7 DEF BetweenHalves
<1>10. Halves(b) = 2 /\ IsStride(b, d) => InLayerEx(y, whole, d, b) = z
  BY ONLY <1>3, <1>6, <1>7 DEF InLayerEx
<1>. QED
  BY <1>2, <1>8, <1>9, <1>10 DEF z, half, whole

-------------------------------------------------------------------------------
(* Whole layers.                                                           *)

(* The stride of a layer is one within a matrix, the one between the two
   matrices, or one between words. *)
LEMMA ScaledLevel ==
  ASSUME NEW b \in 2..15, NEW m \in Nat
  PROVE  /\ Level(b, m) \in 0..(Outer(b) - 1) =>
              \/ IsStride(b, 2^Level(b, m))
              \/ Halves(b) = 2 /\ 2^Level(b, m) = Side(b)
         /\ Level(b, m) \in Outer(b)..(b - 1) =>
              /\ IsStride(b, InnerStride(b, m))
              /\ Scaled(b, InnerStride(b, m)) = 2^Level(b, m)
         /\ IsStride(b, Side(b)) => FALSE
<1>. DEFINE k == Level(b, m)
            o == b \div 2
<1>1. /\ o \in 1..7 /\ Outer(b) \in 1..8
      /\ \/ Halves(b) = 1 /\ Outer(b) = o /\ b = o + o
         \/ Halves(b) = 2 /\ Outer(b) = o + 1 /\ b = o + (o + 1)
  BY DEF Outer, Halves
<1>. HIDE DEF k
<1>2. ASSUME k \in 0..(Outer(b) - 1)  PROVE IsStride(b, 2^k) \/ (Halves(b) = 2 /\ 2^k = Side(b))
  <2>1. CASE k \in 0..(o - 1)
    BY <2>1 DEF IsStride
  <2>2. CASE Halves(b) = 2 /\ k = o
    BY <2>2 DEF Side
  <2>. QED
    BY <1>1, <1>2, <2>1, <2>2
<1>3. ASSUME k \in Outer(b)..(b - 1)
      PROVE  IsStride(b, InnerStride(b, m)) /\ Scaled(b, InnerStride(b, m)) = 2^k
  <2>. DEFINE j == k - Outer(b)
              u == Outer(b)
  <2>1. j \in 0..(o - 1) /\ j \in 0..15 /\ u \in 0..15 /\ j + u <= 15 /\ j + u = k
    BY <1>1, <1>3
  <2>2. InnerStride(b, m) = 2^j
    BY DEF InnerStride, k
  <2>. HIDE DEF j, u
  <2>3. 2^(j + u) = 2^j * 2^u
    BY ONLY <2>1, PowerSum
  <2>4. IsStride(b, 2^j)
    BY <2>1 DEF IsStride
  <2>5. 2^j * 2^u = 2^k
    BY ONLY <2>1, <2>3
  <2>. QED
    BY <2>2, <2>4, <2>5 DEF Scaled, u
<1>4. ~ IsStride(b, Side(b))
  <2>1. SUFFICES ASSUME NEW e \in 0..(o - 1), Side(b) = 2^e  PROVE FALSE
    BY DEF IsStride
  <2>2. 2^o = 2^e
    BY <2>1, SideIsPower
  <2>. HIDE DEF o
  <2>. DEFINE g == o - 1 - e
  <2>3. /\ g \in 0..15 /\ e \in 0..15 /\ g + e \in 0..15 /\ g + e <= 15
        /\ (g + e) + 1 = o
    BY <1>1
  <2>. HIDE DEF g
  <2>4. 2^(g + e) = 2^g * 2^e
    BY ONLY <2>3, PowerSum
  <2>5. 2^((g + e) + 1) = 2 * 2^(g + e) /\ 2^g \in Nat \ {0} /\ 2^e \in Nat \ {0}
    BY ONLY <2>3, PowerStep
  <2>. DEFINE f == 2^g
              t == 2^e
  <2>6. t = 2 * (f * t) /\ f \in Nat \ {0} /\ t \in Nat \ {0}
    BY ONLY <2>2, <2>3, <2>4, <2>5
  <2>. HIDE DEF f, t
  <2>7. f * t >= t
    <3>1. f - 1 \in Nat /\ f * t = (f - 1) * t + t /\ (f - 1) * t >= 0
      BY <2>6
    <3>. QED
      BY <2>6, <3>1
  <2>. QED
    BY <2>6, <2>7
<1>. QED
  BY <1>2, <1>3, <1>4 DEF k

(* An outer layer of the code (benes.rs:272-286, 321-336) moves the bits as
   layer at of pi_test does. *)
LEMMA OuterLayerActs ==
  ASSUME NEW b \in 2..15, NEW D \in SUBSET Points(b), NEW bits,
         NEW m \in Nat, NEW at \in Nat, Level(b, m) \in 0..(Outer(b) - 1)
  PROVE  OuterLayer(Across(b, D), bits, b, m, at)
           = Across(b, AfterLayer(D, LayerBits(bits, b, at), 2^Level(b, m)))
<1>. DEFINE d == 2^Level(b, m)
            T(x) == Turned(InWords(b, x))
            z(x) == Turned(InWords(b, Moved(x, LayerBits(bits, b, at), d)))
            half == transpose(Load(bits, b, at, Halved(b)), b)
            whole == transpose(Load(bits, b, at, Side(b)), b)
            data == Across(b, D)
<1>1. Across(b, AfterLayer(D, LayerBits(bits, b, at), d)) = {z(x) : x \in D}
  BY DEF Across, AfterLayer
<1>2. data = {T(x) : x \in D}
  BY DEF Across
<1>3. IsStride(b, d) \/ (Halves(b) = 2 /\ d = Side(b))
  BY ScaledLevel
<1>4. Halves(b) \in {1, 2}
  BY SideIsPower
<1>5. OuterLayer(data, bits, b, m, at)
        = IF Halves(b) = 1 THEN layer(data, half, d) ELSE layer_ex(data, whole, d, b)
  BY DEF OuterLayer, Halved
<1>6. ~ IsStride(b, Side(b)) /\ (Halves(b) = 1 => Halves(b) # 2)
  BY ScaledLevel
<1>7. ASSUME NEW x \in D
      PROVE  /\ Halves(b) = 1 /\ IsStride(b, d) => InLayer(T(x), half, d) = z(x)
             /\ Halves(b) = 2 /\ d = Side(b) => BetweenHalves(T(x), whole) = z(x)
             /\ Halves(b) = 2 /\ IsStride(b, d) => InLayerEx(T(x), whole, d, b) = z(x)
  <2>1. x \in Points(b)
    OBVIOUS
  <2>. HIDE DEF d
  <2>. QED
    BY <2>1, OuterPoint
<1>8. layer(data, half, d) = {InLayer(y, half, d) : y \in data}
  BY DEF layer, InLayer
<1>9. d = Side(b) => layer_ex(data, whole, d, b) = {BetweenHalves(y, whole) : y \in data}
  BY DEF layer_ex, BetweenHalves
<1>10. d # Side(b) => layer_ex(data, whole, d, b) = {InLayerEx(y, whole, d, b) : y \in data}
  BY DEF layer_ex, InLayerEx
<1>. HIDE DEF d, T, z, half, whole, data
<1>11. CASE Halves(b) = 1
  <2>1. {InLayer(y, half, d) : y \in data} = {z(x) : x \in D}
    BY ONLY <1>2, <1>3, <1>6, <1>7, <1>11
  <2>. QED
    BY ONLY <1>1, <1>5, <1>8, <1>11, <2>1 DEF d, data
<1>12. CASE Halves(b) = 2 /\ d = Side(b)
  <2>1. {BetweenHalves(y, whole) : y \in data} = {z(x) : x \in D}
    BY ONLY <1>2, <1>7, <1>12
  <2>2. Halves(b) # 1
    BY <1>6, <1>12
  <2>. QED
    BY ONLY <1>1, <1>5, <1>9, <1>12, <2>1, <2>2 DEF d, data
<1>13. CASE Halves(b) = 2 /\ d # Side(b)
  <2>1. {InLayerEx(y, whole, d, b) : y \in data} = {z(x) : x \in D}
    BY ONLY <1>2, <1>3, <1>7, <1>13
  <2>2. Halves(b) # 1
    BY <1>6, <1>13
  <2>. QED
    BY ONLY <1>1, <1>5, <1>10, <1>13, <2>1, <2>2 DEF d, data
<1>. QED
  BY ONLY <1>4, <1>11, <1>12, <1>13 DEF d, data

(* And so does an inner layer (benes.rs:291-316). *)
LEMMA InnerLayerActs ==
  ASSUME NEW b \in 2..15, NEW D \in SUBSET Points(b), NEW bits,
         NEW m \in Nat, NEW at \in Nat, Level(b, m) \in Outer(b)..(b - 1)
  PROVE  InnerLayer(Spread(b, D), bits, b, m, at)
           = Spread(b, AfterLayer(D, LayerBits(bits, b, at), 2^Level(b, m)))
<1>. DEFINE d == InnerStride(b, m)
            T(x) == InWords(b, x)
            z(x) == InWords(b, Moved(x, LayerBits(bits, b, at), 2^Level(b, m)))
            cond == Load(bits, b, at, Side(b))
            data == Spread(b, D)
<1>1. Spread(b, AfterLayer(D, LayerBits(bits, b, at), 2^Level(b, m))) = {z(x) : x \in D}
  BY DEF Spread, AfterLayer
<1>2. data = {T(x) : x \in D}
  BY DEF Spread
<1>3. IsStride(b, d) /\ Scaled(b, d) = 2^Level(b, m)
  BY ScaledLevel
<1>4. Halves(b) \in {1, 2} /\ (Halves(b) = 1 => Halves(b) # 2)
  BY SideIsPower
<1>5. InnerLayer(data, bits, b, m, at)
        = IF Halves(b) = 1 THEN layer(data, cond, d) ELSE layer_in(data, cond, d)
  BY DEF InnerLayer
<1>7. ASSUME NEW x \in D
      PROVE  /\ Halves(b) = 1 => InLayer(T(x), cond, d) = z(x)
             /\ Halves(b) = 2 => InLayerIn(T(x), cond, d) = z(x)
  <2>1. x \in Points(b)
    OBVIOUS
  <2>2. z(x) = InWords(b, Moved(x, LayerBits(bits, b, at), Scaled(b, d)))
    BY <1>3
  <2>. HIDE DEF d, z
  <2>. QED
    BY <1>3, <2>1, <2>2, InnerPoint
<1>8. layer(data, cond, d) = {InLayer(y, cond, d) : y \in data}
  BY DEF layer, InLayer
<1>9. layer_in(data, cond, d) = {InLayerIn(y, cond, d) : y \in data}
  BY DEF layer_in, InLayerIn
<1>. HIDE DEF d, T, z, cond, data
<1>11. CASE Halves(b) = 1
  <2>1. {InLayer(y, cond, d) : y \in data} = {z(x) : x \in D}
    BY ONLY <1>2, <1>7, <1>11
  <2>. QED
    BY ONLY <1>1, <1>5, <1>8, <1>11, <2>1 DEF data
<1>12. CASE Halves(b) = 2
  <2>1. {InLayerIn(y, cond, d) : y \in data} = {z(x) : x \in D}
    BY ONLY <1>2, <1>7, <1>12
  <2>. QED
    BY ONLY <1>1, <1>4, <1>5, <1>9, <1>12, <2>1 DEF data
<1>. QED
  BY ONLY <1>4, <1>11, <1>12 DEF data

(* Between the two arrangements, and in and out of them. *)
LEMMA Arrangements ==
  ASSUME NEW b \in 2..15, NEW D \in SUBSET Points(b)
  PROVE  /\ ToMatrix(D, b) = Spread(b, D) /\ FromMatrix(Spread(b, D), b) = D
         /\ transpose(Spread(b, D), b) = Across(b, D)
         /\ transpose(Across(b, D), b) = Spread(b, D)
<1>1. ASSUME NEW x \in D
      PROVE  /\ InWords(b, x) \in InHalves(b) \X InSide(b) \X InSide(b)
             /\ Turned(InWords(b, x)) \in InHalves(b) \X InSide(b) \X InSide(b)
             /\ Turned(Turned(InWords(b, x))) = InWords(b, x)
             /\ (InWords(b, x)[2] * Halves(b) + InWords(b, x)[1]) * Side(b) + InWords(b, x)[3] = x
  <2>1. PICK h \in InHalves(b), a \in InSide(b), c \in InSide(b) : x = Cell(b, h, a, c)
    BY HasCell
  <2>2. InWords(b, x) = <<h, a, c>>
    BY <2>1, CellInWords
  <2>3. Turned(<<h, a, c>>) = <<h, c, a>> /\ Turned(<<h, c, a>>) = <<h, a, c>>
    BY DEF Turned
  <2>4. (a * Halves(b) + h) * Side(b) + c = x
    <3>. DEFINE S == Side(b)
                H == Halves(b)
    <3>1. S \in Nat /\ H \in {1, 2}
      BY SideIsPower
    <3>2. a \in 0..(S - 1) /\ c \in 0..(S - 1) /\ h \in 0..(H - 1)
      BY DEF InSide, InHalves
    <3>3. x = a * (S * H) + (h * S + c)
      BY <2>1 DEF Cell
    <3>. HIDE DEF S, H
    <3>4. a \in Int /\ c \in Int /\ h \in Int
      BY <3>1, <3>2
    <3>5. (a * H + h) * S + c = x
      <4>1. CASE H = 1
        BY ONLY <3>1, <3>3, <3>4, <4>1
      <4>2. CASE H = 2
        BY ONLY <3>1, <3>3, <3>4, <4>2
      <4>. QED
        BY <3>1, <4>1, <4>2
    <3>. QED
      BY <3>5 DEF S, H
  <2>5. <<h, a, c>>[1] = h /\ <<h, a, c>>[2] = a /\ <<h, a, c>>[3] = c
    OBVIOUS
  <2>6. /\ <<h, a, c>> \in InHalves(b) \X InSide(b) \X InSide(b)
        /\ <<h, c, a>> \in InHalves(b) \X InSide(b) \X InSide(b)
    OBVIOUS
  <2>. QED
    BY ONLY <2>2, <2>3, <2>4, <2>5, <2>6
<1>2. ToMatrix(D, b) = Spread(b, D)
  BY DEF ToMatrix, Spread, InWords
<1>3. FromMatrix(Spread(b, D), b) = D
  <2>. DEFINE Back(y) == (y[2] * Halves(b) + y[1]) * Side(b) + y[3]
  <2>1. FromMatrix(Spread(b, D), b) = {Back(y) : y \in {InWords(b, x) : x \in D}}
    BY DEF FromMatrix, Spread
  <2>2. \A x \in D : Back(InWords(b, x)) = x
    BY <1>1
  <2>. HIDE DEF Back
  <2>. QED
    BY ONLY <2>1, <2>2
<1>4. transpose(Spread(b, D), b) = Across(b, D)
  <2>1. Spread(b, D) \in SUBSET (InHalves(b) \X (0..(Side(b) - 1)) \X (0..(Side(b) - 1)))
    BY <1>1 DEF Spread, InSide
  <2>2. transpose(Spread(b, D), b) = {Turned(y) : y \in Spread(b, D)}
    BY ONLY b \in 2..15, <2>1, TransposeTurns
  <2>. QED
    BY ONLY <2>2 DEF Spread, Across
<1>5. transpose(Across(b, D), b) = Spread(b, D)
  <2>1. Across(b, D) \in SUBSET (InHalves(b) \X (0..(Side(b) - 1)) \X (0..(Side(b) - 1)))
    BY <1>1 DEF Across, InSide
  <2>2. transpose(Across(b, D), b) = {Turned(y) : y \in Across(b, D)}
    BY ONLY b \in 2..15, <2>1, TransposeTurns
  <2>3. \A x \in D : Turned(Turned(InWords(b, x))) = InWords(b, x)
    BY <1>1
  <2>. QED
    BY ONLY <2>2, <2>3 DEF Spread, Across
<1>. QED
  BY <1>2, <1>3, <1>4, <1>5

-------------------------------------------------------------------------------
(* The permutation that pi_test follows, layer by layer.                   *)

(* The levels of the three groups of layers. *)
LEMMA Levels ==
  ASSUME NEW b \in 2..15
  PROVE  /\ Layers(b) \in Nat /\ Outer(b) \in Nat /\ Layers(b) - Outer(b) \in Nat
         /\ Outer(b) <= Layers(b) - Outer(b) /\ Layers(b) - Outer(b) <= Layers(b)
         /\ \A m \in 0..(Layers(b) - 1) : Level(b, m) \in 0..(b - 1)
         /\ \A m \in 0..(Outer(b) - 1) : Level(b, m) \in 0..(Outer(b) - 1)
         /\ \A m \in (Layers(b) - Outer(b))..(Layers(b) - 1) : Level(b, m) \in 0..(Outer(b) - 1)
         /\ \A m \in Outer(b)..(Layers(b) - Outer(b) - 1) : Level(b, m) \in Outer(b)..(b - 1)
<1>. DEFINE u == Outer(b)
<1>1. u \in 1..(b - 1) /\ 2 * u <= b + 1
  BY DEF Outer
<1>. HIDE DEF u
<1>. QED
  BY <1>1 DEF Level, Layers, u

(* Counting through steps that may differ. *)
Stages(f, S, e, k, G) ==
  /\ f \in [0..k -> S]
  /\ f = [j \in 0..k |-> IF j = 0 THEN e ELSE G[j - 1][f[j - 1]]]

LEMMA StagesExist ==
  ASSUME NEW S, NEW e \in S, NEW k \in Nat, NEW G \in [0..(k - 1) -> [S -> S]]
  PROVE  \E f : Stages(f, S, e, k, G)
<1>. DEFINE Is(u, f) == /\ f \in [0..u -> S] /\ f[0] = e
                        /\ \A j \in 1..u : f[j] = G[j - 1][f[j - 1]]
            P == {u \in 0..k : \E f : Is(u, f)}
<1>1. 0 \in P
  <2>1. Is(0, [j \in 0..0 |-> e])
    OBVIOUS
  <2>2. 0 \in 0..k
    OBVIOUS
  <2>. HIDE DEF Is
  <2>. QED
    BY <2>1, <2>2
<1>2. ASSUME NEW u \in 0..(k - 1), u \in P  PROVE u + 1 \in P
  <2>1. PICK f : Is(u, f)
    BY <1>2
  <2>. DEFINE g == [j \in 0..(u + 1) |-> IF j = u + 1 THEN G[u][f[u]] ELSE f[j]]
  <2>2. G[u] \in [S -> S] /\ f[u] \in S
    BY <2>1
  <2>3. g \in [0..(u + 1) -> S] /\ g[0] = e
    <3>1. \A j \in 0..(u + 1) : j # u + 1 => j \in 0..u
      OBVIOUS
    <3>2. G[u][f[u]] \in S
      BY <2>2
    <3>3. 0 \in 0..(u + 1) /\ 0 # u + 1
      OBVIOUS
    <3>. QED
      BY ONLY <2>1, <3>1, <3>2, <3>3
  <2>4. ASSUME NEW j \in 1..(u + 1)  PROVE g[j] = G[j - 1][g[j - 1]]
    <3>1. j - 1 \in 0..u /\ g[j - 1] = f[j - 1]
      OBVIOUS
    <3>2. CASE j = u + 1
      <4>1. g[j] = G[u][f[u]] /\ j - 1 = u
        BY <3>2
      <4>. QED
        BY <3>1, <4>1
    <3>3. CASE j # u + 1
      <4>1. j \in 1..u /\ g[j] = f[j]
        BY <3>3
      <4>. QED
        BY <2>1, <3>1, <4>1
    <3>. QED
      BY <3>2, <3>3
  <2>5. Is(u + 1, g)
    <3>. HIDE DEF g
    <3>. QED
      BY <2>3, <2>4
  <2>6. u + 1 \in 0..k
    OBVIOUS
  <2>. HIDE DEF g, Is
  <2>. QED
    BY <2>5, <2>6
<1>. HIDE DEF P
<1>3. k \in P
  <2>1. \A u \in 0..(k - 1) : u \in P => u + 1 \in P
    BY <1>2
  <2>2. k \in 0..k /\ k \in Int /\ 0 \in Int
    OBVIOUS
  <2>. QED
    BY ONLY <1>1, <2>1, <2>2, Upward
<1>4. PICK f : Is(k, f)
  BY <1>3 DEF P
<1>5. f = [j \in 0..k |-> IF j = 0 THEN e ELSE G[j - 1][f[j - 1]]]
  <2>1. \A j \in 0..k : f[j] = IF j = 0 THEN e ELSE G[j - 1][f[j - 1]]
    <3>1. \A j \in 0..k : j # 0 => j \in 1..k
      OBVIOUS
    <3>. QED
      BY ONLY <1>4, <3>1
  <2>2. f \in [0..k -> S]
    BY <1>4
  <2>. QED
    BY ONLY <2>1, <2>2
<1>. QED
  BY <1>4, <1>5 DEF Stages

(* The functions p of pi_test, for b = W and bits = out. *)
Traces(b, bits, p) ==
  /\ p \in [0..Layers(b) -> [Points(b) -> Points(b)]]
  /\ p[0] = [x \in Points(b) |-> x]
  /\ \A m \in 0..(Layers(b) - 1) :
       p[m + 1] = test_layer(p[m], LayerBits(bits, b, m), 2^Level(b, m))

(* The places whose image, before layer m, is in r. *)
Before(b, p, r, m) == {x \in Points(b) : p[m][x] \in r}

(* A layer of pi_test gives a function on the places. *)
LEMMA TestLayerTyped ==
  ASSUME NEW b \in 2..15, NEW f \in [Points(b) -> Points(b)], NEW cb,
         NEW k \in 0..(b - 1)
  PROVE  test_layer(f, cb, 2^k) \in [Points(b) -> Points(b)]
<1>. DEFINE d == 2^k
<1>1. test_layer(f, cb, d) = [x \in Points(b) |-> f[Moved(x, cb, d)]]
  BY DEF test_layer, Moved
<1>2. \A x \in Points(b) : Moved(x, cb, d) \in Points(b)
  BY MovedTyped
<1>. HIDE DEF d
<1>3. \A x \in Points(b) : f[Moved(x, cb, d)] \in Points(b)
  BY <1>2
<1>. QED
  BY ONLY <1>1, <1>3 DEF d

(* It composes with the moves of that layer. *)
LEMMA TestLayerMoves ==
  ASSUME NEW b, NEW f \in [Points(b) -> Points(b)], NEW cb, NEW d, NEW x \in Points(b)
  PROVE  test_layer(f, cb, d)[x] = f[Moved(x, cb, d)]
<1>1. test_layer(f, cb, d) = [y \in Points(b) |-> f[Moved(y, cb, d)]]
  BY DEF test_layer, Moved
<1>. QED
  BY <1>1

(* Where the 1 bits are before layer m, and before layer m + 1. *)
LEMMA LayerMovesSet ==
  ASSUME NEW b \in 2..15, NEW bits, NEW p, Traces(b, bits, p), NEW r,
         NEW m \in 0..(Layers(b) - 1)
  PROVE  AfterLayer(Before(b, p, r, m), LayerBits(bits, b, m), 2^Level(b, m))
           = Before(b, p, r, m + 1)
<1>. DEFINE k == Level(b, m)
            d == 2^k
            cb == LayerBits(bits, b, m)
<1>1. p[m] \in [Points(b) -> Points(b)] /\ k \in 0..(b - 1)
      /\ p[m + 1] = test_layer(p[m], cb, d)
  <2>1. k \in 0..(b - 1) /\ Layers(b) \in Nat
    BY Levels
  <2>2. p[m + 1] = test_layer(p[m], cb, d) /\ p \in [0..Layers(b) -> [Points(b) -> Points(b)]]
    BY DEF Traces
  <2>3. m \in 0..Layers(b)
    BY <2>1
  <2>. HIDE DEF k, cb, d
  <2>. QED
    BY ONLY <2>1, <2>2, <2>3
<1>. HIDE DEF k, cb
<1>2. ASSUME NEW x \in Points(b)
      PROVE  p[m + 1][x] = p[m][Moved(x, cb, d)]
  <2>. DEFINE f == p[m]
  <2>1. f \in [Points(b) -> Points(b)]
    BY <1>1
  <2>. HIDE DEF f, d
  <2>2. test_layer(f, cb, d)[x] = f[Moved(x, cb, d)]
    BY ONLY x \in Points(b), <2>1, TestLayerMoves
  <2>. QED
    BY <1>1, <2>2 DEF f
<1>3. ASSUME NEW x \in Points(b)
      PROVE  Moved(x, cb, d) \in Points(b) /\ Moved(Moved(x, cb, d), cb, d) = x
  <2>1. k \in 0..(b - 1)
    BY <1>1
  <2>2. Moved(x, cb, 2^k) \in Points(b)
    BY ONLY b \in 2..15, x \in Points(b), <2>1, MovedTyped
  <2>3. Moved(Moved(x, cb, 2^k), cb, 2^k) = x
    BY ONLY b \in 2..15, x \in Points(b), <2>1, MovedBack
  <2>. QED
    BY <2>2, <2>3
<1>. HIDE DEF d
<1>4. ASSUME NEW x \in Before(b, p, r, m)  PROVE Moved(x, cb, d) \in Before(b, p, r, m + 1)
  BY <1>2, <1>3 DEF Before
<1>5. ASSUME NEW x \in Before(b, p, r, m + 1)
      PROVE  Moved(x, cb, d) \in Before(b, p, r, m) /\ x = Moved(Moved(x, cb, d), cb, d)
  BY <1>2, <1>3 DEF Before
<1>6. AfterLayer(Before(b, p, r, m), cb, d) = Before(b, p, r, m + 1)
  BY ONLY <1>4, <1>5 DEF AfterLayer
<1>. QED
  BY <1>6 DEF k, d, cb

(* The layers from, ..., to - 1, all of them outer ones. *)
LEMMA OuterLayersTrace ==
  ASSUME NEW b \in 2..15, NEW bits, NEW p, Traces(b, bits, p), NEW r,
         NEW from \in Nat, NEW to \in Nat, from <= to, to <= Layers(b),
         \A m \in from..(to - 1) : Level(b, m) \in 0..(Outer(b) - 1)
  PROVE  OuterLayers(Across(b, Before(b, p, r, from)), bits, b, from, to, 0)
           = Across(b, Before(b, p, r, to))
<1>. DEFINE E == [m \in from..to |-> Across(b, Before(b, p, r, m))]
            data == Across(b, Before(b, p, r, from))
            Is(f) == f = [m \in from..to |->
                            IF m = from THEN data
                            ELSE OuterLayer(f[m - 1], bits, b, m - 1, Block(b, m - 1, 0))]
            F == CHOOSE f : Is(f)
<1>1. \A m \in from..to : Block(b, m - 1, 0) = m - 1
  BY DEF Block
<1>2. ASSUME NEW m \in from..to, m # from
      PROVE  /\ m - 1 \in from..to
             /\ OuterLayer(E[m - 1], bits, b, m - 1, m - 1) = E[m]
  <2>. DEFINE j == m - 1
  <2>1. /\ j \in from..(to - 1) /\ j \in from..to /\ j \in Nat /\ j + 1 = m
        /\ j \in 0..(Layers(b) - 1)
    BY <1>2, Levels
  <2>2. E[j] = Across(b, Before(b, p, r, j)) /\ E[m] = Across(b, Before(b, p, r, j + 1))
    BY <2>1
  <2>3. Before(b, p, r, j) \in SUBSET Points(b) /\ Level(b, j) \in 0..(Outer(b) - 1)
    BY <2>1 DEF Before
  <2>. HIDE DEF j, E
  <2>4. OuterLayer(Across(b, Before(b, p, r, j)), bits, b, j, j)
          = Across(b, AfterLayer(Before(b, p, r, j), LayerBits(bits, b, j), 2^Level(b, j)))
    BY ONLY b \in 2..15, <2>1, <2>3, OuterLayerActs
  <2>5. AfterLayer(Before(b, p, r, j), LayerBits(bits, b, j), 2^Level(b, j))
          = Before(b, p, r, j + 1)
    BY ONLY b \in 2..15, Traces(b, bits, p), <2>1, LayerMovesSet
  <2>6. OuterLayer(E[j], bits, b, j, j) = E[m]
    BY ONLY <2>2, <2>4, <2>5
  <2>. QED
    BY <2>1, <2>6 DEF j
<1>3. E[from] = data /\ from \in from..to /\ to \in from..to
  OBVIOUS
<1>4. E = [m \in from..to |-> E[m]] /\ E[to] = Across(b, Before(b, p, r, to))
  OBVIOUS
<1>. HIDE DEF E, data
<1>5. Is(E)
  BY ONLY <1>1, <1>2, <1>3, <1>4
<1>6. Is(F)
  BY <1>5
<1>. DEFINE P == {m \in from..to : F[m] = E[m]}
<1>. HIDE DEF F
<1>7. from \in P
  BY ONLY <1>3, <1>6
<1>8. ASSUME NEW m \in from..(to - 1), m \in P  PROVE m + 1 \in P
  <2>1. m + 1 \in from..to /\ m + 1 # from /\ (m + 1) - 1 = m
    OBVIOUS
  <2>. DEFINE g == m + 1
  <2>2. g \in from..to /\ g # from /\ g - 1 = m
    BY <2>1
  <2>. HIDE DEF g
  <2>3. F[g] = OuterLayer(F[g - 1], bits, b, g - 1, Block(b, g - 1, 0))
    BY ONLY <1>6, <2>2
  <2>4. F[g] = E[g]
    BY <1>1, <1>2, <1>8, <2>2, <2>3
  <2>. QED
    BY <2>2, <2>4 DEF g
<1>. HIDE DEF P
<1>9. to \in P
  <2>1. from \in Int /\ to \in Int
    OBVIOUS
  <2>. QED
    BY <1>3, <1>7, <1>8, <2>1, Upward
<1>10. OuterLayers(data, bits, b, from, to, 0) = F[to]
  BY DEF OuterLayers, F
<1>. QED
  BY <1>4, <1>9, <1>10 DEF P, data

(* The inner layers. *)
LEMMA InnerLayersTrace ==
  ASSUME NEW b \in 2..15, NEW bits, NEW p, Traces(b, bits, p), NEW r
  PROVE  InnerLayers(Spread(b, Before(b, p, r, Outer(b))), bits, b, 0)
           = Spread(b, Before(b, p, r, Layers(b) - Outer(b)))
<1>. DEFINE from == Outer(b)
            to == Layers(b) - Outer(b)
            E == [m \in from..to |-> Spread(b, Before(b, p, r, m))]
            data == Spread(b, Before(b, p, r, from))
            Step(f, m) == IF 0 # 0 /\ Halves(b) = 1 /\ m >= b
                          THEN InnerLayerEachWord(f, bits, b, m)
                          ELSE InnerLayer(f, bits, b, m, Block(b, m, 0))
            Is(f) == f = [m \in from..to |->
                            IF m = from THEN data ELSE Step(f[m - 1], m - 1)]
            F == CHOOSE f : Is(f)
<1>0. /\ from \in Nat /\ to \in Nat /\ from <= to /\ to <= Layers(b)
      /\ \A m \in from..(to - 1) : Level(b, m) \in from..(b - 1)
      /\ Layers(b) \in Nat
  BY Levels
<1>1. \A f, m : Step(f, m) = InnerLayer(f, bits, b, m, m)
  BY DEF Block
<1>10. InnerLayers(data, bits, b, 0) = F[to]
  BY DEF InnerLayers
<1>. HIDE DEF Step
<1>2. ASSUME NEW m \in from..to, m # from
      PROVE  /\ m - 1 \in from..to
             /\ InnerLayer(E[m - 1], bits, b, m - 1, m - 1) = E[m]
  <2>. DEFINE j == m - 1
  <2>. HIDE DEF from, to
  <2>1. /\ j \in from..(to - 1) /\ j \in from..to /\ j \in Nat /\ j + 1 = m
        /\ j \in 0..(Layers(b) - 1)
    BY <1>0, <1>2
  <2>2. E[j] = Spread(b, Before(b, p, r, j)) /\ E[m] = Spread(b, Before(b, p, r, j + 1))
    BY <2>1
  <2>3. Before(b, p, r, j) \in SUBSET Points(b) /\ Level(b, j) \in Outer(b)..(b - 1)
    BY <1>0, <2>1 DEF Before, from
  <2>. HIDE DEF j, E
  <2>4. InnerLayer(Spread(b, Before(b, p, r, j)), bits, b, j, j)
          = Spread(b, AfterLayer(Before(b, p, r, j), LayerBits(bits, b, j), 2^Level(b, j)))
    BY ONLY b \in 2..15, <2>1, <2>3, InnerLayerActs
  <2>5. AfterLayer(Before(b, p, r, j), LayerBits(bits, b, j), 2^Level(b, j))
          = Before(b, p, r, j + 1)
    BY ONLY b \in 2..15, Traces(b, bits, p), <2>1, LayerMovesSet
  <2>6. InnerLayer(E[j], bits, b, j, j) = E[m]
    BY ONLY <2>2, <2>4, <2>5
  <2>. QED
    BY <2>1, <2>6 DEF j
<1>. HIDE DEF from, to
<1>3. E[from] = data /\ from \in from..to /\ to \in from..to
  BY <1>0
<1>4. E = [m \in from..to |-> E[m]] /\ E[to] = Spread(b, Before(b, p, r, to))
  BY <1>3
<1>. HIDE DEF E, data
<1>5. Is(E)
  BY ONLY <1>1, <1>2, <1>3, <1>4
<1>6. Is(F)
  BY <1>5
<1>. DEFINE P == {m \in from..to : F[m] = E[m]}
<1>. HIDE DEF F
<1>7. from \in P
  BY ONLY <1>3, <1>6
<1>8. ASSUME NEW m \in from..(to - 1), m \in P  PROVE m + 1 \in P
  <2>. DEFINE g == m + 1
  <2>2. g \in from..to /\ g # from /\ g - 1 = m
    BY <1>0
  <2>. HIDE DEF g
  <2>3. F[g] = Step(F[g - 1], g - 1)
    BY ONLY <1>6, <2>2
  <2>4. F[g] = E[g]
    BY <1>1, <1>2, <1>8, <2>2, <2>3
  <2>. QED
    BY <2>2, <2>4 DEF g
<1>. HIDE DEF P
<1>9. to \in P
  <2>1. from \in Int /\ to \in Int
    BY <1>0
  <2>. QED
    BY <1>3, <1>7, <1>8, <2>1, Upward
<1>. QED
  BY <1>4, <1>9, <1>10 DEF P, data, from, to

(* The network on a string of bits moves every bit as pi_test says. *)
LEMMA NetworkFollowsTrace ==
  ASSUME NEW b \in 2..15, NEW bits, NEW p, Traces(b, bits, p),
         NEW r \in SUBSET Points(b)
  PROVE  apply_benes(r, bits, b, 0) = {x \in Points(b) : p[Layers(b)][x] \in r}
<1>. DEFINE u == Outer(b)
            v == Layers(b) - Outer(b)
            z == Layers(b)
            D(m) == Before(b, p, r, m)
            d1 == OuterLayers(transpose(ToMatrix(r, b), b), bits, b, 0, u, 0)
            d2 == InnerLayers(transpose(d1, b), bits, b, 0)
            d3 == OuterLayers(transpose(d2, b), bits, b, v, z, 0)
<1>1. /\ u \in Nat /\ v \in Nat /\ z \in Nat /\ u <= v /\ v <= z /\ u <= z /\ 0 <= u
      /\ \A m \in 0..(u - 1) : Level(b, m) \in 0..(Outer(b) - 1)
      /\ \A m \in v..(z - 1) : Level(b, m) \in 0..(Outer(b) - 1)
  BY Levels
<1>2. D(0) = r
  BY DEF Before, Traces
<1>3. \A m : D(m) \in SUBSET Points(b)
  BY DEF Before
<1>4. apply_benes(r, bits, b, 0) = FromMatrix(transpose(d3, b), b)
  BY DEF apply_benes
<1>. HIDE DEF D
<1>5. transpose(ToMatrix(r, b), b) = Across(b, D(0))
  BY <1>2, Arrangements
<1>6. d1 = Across(b, D(u))
  <2>. HIDE DEF u, v, z
  <2>1. OuterLayers(Across(b, D(0)), bits, b, 0, u, 0) = Across(b, D(u))
    <3>1. 0 \in Nat
      OBVIOUS
    <3>. QED
      BY ONLY b \in 2..15, Traces(b, bits, p), <1>1, <3>1, OuterLayersTrace DEF D, z
  <2>. QED
    BY ONLY <1>5, <2>1
<1>7. transpose(d1, b) = Spread(b, D(u))
  <2>. HIDE DEF d1
  <2>. QED
    BY <1>3, <1>6, Arrangements
<1>8. d2 = Spread(b, D(v))
  <2>1. InnerLayers(Spread(b, D(u)), bits, b, 0) = Spread(b, D(v))
    BY ONLY b \in 2..15, Traces(b, bits, p), InnerLayersTrace DEF D
  <2>. QED
    BY ONLY <1>7, <2>1
<1>9. transpose(d2, b) = Across(b, D(v))
  <2>. HIDE DEF d2
  <2>. QED
    BY <1>3, <1>8, Arrangements
<1>10. d3 = Across(b, D(z))
  <2>. HIDE DEF u, v
  <2>0. z <= Layers(b)
    BY <1>1
  <2>. HIDE DEF z
  <2>1. OuterLayers(Across(b, D(v)), bits, b, v, z, 0) = Across(b, D(z))
    BY ONLY b \in 2..15, Traces(b, bits, p), <1>1, <2>0, OuterLayersTrace DEF D
  <2>. QED
    BY ONLY <1>9, <2>1
<1>11. FromMatrix(transpose(d3, b), b) = D(z)
  <2>. HIDE DEF d3
  <2>. QED
    BY <1>3, <1>10, Arrangements
<1>. QED
  BY <1>4, <1>11 DEF D, Before

-------------------------------------------------------------------------------
(* The specification.                                                      *)

(* A permutation that the function is called with has an image in its domain. *)
LEMMA PermIs ==
  ASSUME NEW f \in Perms
  PROVE  /\ Log(f) \in 2..15 /\ \A x \in 0..(2^Log(f) - 1) : f[x] \in 0..(2^Log(f) - 1)
<1>1. /\ Log(f) \in 2..(WIDE - 1) /\ WIDE \in Nat /\ 2 * WIDE <= 32
      /\ DOMAIN f = 0..(2^Log(f) - 1) /\ {f[x] : x \in DOMAIN f} = DOMAIN f
  BY ControlBitsAssumption
<1>2. Log(f) \in 2..15
  <2>. DEFINE v == Log(f)
  <2>1. v \in 2..(WIDE - 1) /\ WIDE \in Nat /\ 2 * WIDE <= 32
    BY <1>1
  <2>. HIDE DEF v
  <2>2. v \in 2..15
    BY ONLY <2>1
  <2>. QED
    BY <2>2 DEF v
<1>3. \A x \in DOMAIN f : f[x] \in DOMAIN f
  BY <1>1
<1>. QED
  BY <1>1, <1>2, <1>3

(* pi_test is the last function of a trace. *)
LEMMA PiTestTraces ==
  ASSUME NEW b \in 2..15, W = b
  PROVE  \E p : Traces(b, out, p) /\ pi_test = p[Layers(b)]
<1>. DEFINE z == Layers(b)
            S == [Points(b) -> Points(b)]
            e == [x \in Points(b) |-> x]
            G == [m \in 0..(z - 1) |-> [f \in S |->
                    test_layer(f, LayerBits(out, b, m), 2^Level(b, m))]]
            Is(p) == p = [m \in 0..z |->
                            IF m = 0 THEN e
                            ELSE test_layer(p[m - 1], LayerBits(out, b, m - 1),
                                            2^Level(b, m - 1))]
            F == CHOOSE p : Is(p)
<1>1. z \in Nat /\ \A m \in 0..(z - 1) : Level(b, m) \in 0..(b - 1)
  BY Levels
<1>2. pi_test = F[z]
  BY DEF pi_test, N, Points
<1>. HIDE DEF z
<1>3. ASSUME NEW m \in 0..(z - 1), NEW f \in S
      PROVE  test_layer(f, LayerBits(out, b, m), 2^Level(b, m)) \in S
  <2>. DEFINE k == Level(b, m)
              cb == LayerBits(out, b, m)
  <2>1. k \in 0..(b - 1)
    BY <1>1
  <2>. HIDE DEF k, cb
  <2>2. test_layer(f, cb, 2^k) \in S
    BY ONLY b \in 2..15, f \in S, <2>1, TestLayerTyped
  <2>. QED
    BY <2>2 DEF k, cb
<1>4. e \in S
  OBVIOUS
<1>. HIDE DEF e, S
<1>5. G \in [0..(z - 1) -> [S -> S]]
  BY <1>3
<1>6. \A m \in 0..(z - 1), f \in S :
        G[m][f] = test_layer(f, LayerBits(out, b, m), 2^Level(b, m))
  OBVIOUS
<1>. HIDE DEF G
<1>7. PICK f \in [0..z -> S] :
        f = [m \in 0..z |-> IF m = 0 THEN e ELSE G[m - 1][f[m - 1]]]
  <2>1. \E f : Stages(f, S, e, z, G)
    BY ONLY <1>1, <1>4, <1>5, StagesExist
  <2>. QED
    BY ONLY <2>1 DEF Stages
<1>8. \A m \in 0..z : m # 0 => m - 1 \in 0..(z - 1) /\ m - 1 \in 0..z
  BY <1>1
<1>9. Is(f)
  <2>1. \A m \in 0..z : m # 0 =>
          G[m - 1][f[m - 1]] = test_layer(f[m - 1], LayerBits(out, b, m - 1),
                                          2^Level(b, m - 1))
    BY <1>6, <1>7, <1>8
  <2>. QED
    BY ONLY <1>7, <2>1
<1>10. Is(F)
  BY <1>9
<1>. HIDE DEF F
<1>11. /\ F = [m \in 0..z |-> F[m]] /\ F[0] = e
       /\ \A m \in 0..z : m # 0 => F[m] = test_layer(F[m - 1], LayerBits(out, b, m - 1),
                                                     2^Level(b, m - 1))
  BY <1>1, <1>10
<1>12. \A m \in 0..(z - 1) : F[m + 1] = test_layer(F[m], LayerBits(out, b, m), 2^Level(b, m))
  <2>1. ASSUME NEW m \in 0..(z - 1)
        PROVE  F[m + 1] = test_layer(F[m], LayerBits(out, b, m), 2^Level(b, m))
    <3>. DEFINE g == m + 1
    <3>1. g \in 0..z /\ g # 0 /\ g - 1 = m
      BY <1>1
    <3>. HIDE DEF g
    <3>2. F[g] = test_layer(F[g - 1], LayerBits(out, b, g - 1), 2^Level(b, g - 1))
      BY <1>11, <3>1
    <3>3. F[g] = test_layer(F[m], LayerBits(out, b, m), 2^Level(b, m))
      BY ONLY <3>1, <3>2
    <3>. QED
      BY <3>3 DEF g
  <2>. QED
    BY <2>1
<1>. DEFINE P == {m \in 0..z : F[m] \in S}
<1>13. 0 \in P
  BY <1>1, <1>4, <1>11
<1>14. ASSUME NEW m \in 0..(z - 1), m \in P  PROVE m + 1 \in P
  <2>1. F[m + 1] \in S
    BY <1>3, <1>12, <1>14
  <2>2. m + 1 \in 0..z
    BY <1>1
  <2>. QED
    BY <2>1, <2>2
<1>. HIDE DEF P
<1>15. \A m \in 0..z : m \in P
  <2>1. 0 \in Int /\ z \in Int
    BY <1>1
  <2>. QED
    BY ONLY <1>13, <1>14, <2>1, Upward
<1>16. F \in [0..z -> S]
  <2>1. \A m \in 0..z : F[m] \in S
    BY <1>15 DEF P
  <2>. QED
    BY ONLY <1>11, <2>1
<1>17. Traces(b, out, F)
  BY <1>11, <1>12, <1>16 DEF Traces, z, S, e
<1>. QED
  BY <1>2, <1>17 DEF z

(* A plane through the network. *)
LEMMA PlanePermuted ==
  ASSUME pi \in Perms, pi_test = pi, NEW r \in SUBSET (0..(N - 1))
  PROVE  apply_benes(r, out, W, 0) = {x \in 0..(N - 1) : pi[x] \in r}
<1>. DEFINE b == W
<1>1. b \in 2..15
  BY PermIs DEF W
<1>2. 0..(N - 1) = Points(b)
  BY DEF N, Points
<1>. HIDE DEF b
<1>3. PICK p : Traces(b, out, p) /\ pi_test = p[Layers(b)]
  BY <1>1, PiTestTraces DEF b
<1>4. r \in SUBSET Points(b)
  BY <1>2
<1>5. apply_benes(r, out, b, 0) = {x \in Points(b) : p[Layers(b)][x] \in r}
  BY ONLY <1>1, <1>3, <1>4, NetworkFollowsTrace
<1>. QED
  BY <1>2, <1>3, <1>5 DEF b

Planes(k) ==
  [b \in 0..(W - 1) |-> {x \in 0..(N - 1) : b \in bitrev(IF b < k THEN pi[x] ELSE x)}]

(***************************************************************************)
(* After k rounds of support_gen the first k planes are those of the       *)
(* elements in the order of pi, the others of the elements in their own    *)
(* order; and the bits were verified before (controlbits.rs:309-331).      *)
(***************************************************************************)
SgInv ==
  /\ pi \in Perms
  /\ pc \in {"verified", "planes", "done"} => pi_test = pi
  /\ pc \notin {"planes", "done"} => plane = 0
  /\ pc = "planes" => plane \in 0..W /\ l = Planes(plane)
  /\ SupportFollowsPi

(* Before any call nothing is verified. *)
LEMMA SgInitial == SgInit => SgInv
BY DEF SgInit, Init, SgInv, SupportFollowsPi

(* The steps before the verification. *)
LEMMA ComputeStep ==
  ASSUME CbNext, pc \notin {"verified", "planes", "done"}
  PROVE  /\ pi' = pi
         /\ \/ pc' \notin {"verified", "planes", "done"}
            \/ pc' = "verified" /\ pi_test = pi /\ out' = out
<1>1. CASE Base  BY <1>1 DEF Base
<1>2. CASE Pibar  BY <1>2 DEF Pibar, Goto
<1>3. CASE Invert  BY <1>3 DEF Invert, Goto
<1>4. CASE Square  BY <1>4 DEF Square, Goto
<1>5. CASE PackNarrow  BY <1>5 DEF PackNarrow, Goto
<1>6. CASE PackWide  BY <1>6 DEF PackWide, Goto
<1>7. CASE NarrowInvert  BY <1>7 DEF NarrowInvert, Goto
<1>8. CASE NarrowApply  BY <1>8 DEF NarrowApply, Goto
<1>9. CASE NarrowMinimum  BY <1>9 DEF NarrowMinimum, Goto
<1>10. CASE WideInvert  BY <1>10 DEF WideInvert
<1>11. CASE WideSquare  BY <1>11 DEF WideSquare, Goto
<1>12. CASE WideBoth  BY <1>12 DEF WideBoth, Goto
<1>13. CASE WideApply  BY <1>13 DEF WideApply, Goto
<1>14. CASE WideMinimum  BY <1>14 DEF WideMinimum, Goto
<1>15. CASE KeepMinima  BY <1>15 DEF KeepMinima, Goto
<1>16. CASE InvertPi  BY <1>16 DEF InvertPi, Goto
<1>17. CASE FirstLayer  BY <1>17 DEF FirstLayer, Goto
<1>18. CASE LastLayer  BY <1>18 DEF LastLayer, Goto
<1>19. CASE Split  BY <1>19 DEF Split, Goto
<1>20. CASE Verify  BY <1>20 DEF Verify
<1>. QED
  BY <1>1, <1>2, <1>3, <1>4, <1>5, <1>6, <1>7, <1>8, <1>9, <1>10, <1>11, <1>12, <1>13,
     <1>14, <1>15, <1>16, <1>17, <1>18, <1>19, <1>20 DEF CbNext

(* A step of controlbitsfrompermutation: the bits are verified by the last. *)
LEMMA ComputeBitsStep ==
  ASSUME SgInv, ComputeBits
  PROVE  SgInv'
<1>1. UNCHANGED <<l, plane, s>> /\ CbNext
  BY DEF ComputeBits
<1>2. pc \notin {"verified", "planes", "done"}
  BY <1>1 DEF CbNext, Base, Pibar, Invert, Square, PackNarrow, PackWide, NarrowInvert,
              NarrowApply, NarrowMinimum, WideInvert, WideSquare, WideBoth, WideApply,
              WideMinimum, KeepMinima, InvertPi, FirstLayer, LastLayer, Split, Verify, Goto
<1>3. /\ pi' = pi
      /\ \/ pc' \notin {"verified", "planes", "done"}
         \/ pc' = "verified" /\ pi_test = pi /\ out' = out
  BY <1>1, <1>2, ComputeStep
<1>4. pi' \in Perms /\ plane' = 0
  BY <1>1, <1>2, <1>3 DEF SgInv
<1>5. pc' # "planes" /\ pc' # "done"
  BY <1>3
<1>6. ASSUME pc' \in {"verified", "planes", "done"}  PROVE pi_test' = pi'
  <2>1. pi_test = pi /\ out' = out
    BY <1>3, <1>6
  <2>2. pi_test' = pi_test
    BY <1>3, <2>1 DEF pi_test, N, W
  <2>. QED
    BY <1>3, <2>1, <2>2
<1>. QED
  BY <1>4, <1>5, <1>6 DEF SgInv, SupportFollowsPi

(* The steps after it leave the bits and the permutation alone. *)
LEMMA StillVerified ==
  ASSUME pi' = pi, out' = out
  PROVE  W' = W /\ N' = N /\ pi_test' = pi_test
BY DEF pi_test, N, W

(* At first no plane is permuted. *)
LEMMA FillPlanesStep ==
  ASSUME SgInv, FillPlanes
  PROVE  SgInv'
<1>1. /\ pc = "verified" /\ pc' = "planes" /\ pi' = pi /\ out' = out /\ plane' = plane
      /\ l' = [b \in 0..(W - 1) |-> {x \in 0..(N - 1) : b \in bitrev(x)}]
  BY DEF FillPlanes, Goto
<1>2. W' = W /\ N' = N /\ pi_test' = pi_test
  BY <1>1, StillVerified
<1>3. plane' = 0 /\ pi_test' = pi' /\ pi' \in Perms
  BY <1>1, <1>2 DEF SgInv
<1>4. W \in 2..15
  BY PermIs DEF SgInv, W
<1>5. l' = Planes(plane)
  <2>1. plane = 0
    BY <1>1 DEF SgInv
  <2>2. \A b \in 0..(W - 1) : ~ (b < 0)
    BY <1>4
  <2>. QED
    BY <1>1, <2>1, <2>2 DEF Planes
<1>6. Planes(plane)' = Planes(plane)
  BY <1>1, <1>2 DEF Planes, bitrev
<1>7. plane' \in 0..W'
  BY <1>2, <1>3, <1>4
<1>. QED
  BY <1>1, <1>3, <1>5, <1>6, <1>7 DEF SgInv, SupportFollowsPi

(* A round permutes one plane, and leaves the others. *)
LEMMA PermuteStep ==
  ASSUME SgInv, Permute
  PROVE  SgInv'
<1>1. /\ pc = "planes" /\ plane < W /\ pc' = pc /\ pi' = pi /\ out' = out
      /\ plane' = plane + 1
      /\ l' = [l EXCEPT ![plane] = apply_benes(@, out, W, 0)]
  BY DEF Permute
<1>2. W' = W /\ N' = N /\ pi_test' = pi_test
  BY <1>1, StillVerified
<1>3. /\ pi_test = pi /\ pi \in Perms /\ plane \in 0..W /\ l = Planes(plane)
      /\ W \in 2..15 /\ \A x \in 0..(N - 1) : pi[x] \in 0..(N - 1)
  BY <1>1, PermIs DEF SgInv, W, N
<1>4. plane \in 0..(W - 1)
  BY <1>1, <1>3
<1>. DEFINE r == {x \in 0..(N - 1) : plane \in bitrev(x)}
<1>5. l[plane] = r
  BY <1>3, <1>4 DEF Planes
<1>6. apply_benes(r, out, W, 0) = {x \in 0..(N - 1) : pi[x] \in r}
  BY <1>3, PlanePermuted
<1>7. {x \in 0..(N - 1) : pi[x] \in r} = {x \in 0..(N - 1) : plane \in bitrev(pi[x])}
  BY <1>3
<1>. HIDE DEF r
<1>8. l' = [l EXCEPT ![plane] = {x \in 0..(N - 1) : plane \in bitrev(pi[x])}]
  BY <1>1, <1>5, <1>6, <1>7
<1>9. l' = Planes(plane + 1)
  <2>. DEFINE Z(b) == {x \in 0..(N - 1) : b \in bitrev(pi[x])}
              Y(b, k) == {x \in 0..(N - 1) : b \in bitrev(IF b < k THEN pi[x] ELSE x)}
  <2>1. Planes(plane) = [b \in 0..(W - 1) |-> Y(b, plane)]
        /\ Planes(plane + 1) = [b \in 0..(W - 1) |-> Y(b, plane + 1)]
    BY DEF Planes
  <2>2. ASSUME NEW b \in 0..(W - 1), b # plane  PROVE Y(b, plane) = Y(b, plane + 1)
    <3>1. b < plane <=> b < plane + 1
      BY <1>4, <2>2
    <3>. QED
      BY <3>1
  <2>3. Y(plane, plane + 1) = Z(plane)
    <3>1. plane < plane + 1
      BY <1>4
    <3>. QED
      BY <3>1
  <2>4. l' = [l EXCEPT ![plane] = Z(plane)]
    BY <1>8
  <2>. DEFINE u == plane
              f == [b \in 0..(W - 1) |-> Y(b, u)]
              g == [b \in 0..(W - 1) |-> Y(b, u + 1)]
  <2>5. l = f
    BY <1>3, <2>1
  <2>. HIDE DEF Y, Z
  <2>6. \A b \in 0..(W - 1) : g[b] = IF b = u THEN Z(u) ELSE f[b]
    BY ONLY <2>2, <2>3
  <2>7. [f EXCEPT ![u] = Z(u)] = [b \in 0..(W - 1) |-> IF b = u THEN Z(u) ELSE f[b]]
    OBVIOUS
  <2>8. g = [b \in 0..(W - 1) |-> g[b]]
    OBVIOUS
  <2>. HIDE DEF f, g
  <2>9. [f EXCEPT ![u] = Z(u)] = g
    BY ONLY <2>6, <2>7, <2>8
  <2>. QED
    BY ONLY <2>1, <2>4, <2>5, <2>9 DEF g
<1>10. Planes(plane)' = Planes(plane + 1)
  BY <1>1, <1>2 DEF Planes, bitrev
<1>11. plane' \in 0..W'
  BY ONLY <1>1, <1>2, <1>3, <1>4
<1>. QED
  BY <1>1, <1>2, <1>3, <1>9, <1>10, <1>11 DEF SgInv, SupportFollowsPi

(* All planes are permuted: the support can be read off them. *)
LEMMA CollectStep ==
  ASSUME SgInv, Collect
  PROVE  SgInv'
<1>1. /\ pc = "planes" /\ plane = W /\ pc' = "done" /\ pi' = pi /\ out' = out
      /\ plane' = plane
      /\ s' = [x \in 0..(N - 1) |-> {b \in 0..(W - 1) : x \in l[b]}]
  BY DEF Collect, Goto
<1>2. W' = W /\ N' = N /\ pi_test' = pi_test
  BY <1>1, StillVerified
<1>3. pi_test = pi /\ pi \in Perms /\ l = Planes(W) /\ W \in 2..15
  BY <1>1, PermIs DEF SgInv, W
<1>4. \A b \in 0..(W - 1) : l[b] = {x \in 0..(N - 1) : b \in bitrev(pi[x])}
  <2>1. \A b \in 0..(W - 1) : b < W
    BY <1>3
  <2>. QED
    BY <1>3, <2>1 DEF Planes
<1>5. ASSUME NEW x \in 0..(N - 1)  PROVE s'[x] = bitrev(pi[x])
  <2>1. s'[x] = {b \in 0..(W - 1) : x \in l[b]}
    BY <1>1
  <2>2. bitrev(pi[x]) \in SUBSET (0..(W - 1))
    BY DEF bitrev
  <2>. QED
    BY <1>4, <2>1, <2>2
<1>6. \A x \in 0..(N - 1) : bitrev(pi[x])' = bitrev(pi[x])
  BY <1>1, <1>2 DEF bitrev
<1>7. SupportFollowsPi'
  BY <1>1, <1>2, <1>5 DEF SupportFollowsPi, bitrev
<1>. QED
  BY <1>1, <1>2, <1>3, <1>7 DEF SgInv

(* Steps that change nothing. *)
LEMMA SgUnchanged ==
  ASSUME SgInv, UNCHANGED vars
  PROVE  SgInv'
<1>1. /\ pi' = pi /\ out' = out /\ pc' = pc /\ l' = l /\ plane' = plane /\ s' = s
  BY DEF vars
<1>2. W' = W /\ N' = N /\ pi_test' = pi_test
  BY <1>1, StillVerified
<1>3. Planes(plane)' = Planes(plane)
  BY <1>1, <1>2 DEF Planes, bitrev
<1>4. SupportFollowsPi' <=> SupportFollowsPi
  BY <1>1, <1>2 DEF SupportFollowsPi, bitrev
<1>. QED
  BY <1>1, <1>2, <1>3, <1>4 DEF SgInv

(* One case per action. *)
LEMMA SgStep == SgInv /\ [Next]_vars => SgInv'
<1>. SUFFICES ASSUME SgInv, [Next]_vars  PROVE SgInv'
  OBVIOUS
<1>1. CASE ComputeBits
  BY <1>1, ComputeBitsStep
<1>2. CASE FillPlanes
  BY <1>2, FillPlanesStep
<1>3. CASE Permute
  BY <1>3, PermuteStep
<1>4. CASE Collect
  BY <1>4, CollectStep
<1>5. CASE Done \/ UNCHANGED vars
  BY <1>5, SgUnchanged DEF Done
<1>. QED
  BY <1>1, <1>2, <1>3, <1>4, <1>5 DEF Next

(***************************************************************************)
(* What support_gen (benes.rs:347-377) reads off the planes is the support *)
(* in the order of the permutation whose control bits were verified.       *)
(***************************************************************************)
THEOREM SupportIsPermuted == Spec => []SupportFollowsPi
<1>1. SgInv => SupportFollowsPi
  BY DEF SgInv
<1>. QED
  BY <1>1, SgInitial, SgStep, PTL DEF Spec

-------------------------------------------------------------------------------
(* int32_sort compares words of its slice only.                            *)

(* Powers of 2 go up. *)
LEMMA PowerUp ==
  ASSUME NEW x \in 0..15, NEW y \in 0..15, x <= y
  PROVE  2^x \in Nat \ {0} /\ 2^y \in Nat \ {0} /\ 2^x <= 2^y
<1>. DEFINE d == y - x
<1>1. d \in 0..15 /\ x + d = y /\ x + d <= 15
  OBVIOUS
<1>. HIDE DEF d
<1>2. 2^x \in Nat \ {0} /\ 2^y \in Nat \ {0} /\ 2^d \in Nat \ {0}
  BY <1>1, PowerStep
<1>3. 2^(x + d) = 2^x * 2^d
  BY <1>1, PowerSum
<1>4. \A u, v \in Nat \ {0} : u <= u * v
  OBVIOUS
<1>. QED
  BY <1>1, <1>2, <1>3, <1>4

(* Stages whose step is written out, as the recursive functions do. *)
LEMMA StagesTyped ==
  ASSUME NEW S, NEW e \in S, NEW k \in Nat, NEW f,
         f = [j \in 0..k |-> f[j]], f[0] = e,
         \A j \in 1..k : f[j - 1] \in S => f[j] \in S
  PROVE  f \in [0..k -> S]
<1>. DEFINE P == {j \in 0..k : f[j] \in S}
<1>1. 0 \in P
  OBVIOUS
<1>2. ASSUME NEW j \in 0..(k - 1), j \in P  PROVE j + 1 \in P
  <2>1. j + 1 \in 1..k /\ (j + 1) - 1 = j /\ j + 1 \in 0..k
    OBVIOUS
  <2>2. f[j] \in S
    BY <1>2
  <2>. DEFINE g == j + 1
  <2>3. g \in 1..k /\ g - 1 = j /\ g \in 0..k
    BY <2>1
  <2>. HIDE DEF g
  <2>4. f[g] \in S
    BY <2>2, <2>3
  <2>. QED
    BY <2>3, <2>4 DEF g
<1>. HIDE DEF P
<1>3. \A j \in 0..k : j \in P
  <2>1. 0 \in Int /\ k \in Int
    OBVIOUS
  <2>. QED
    BY ONLY <1>1, <1>2, <2>1, Upward
<1>. QED
  BY <1>3 DEF P

(* The indices that the loops run through. *)
LEMMA ClearTyped ==
  ASSUME NEW from \in Int, NEW to \in Int, from <= to + 1, NEW p
  PROVE  Clear(from, to, p) \in Seq(from..to)
<1>. DEFINE k == to - from + 1
            S == Seq(from..to)
            Is(c) == c = [m \in 0..k |->
                            IF m = 0 THEN <<>>
                            ELSE IF IsClear(from + m - 1, p)
                                 THEN Append(c[m - 1], from + m - 1)
                            ELSE c[m - 1]]
            C == CHOOSE c : Is(c)
            G == [j \in 0..(k - 1) |-> [q \in S |->
                    IF IsClear(from + j, p) THEN Append(q, from + j) ELSE q]]
<1>1. k \in Nat
  OBVIOUS
<1>2. Clear(from, to, p) = C[k]
  BY DEF Clear
<1>3. <<>> \in S
  OBVIOUS
<1>4. ASSUME NEW j \in 0..(k - 1), NEW q \in S
      PROVE  (IF IsClear(from + j, p) THEN Append(q, from + j) ELSE q) \in S
  <2>1. from + j \in from..to
    OBVIOUS
  <2>2. Append(q, from + j) \in S
    BY <2>1
  <2>. QED
    BY <2>2
<1>5. \A m \in 0..k : m # 0 => m - 1 \in 0..(k - 1) /\ m - 1 \in 0..k /\ from + (m - 1) = from + m - 1
  BY <1>1
<1>. HIDE DEF k, S
<1>6. G \in [0..(k - 1) -> [S -> S]]
  BY <1>4
<1>7. \A j \in 0..(k - 1), q \in S :
        G[j][q] = IF IsClear(from + j, p) THEN Append(q, from + j) ELSE q
  OBVIOUS
<1>. HIDE DEF G
<1>8. PICK c : c \in [0..k -> S] /\ c = [j \in 0..k |-> IF j = 0 THEN <<>> ELSE G[j - 1][c[j - 1]]]
  <2>1. \E c : Stages(c, S, <<>>, k, G)
    BY ONLY <1>1, <1>3, <1>6, StagesExist
  <2>. QED
    BY ONLY <2>1 DEF Stages
<1>9. Is(c)
  <2>1. \A m \in 0..k : m # 0 =>
          G[m - 1][c[m - 1]] = IF IsClear(from + m - 1, p)
                               THEN Append(c[m - 1], from + m - 1) ELSE c[m - 1]
    BY <1>5, <1>7, <1>8
  <2>. QED
    BY ONLY <1>8, <2>1
<1>10. Is(C)
  BY <1>9
<1>. HIDE DEF C
<1>11. /\ C = [m \in 0..k |-> C[m]] /\ C[0] = <<>>
       /\ \A m \in 1..k : C[m] = IF IsClear(from + m - 1, p)
                                 THEN Append(C[m - 1], from + m - 1) ELSE C[m - 1]
  <2>1. 0 \in 0..k /\ \A m \in 1..k : m \in 0..k /\ m # 0
    BY <1>1
  <2>2. C = [m \in 0..k |-> IF m = 0 THEN <<>>
                            ELSE IF IsClear(from + m - 1, p)
                                 THEN Append(C[m - 1], from + m - 1) ELSE C[m - 1]]
    BY <1>10
  <2>3. C = [m \in 0..k |-> C[m]]
    BY ONLY <2>2
  <2>4. C[0] = <<>>
    BY ONLY <2>1, <2>2
  <2>5. ASSUME NEW m \in 1..k
        PROVE  C[m] = IF IsClear(from + m - 1, p)
                      THEN Append(C[m - 1], from + m - 1) ELSE C[m - 1]
    BY ONLY <2>1, <2>2
  <2>. QED
    BY <2>3, <2>4, <2>5
<1>12. ASSUME NEW m \in 1..k, C[m - 1] \in S  PROVE C[m] \in S
  <2>1. m \in 0..k /\ m # 0
    BY <1>1
  <2>2. m - 1 \in 0..(k - 1) /\ from + (m - 1) = from + m - 1
    BY <1>5, <2>1
  <2>3. (IF IsClear(from + (m - 1), p) THEN Append(C[m - 1], from + (m - 1)) ELSE C[m - 1]) \in S
    BY <1>4, <1>12, <2>2
  <2>. QED
    BY <1>11, <2>2, <2>3
<1>13. C \in [0..k -> S]
  BY ONLY <1>1, <1>3, <1>11, <1>12, StagesTyped
<1>. QED
  BY <1>1, <1>2, <1>13 DEF S

(* What FlattenSeq (SequencesExt) returns. *)
LEMMA FlattenTyped ==
  ASSUME NEW S, NEW q \in Seq(Seq(S))
  PROVE  FlattenSeq(q) \in Seq(S)
<1>. DEFINE k == Len(q)
            T == Seq(S)
            Is(f) == f = [m \in 1..k |-> IF m = 1 THEN q[m] ELSE f[m - 1] \o q[m]]
            F == CHOOSE f : Is(f)
            G == [j \in 0..(k - 2) |-> [u \in T |-> u \o q[j + 2]]]
<1>1. CASE k = 0
  BY <1>1 DEF FlattenSeq
<1>2. CASE k # 0
  <2>1. k \in Nat /\ k - 1 \in Nat /\ \A m \in 1..k : q[m] \in T
    BY <1>2
  <2>2. FlattenSeq(q) = F[k]
    BY <1>2 DEF FlattenSeq
  <2>3. \A u, v \in T : u \o v \in T
    OBVIOUS
  <2>. HIDE DEF k, T
  <2>4. ASSUME NEW j \in 0..(k - 2)  PROVE q[j + 2] \in T
    BY <2>1
  <2>5. G \in [0..((k - 1) - 1) -> [T -> T]] /\ q[1] \in T
    BY <1>2, <2>1, <2>3, <2>4
  <2>6. \A j \in 0..(k - 2), u \in T : G[j][u] = u \o q[j + 2]
    OBVIOUS
  <2>. HIDE DEF G
  <2>7. PICK c : /\ c \in [0..(k - 1) -> T]
                 /\ c = [j \in 0..(k - 1) |-> IF j = 0 THEN q[1] ELSE G[j - 1][c[j - 1]]]
    <3>1. \E c : Stages(c, T, q[1], k - 1, G)
      BY ONLY <2>1, <2>5, StagesExist
    <3>. QED
      BY ONLY <3>1 DEF Stages
  <2>. DEFINE d == [m \in 1..k |-> c[m - 1]]
  <2>8. \A m \in 1..k : m - 1 \in 0..(k - 1) /\ (m # 1 => m - 1 \in 1..k /\ (m - 1) - 1 \in 0..(k - 2)
                                                       /\ ((m - 1) - 1) + 2 = m /\ m - 1 # 0)
    BY <2>1
  <2>9. \A m \in 1..k : d[m] \in T /\ d[m] = IF m = 1 THEN q[m] ELSE d[m - 1] \o q[m]
    <3>1. ASSUME NEW m \in 1..k  PROVE d[m] \in T /\ d[m] = IF m = 1 THEN q[m] ELSE d[m - 1] \o q[m]
      <4>1. d[m] \in T
        BY <2>7, <2>8
      <4>2. CASE m = 1
        BY <2>1, <2>7, <4>1, <4>2
      <4>3. CASE m # 1
        <5>. DEFINE g == m - 1
        <5>1. g \in 0..(k - 1) /\ g # 0 /\ g - 1 \in 0..(k - 2) /\ (g - 1) + 2 = m /\ g \in 1..k
          BY <2>8, <4>3
        <5>2. d[m] = c[g] /\ d[g] = c[g - 1]
          BY <5>1
        <5>. HIDE DEF g, d
        <5>3. c[g] = G[g - 1][c[g - 1]] /\ c[g - 1] \in T
          <6>1. g - 1 \in 0..(k - 1)
            BY ONLY <2>1, <5>1
          <6>. QED
            BY ONLY <2>7, <5>1, <6>1
        <5>4. G[g - 1][c[g - 1]] = c[g - 1] \o q[m]
          BY <2>6, <5>1, <5>3
        <5>5. d[m] = d[g] \o q[m]
          BY <5>2, <5>3, <5>4
        <5>. QED
          BY <4>1, <4>3, <5>5 DEF g
      <4>. QED
        BY <4>2, <4>3
    <3>. QED
      BY <3>1
  <2>10. d = [m \in 1..k |-> d[m]]
    OBVIOUS
  <2>. HIDE DEF d
  <2>11. Is(d)
    BY <2>9, <2>10
  <2>12. Is(F)
    BY <2>11
  <2>. HIDE DEF F
  <2>. DEFINE P == {m \in 1..k : F[m] \in T}
  <2>13. 1 \in P
    BY <2>1, <2>5, <2>12
  <2>14. ASSUME NEW m \in 1..(k - 1), m \in P  PROVE m + 1 \in P
    <3>. DEFINE g == m + 1
    <3>1. g \in 1..k /\ g # 1 /\ g - 1 = m /\ F[m] \in T /\ q[g] \in T
      BY <2>1, <2>14
    <3>. HIDE DEF g
    <3>2. F[g] = F[g - 1] \o q[g]
      BY <2>12, <3>1
    <3>3. F[g] \in T
      BY <2>3, <3>1, <3>2
    <3>. QED
      BY <3>1, <3>3 DEF g
  <2>. HIDE DEF P
  <2>15. k \in P
    <3>1. 1 \in Int /\ k \in Int /\ k \in 1..k
      BY <1>2, <2>1
    <3>. QED
      BY ONLY <2>13, <2>14, <3>1, Upward
  <2>. QED
    BY <2>2, <2>15 DEF P, T
<1>. QED
  BY <1>1, <1>2

(* The places that the words of a slice of m words are compared at. *)
Slots(m) == (0..(m - 1)) \X (0..(m - 1))

(* A function on 1..k is a sequence. *)
LEMMA IsSequence ==
  ASSUME NEW S, NEW k \in Nat, NEW f \in [1..k -> S]
  PROVE  f \in Seq(S)
OBVIOUS

(* int32_sort.rs:33-41 *)
LEMMA PairsTyped ==
  ASSUME NEW m \in Nat, NEW p \in Nat, p <= m
  PROVE  Pairs(m, p) \in Seq(Slots(m))
<1>. DEFINE c == Clear(0, m - p - 1, p)
<1>1. c \in Seq(0..(m - p - 1))
  <2>. DEFINE to == m - p - 1
  <2>1. 0 \in Int /\ to \in Int /\ 0 <= to + 1
    OBVIOUS
  <2>. HIDE DEF to
  <2>2. Clear(0, to, p) \in Seq(0..to)
    BY ONLY <2>1, ClearTyped
  <2>. QED
    BY <2>2 DEF to
<1>2. Pairs(m, p) = [k \in DOMAIN c |-> <<c[k], c[k] + p>>]
  BY DEF Pairs
<1>. HIDE DEF c
<1>3. Len(c) \in Nat /\ DOMAIN c = 1..Len(c) /\ \A k \in 1..Len(c) : c[k] \in 0..(m - p - 1)
  BY <1>1
<1>4. \A x \in 0..(m - p - 1) : <<x, x + p>> \in Slots(m)
  BY DEF Slots
<1>5. Pairs(m, p) \in [1..Len(c) -> Slots(m)]
  BY <1>2, <1>3, <1>4
<1>. QED
  BY <1>3, <1>5, IsSequence

(* The compare-exchanges of one i, with all r = 2^k from 2^d down. *)
LEMMA ChainTyped ==
  ASSUME NEW d \in 0..15, NEW b \in 0..15, b < d, NEW m \in Nat,
         NEW x \in 0..(m - 2^d - 1)
  PROVE  Chain(x, 2^b, d, b) \in Seq(Slots(m))
<1>. DEFINE k == d - b
            rs == Halvings(d, b + 1)
<1>1. k \in Nat /\ d - (b + 1) + 1 = k
  OBVIOUS
<1>2. rs = [j \in 1..k |-> 2^(d - j + 1)]
  BY <1>1 DEF Halvings
<1>3. ASSUME NEW j \in 1..k  PROVE 2^(d - j + 1) \in Nat /\ 2^(d - j + 1) <= 2^d
  <2>. DEFINE y == d - j + 1
  <2>1. y \in 0..15 /\ y <= d
    BY DEF k
  <2>. HIDE DEF y
  <2>2. 2^y \in Nat /\ 2^y <= 2^d
    BY <2>1, PowerUp
  <2>. QED
    BY <2>2 DEF y
<1>4. 2^b \in Nat /\ 2^d \in Nat /\ 2^b <= 2^d
  <2>1. b \in 0..15 /\ d \in 0..15 /\ b <= d
    OBVIOUS
  <2>. QED
    BY ONLY <2>1, PowerUp
<1>. HIDE DEF k, rs
<1>5. Chain(x, 2^b, d, b) = [j \in 1..k |-> <<x + 2^b, x + rs[j]>>]
  BY <1>2 DEF Chain, rs
<1>6. \A j \in 1..k : rs[j] \in Nat /\ rs[j] <= 2^d
  BY <1>2, <1>3
<1>7. ASSUME NEW j \in 1..k  PROVE <<x + 2^b, x + rs[j]>> \in Slots(m)
  <2>. DEFINE u == 2^b
              v == 2^d
              r == rs[j]
  <2>1. u \in Nat /\ v \in Nat /\ u <= v /\ r \in Nat /\ r <= v /\ x \in 0..(m - v - 1)
    BY <1>4, <1>6
  <2>. HIDE DEF u, v, r
  <2>2. x + u \in 0..(m - 1) /\ x + r \in 0..(m - 1)
    BY ONLY <2>1, m \in Nat
  <2>. QED
    BY <2>2 DEF Slots, u, r
<1>8. Chain(x, 2^b, d, b) \in [1..k -> Slots(m)]
  BY <1>5, <1>7
<1>. QED
  BY <1>1, <1>8, IsSequence

(* A pass with q = 2^d, from where the one before it stopped. *)
LEMMA PassTyped ==
  ASSUME NEW h \in 0..14, NEW d \in 0..h, NEW b \in 0..(d - 1)
  PROVE  LET m  == 2^(h + 1)
             is == Clear(FirstIndex(m, 2^d, 2^h), m - 2^d - 1, 2^b)
         IN  FlattenSeq([k \in DOMAIN is |-> Chain(is[k], 2^b, d, b)]) \in Seq(Slots(m))
<1>. DEFINE m == 2^(h + 1)
            q == 2^d
            from == FirstIndex(m, q, 2^h)
            to == m - q - 1
            c == Clear(from, to, 2^b)
            f == [k \in DOMAIN c |-> Chain(c[k], 2^b, d, b)]
<1>1. /\ m \in Nat /\ q \in Nat \ {0} /\ 2^h \in Nat /\ m = 2 * 2^h /\ q <= 2^h
  <2>1. d \in 0..15 /\ h \in 0..15 /\ d <= h
    OBVIOUS
  <2>2. 2^d \in Nat \ {0} /\ 2^h \in Nat \ {0} /\ 2^d <= 2^h
    BY ONLY <2>1, PowerUp
  <2>3. 2^(h + 1) = 2 * 2^h
    BY <2>1, PowerStep
  <2>. QED
    BY <2>2, <2>3
<1>2. from \in Nat /\ from <= to + 1 /\ to \in Int
  <2>. DEFINE u == 2^h
  <2>1. m \in Nat /\ q \in Nat \ {0} /\ u \in Nat /\ m = 2 * u /\ q <= u
    BY <1>1
  <2>2. from = IF q = u THEN 0 ELSE m - 2 * q
    BY DEF FirstIndex
  <2>. HIDE DEF m, q, u, from
  <2>. QED
    BY <2>1, <2>2
<1>. HIDE DEF from
<1>3. c \in Seq(from..to)
  <2>1. from \in Int
    BY <1>2
  <2>. HIDE DEF to
  <2>. QED
    BY <1>2, <2>1, ClearTyped
<1>. HIDE DEF c
<1>4. Len(c) \in Nat /\ DOMAIN c = 1..Len(c) /\ \A k \in 1..Len(c) : c[k] \in from..to
  <2>. DEFINE S == from..to
  <2>1. c \in Seq(S)
    BY <1>3
  <2>. HIDE DEF S, f
  <2>2. Len(c) \in Nat /\ DOMAIN c = 1..Len(c) /\ \A k \in 1..Len(c) : c[k] \in S
    BY ONLY <2>1
  <2>. QED
    BY <2>2 DEF S
<1>5. ASSUME NEW k \in 1..Len(c)  PROVE Chain(c[k], 2^b, d, b) \in Seq(Slots(m))
  <2>. DEFINE x == c[k]
  <2>1. x \in 0..(m - 2^d - 1)
    <3>1. x \in from..to
      BY <1>4
    <3>. HIDE DEF x, m, q
    <3>2. x \in 0..(m - q - 1)
      BY <1>1, <1>2, <3>1
    <3>. QED
      BY <3>2 DEF q
  <2>2. d \in 0..15 /\ b \in 0..15 /\ b < d
    OBVIOUS
  <2>. HIDE DEF x, m
  <2>3. Chain(x, 2^b, d, b) \in Seq(Slots(m))
    BY <1>1, <2>1, <2>2, ChainTyped
  <2>. QED
    BY <2>3 DEF x
<1>6. f \in Seq(Seq(Slots(m)))
  <2>1. f \in [1..Len(c) -> Seq(Slots(m))]
    BY <1>4, <1>5
  <2>. QED
    BY <1>4, <2>1, IsSequence
<1>7. FlattenSeq(f) \in Seq(Slots(m))
  <2>. HIDE DEF f, m
  <2>. QED
    BY <1>6, FlattenTyped
<1>. QED
  BY <1>7 DEF c, from

(* All passes of int32_sort, over a slice of 2^v words. *)
LEMMA NetworkTyped ==
  ASSUME NEW v \in 1..15
  PROVE  Network(v) \in Seq(Seq(Slots(2^v)))
<1>. DEFINE m == 2^v
            h == v - 1
            S == Seq(Slots(m))
            f == [e \in 1..v |-> <<Pairs(m, 2^(v - e))>> \o Chains(m, h, v - e)]
<1>1. h \in 0..14 /\ h + 1 = v
  OBVIOUS
<1>2. ASSUME NEW e \in 1..v  PROVE f[e] \in Seq(S)
  <2>. DEFINE b == v - e
  <2>1. b \in 0..h /\ b \in 0..15 /\ b <= v /\ v \in 0..15
    OBVIOUS
  <2>2. f[e] = <<Pairs(m, 2^b)>> \o Chains(m, h, b)
    OBVIOUS
  <2>. HIDE DEF b
  <2>3. Pairs(m, 2^b) \in S
    <3>1. 2^b \in Nat /\ m \in Nat /\ 2^b <= m
      BY <2>1, PowerUp
    <3>. HIDE DEF m
    <3>. QED
      BY <3>1, PairsTyped
  <2>4. Chains(m, h, b) \in Seq(S)
    <3>. DEFINE Pass(d) ==
                  LET is == Clear(FirstIndex(m, 2^d, 2^h), m - 2^d - 1, 2^b)
                  IN  FlattenSeq([k \in DOMAIN is |-> Chain(is[k], 2^b, d, b)])
                k == h - b
    <3>1. Chains(m, h, b) = [e2 \in 1..k |-> Pass(h + 1 - e2)]
      BY DEF Chains
    <3>2. ASSUME NEW d \in (b + 1)..h  PROVE Pass(d) \in S
      <4>1. d \in 0..h /\ b \in 0..(d - 1)
        BY <1>1, <2>1
      <4>. HIDE DEF h
      <4>. QED
        BY <1>1, <4>1, PassTyped
    <3>3. k \in Nat /\ \A e2 \in 1..k : h + 1 - e2 \in (b + 1)..h
      BY <1>1, <2>1
    <3>. HIDE DEF Pass, k, S
    <3>4. Chains(m, h, b) \in [1..k -> S]
      BY <3>1, <3>2, <3>3
    <3>. QED
      BY <3>3, <3>4, IsSequence
  <2>. HIDE DEF S, f, m, h
  <2>. QED
    BY <2>2, <2>3, <2>4
<1>3. f \in Seq(Seq(S))
  <2>1. f \in [1..v -> Seq(S)] /\ v \in Nat
    BY <1>2
  <2>. HIDE DEF f, S
  <2>. QED
    BY <2>1, IsSequence
<1>4. Network(v) = FlattenSeq(f)
  BY DEF Network
<1>. HIDE DEF f, S
<1>5. FlattenSeq(f) \in Seq(S)
  BY <1>3, FlattenTyped
<1>. QED
  BY <1>4, <1>5 DEF S

-------------------------------------------------------------------------------
(* What int32_sort leaves alone.                                           *)

(* Words in the places D: in the slice from from on they are in V, others as in t. *)
Kept(D, t, from, m, V) ==
  {x \in [D -> Int] : /\ \A k \in from..(from + m - 1) : x[k] \in V
                     /\ \A k \in D \ (from..(from + m - 1)) : x[k] = t[k]}

(* int32_minmax exchanges two words of the slice, or leaves them. *)
LEMMA ExchangeKeeps ==
  ASSUME NEW D, NEW t, NEW from \in Int, NEW m \in Nat, NEW V \in SUBSET Int,
         from..(from + m - 1) \subseteq D,
         NEW x \in Kept(D, t, from, m, V), NEW a \in Slots(m)
  PROVE  CompareExchange(x, from + a[1], from + a[2]) \in Kept(D, t, from, m, V)
<1>. DEFINE lo == from + a[1]
            hi == from + a[2]
            Z == from..(from + m - 1)
            y == [x EXCEPT ![lo] = x[hi], ![hi] = x[lo]]
<1>1. lo \in Z /\ hi \in Z
  BY DEF Slots
<1>2. Z \in SUBSET D /\ x \in [D -> Int] /\ (\A k \in Z : x[k] \in V)
      /\ \A k \in D \ Z : x[k] = t[k]
  BY DEF Kept
<1>3. ASSUME NEW z, z = x \/ z = y  PROVE z \in Kept(D, t, from, m, V)
  <2>. HIDE DEF Z, lo, hi
  <2>1. y \in [D -> Int]
    BY <1>1, <1>2
  <2>2. \A k \in Z : y[k] \in V
    BY <1>1, <1>2
  <2>3. \A k \in D \ Z : y[k] = t[k]
    BY <1>1, <1>2
  <2>. HIDE DEF y
  <2>4. z \in [D -> Int] /\ (\A k \in Z : z[k] \in V) /\ \A k \in D \ Z : z[k] = t[k]
    BY <1>2, <1>3, <2>1, <2>2, <2>3
  <2>. QED
    BY <2>4 DEF Kept, Z
<1>4. CompareExchange(x, lo, hi) = IF x[lo] > x[hi] THEN y ELSE x
  BY DEF CompareExchange
<1>. HIDE DEF lo, hi, y
<1>5. CompareExchange(x, lo, hi) = x \/ CompareExchange(x, lo, hi) = y
  BY <1>4
<1>6. CompareExchange(x, lo, hi) \in Kept(D, t, from, m, V)
  BY <1>3, <1>5
<1>. QED
  BY <1>6 DEF lo, hi

(* A pass. *)
LEMMA ApplyKeeps ==
  ASSUME NEW D, NEW t, NEW from \in Int, NEW m \in Nat, NEW V \in SUBSET Int,
         from..(from + m - 1) \subseteq D,
         NEW x \in Kept(D, t, from, m, V), NEW pass \in Seq(Slots(m))
  PROVE  Apply(x, from, pass) \in Kept(D, t, from, m, V)
<1>. DEFINE k == Len(pass)
            S == Kept(D, t, from, m, V)
            Do(y, j) == CompareExchange(y, from + pass[j][1], from + pass[j][2])
            Is(r) == r = [j \in 0..k |-> IF j = 0 THEN x ELSE Do(r[j - 1], j)]
            R == CHOOSE r : Is(r)
            G == [j \in 0..(k - 1) |-> [y \in S |-> Do(y, j + 1)]]
<1>1. k \in Nat /\ \A j \in 1..k : pass[j] \in Slots(m)
  OBVIOUS
<1>2. Apply(x, from, pass) = R[k]
  BY DEF Apply
<1>. HIDE DEF k
<1>3. ASSUME NEW j \in 1..k, NEW y \in S  PROVE Do(y, j) \in S
  BY <1>1, ExchangeKeeps
<1>. HIDE DEF S, Do
<1>4. G \in [0..(k - 1) -> [S -> S]] /\ x \in S
  <2>1. \A j \in 0..(k - 1) : j + 1 \in 1..k
    BY <1>1
  <2>. QED
    BY <1>3, <2>1 DEF S
<1>5. \A j \in 0..(k - 1), y \in S : G[j][y] = Do(y, j + 1)
  OBVIOUS
<1>. HIDE DEF G
<1>6. PICK r : r \in [0..k -> S] /\ r = [j \in 0..k |-> IF j = 0 THEN x ELSE G[j - 1][r[j - 1]]]
  <2>1. \E r : Stages(r, S, x, k, G)
    BY ONLY <1>1, <1>4, StagesExist
  <2>. QED
    BY ONLY <2>1 DEF Stages
<1>7. Is(r)
  <2>1. \A j \in 0..k : j # 0 => j - 1 \in 0..(k - 1) /\ j - 1 \in 0..k /\ (j - 1) + 1 = j
    BY <1>1
  <2>2. ASSUME NEW j \in 0..k, j # 0  PROVE G[j - 1][r[j - 1]] = Do(r[j - 1], j)
    <3>. DEFINE g == j - 1
    <3>1. g \in 0..(k - 1) /\ g \in 0..k /\ g + 1 = j
      BY <2>1, <2>2
    <3>. HIDE DEF g
    <3>2. r[g] \in S
      BY <1>6, <3>1
    <3>3. G[g][r[g]] = Do(r[g], j)
      BY <1>5, <3>1, <3>2
    <3>. QED
      BY <3>3 DEF g
  <2>. QED
    BY ONLY <1>6, <2>2
<1>8. Is(R)
  BY <1>7
<1>. HIDE DEF R
<1>9. R = [j \in 0..k |-> R[j]] /\ R[0] = x
  BY ONLY <1>1, <1>8
<1>10. ASSUME NEW j \in 1..k, R[j - 1] \in S  PROVE R[j] \in S
  <2>1. j \in 0..k /\ j # 0
    BY <1>1
  <2>2. R[j] = Do(R[j - 1], j)
    BY ONLY <1>8, <2>1
  <2>. QED
    BY <1>3, <1>10, <2>2
<1>11. R \in [0..k -> S]
  BY ONLY <1>1, <1>4, <1>9, <1>10, StagesTyped
<1>. QED
  BY <1>1, <1>2, <1>11 DEF S

(* int32_sort over the 2^v words from place from on. *)
LEMMA SortKeeps ==
  ASSUME NEW D, NEW t, NEW from \in Int, NEW v \in 1..15, NEW V \in SUBSET Int,
         from..(from + 2^v - 1) \subseteq D,
         t \in [D -> Int], \A k \in from..(from + 2^v - 1) : t[k] \in V
  PROVE  SortSlice(t, from, Network(v)) \in Kept(D, t, from, 2^v, V)
<1>. DEFINE m == 2^v
            net == Network(v)
            k == Len(net)
            K == Kept(D, t, from, m, V)
            S == {q \in Seq(K) : q # <<>>}
            After(xs) == Append(xs, Apply(Last(xs), from, net[Len(xs)]))
            Is(r) == r = [j \in 0..k |-> IF j = 0 THEN <<t>> ELSE After(r[j - 1])]
            R == CHOOSE r : Is(r)
            \* the value of After where it is used
            T(j) == {q \in S : Len(q) = j}
            G == [j \in 0..(k - 1) |-> [q \in S |-> IF Len(q) = j + 1 THEN After(q) ELSE q]]
<1>1. m \in Nat /\ k \in Nat /\ \A j \in 1..k : net[j] \in Seq(Slots(m))
  <2>1. net \in Seq(Seq(Slots(m)))
    BY NetworkTyped
  <2>2. v \in 0..15
    OBVIOUS
  <2>3. m \in Nat
    BY <2>2, PowerStep
  <2>. DEFINE Q == Seq(Slots(m))
  <2>. HIDE DEF net, m, Q
  <2>4. k \in Nat /\ \A j \in 1..k : net[j] \in Q
    BY <2>1 DEF Q
  <2>. QED
    BY <2>3, <2>4 DEF Q
<1>2. SortSlice(t, from, net) = Last(R[k])
  BY DEF SortSlice
<1>3. t \in K
  BY DEF Kept
<1>4. from..(from + m - 1) \subseteq D
  OBVIOUS
<1>. HIDE DEF m, net, k, K
<1>5. \A x \in K, j \in 1..k : Apply(x, from, net[j]) \in K
  BY <1>1, <1>4, ApplyKeeps DEF K
<1>6. ASSUME NEW q \in S, Len(q) \in 1..k
      PROVE  After(q) \in S /\ Len(After(q)) = Len(q) + 1
  <2>1. q \in Seq(K) /\ q # <<>> /\ Last(q) \in K
    BY DEF Last
  <2>. DEFINE y == Apply(Last(q), from, net[Len(q)])
  <2>2. y \in K
    BY <1>5, <1>6, <2>1
  <2>. HIDE DEF y
  <2>3. Append(q, y) \in S /\ Len(Append(q, y)) = Len(q) + 1
    BY <2>1, <2>2
  <2>. QED
    BY <2>3 DEF y
<1>7. <<t>> \in T(1)
  BY <1>3
<1>8. ASSUME NEW j \in 0..(k - 1), NEW q \in S
      PROVE  (IF Len(q) = j + 1 THEN After(q) ELSE q) \in S
  <2>1. j + 1 \in 1..k
    BY <1>1
  <2>. QED
    BY <1>6, <2>1
<1>9. /\ \A j \in 0..k : T(j) \in SUBSET S /\ \A q \in T(j) : q \in S /\ Len(q) = j
      /\ \A q \in S : q \in T(Len(q)) /\ Last(q) \in K
  BY DEF Last
<1>10. <<t>> \in S
  BY <1>7
<1>11. ASSUME NEW j \in 1..k, NEW q \in T(j)  PROVE After(q) \in T(j + 1)
  BY <1>6, <1>9
<1>. HIDE DEF S, After, T
<1>12. G \in [0..(k - 1) -> [S -> S]]
  BY <1>8
<1>13. \A j \in 0..(k - 1), q \in S : G[j][q] = IF Len(q) = j + 1 THEN After(q) ELSE q
  OBVIOUS
<1>. HIDE DEF G
<1>14. PICK r : r \in [0..k -> S] /\ r = [j \in 0..k |-> IF j = 0 THEN <<t>> ELSE G[j - 1][r[j - 1]]]
  <2>1. \E r : Stages(r, S, <<t>>, k, G)
    BY ONLY <1>1, <1>10, <1>12, StagesExist
  <2>. QED
    BY ONLY <2>1 DEF Stages
<1>15. ASSUME NEW f, f = [j \in 0..k |-> f[j]], f[0] = <<t>>,
              \A j \in 1..k : f[j - 1] \in T(j) => f[j] = After(f[j - 1])
       PROVE  \A j \in 0..k : f[j] \in T(j + 1)
  <2>. DEFINE P == {j \in 0..k : f[j] \in T(j + 1)}
  <2>1. 0 \in P
    <3>1. 0 \in 0..k /\ 0 + 1 = 1
      BY <1>1
    <3>. QED
      BY <1>7, <1>15, <3>1
  <2>2. ASSUME NEW j \in 0..(k - 1), j \in P  PROVE j + 1 \in P
    <3>. DEFINE g == j + 1
    <3>1. g \in 1..k /\ g \in 0..k /\ g - 1 = j
      BY <1>1
    <3>2. f[j] \in T(g)
      BY <2>2
    <3>. HIDE DEF g
    <3>3. f[g] = After(f[j])
      BY <1>15, <3>1, <3>2
    <3>4. f[g] \in T(g + 1)
      BY <1>11, <3>1, <3>2, <3>3
    <3>. QED
      BY <3>1, <3>4 DEF g
  <2>. HIDE DEF P
  <2>3. \A j \in 0..k : j \in P
    <3>1. 0 \in Int /\ k \in Int
      BY <1>1
    <3>. QED
      BY ONLY <2>1, <2>2, <3>1, Upward
  <2>. QED
    BY <2>3 DEF P
<1>16. \A j \in 0..k : r[j] \in T(j + 1)
  <2>1. ASSUME NEW j \in 1..k, r[j - 1] \in T(j)  PROVE r[j] = After(r[j - 1])
    <3>. DEFINE g == j - 1
    <3>1. g \in 0..(k - 1) /\ g + 1 = j /\ j \in 0..k /\ j # 0
      BY <1>1
    <3>. HIDE DEF g
    <3>2. r[g] \in S /\ Len(r[g]) = j
      BY <1>9, <2>1, <3>1 DEF g
    <3>3. r[j] = G[g][r[g]]
      BY <1>14, <3>1 DEF g
    <3>4. r[j] = After(r[g])
      BY <1>13, <3>1, <3>2, <3>3
    <3>. QED
      BY <3>4 DEF g
  <2>2. r = [j \in 0..k |-> r[j]] /\ r[0] = <<t>>
    BY ONLY <1>1, <1>14
  <2>. QED
    BY <1>15, <2>1, <2>2
<1>17. Is(r)
  <2>1. ASSUME NEW j \in 0..k, j # 0  PROVE r[j] = After(r[j - 1])
    <3>. DEFINE g == j - 1
    <3>1. g \in 0..(k - 1) /\ g \in 0..k /\ g + 1 = j
      BY <1>1, <2>1
    <3>. HIDE DEF g
    <3>2. r[g] \in S /\ Len(r[g]) = g + 1
      <4>1. r[g] \in T(j)
        BY <1>16, <3>1
      <4>. QED
        BY <1>9, <2>1, <3>1, <4>1
    <3>3. r[j] = G[g][r[g]]
      BY <1>14, <2>1 DEF g
    <3>4. r[j] = After(r[g])
      BY <1>13, <3>1, <3>2, <3>3
    <3>. QED
      BY <3>4 DEF g
  <2>. QED
    BY ONLY <1>1, <1>14, <2>1
<1>18. Is(R)
  BY <1>17
<1>. HIDE DEF R
<1>19. \A j \in 0..k : R[j] \in T(j + 1)
  <2>1. R = [j \in 0..k |-> R[j]] /\ R[0] = <<t>>
    BY ONLY <1>1, <1>18
  <2>2. \A j \in 1..k : R[j] = After(R[j - 1])
    <3>1. \A j \in 1..k : j \in 0..k /\ j # 0
      BY <1>1
    <3>. QED
      BY ONLY <1>18, <3>1
  <2>. QED
    BY <1>15, <2>1, <2>2
<1>20. R[k] \in S
  <2>1. k \in 0..k /\ k + 1 \in 1..(k + 1)
    BY <1>1
  <2>2. R[k] \in T(k + 1)
    BY <1>19, <2>1
  <2>. QED
    BY <2>2 DEF T
<1>21. Last(R[k]) \in K
  BY <1>9, <1>20
<1>. QED
  BY <1>2, <1>21 DEF net, K, m

-------------------------------------------------------------------------------
(* The fields of a word.                                                   *)

(* Powers of 2, up to the size of a word. *)
LEMMA WidePowerStep ==
  ASSUME NEW k \in 0..31
  PROVE  2^k \in Nat \ {0} /\ 2^(k + 1) = 2 * 2^k
<1>0. CASE k = 0
  BY <1>0
<1>1. CASE k = 1
  BY <1>1
<1>2. CASE k = 2
  BY <1>2
<1>3. CASE k = 3
  BY <1>3
<1>4. CASE k = 4
  BY <1>4
<1>5. CASE k = 5
  BY <1>5
<1>6. CASE k = 6
  BY <1>6
<1>7. CASE k = 7
  BY <1>7
<1>8. CASE k = 8
  BY <1>8
<1>9. CASE k = 9
  BY <1>9
<1>10. CASE k = 10
  BY <1>10
<1>11. CASE k = 11
  BY <1>11
<1>12. CASE k = 12
  BY <1>12
<1>13. CASE k = 13
  BY <1>13
<1>14. CASE k = 14
  BY <1>14
<1>15. CASE k = 15
  BY <1>15
<1>16. CASE k = 16
  BY <1>16
<1>17. CASE k = 17
  BY <1>17
<1>18. CASE k = 18
  BY <1>18
<1>19. CASE k = 19
  BY <1>19
<1>20. CASE k = 20
  BY <1>20
<1>21. CASE k = 21
  BY <1>21
<1>22. CASE k = 22
  BY <1>22
<1>23. CASE k = 23
  BY <1>23
<1>24. CASE k = 24
  BY <1>24
<1>25. CASE k = 25
  BY <1>25
<1>26. CASE k = 26
  BY <1>26
<1>27. CASE k = 27
  BY <1>27
<1>28. CASE k = 28
  BY <1>28
<1>29. CASE k = 29
  BY <1>29
<1>30. CASE k = 30
  BY <1>30
<1>31. CASE k = 31
  BY <1>31
<1>. QED
  BY <1>0, <1>1, <1>2, <1>3, <1>4, <1>5, <1>6, <1>7, <1>8, <1>9, <1>10, <1>11,
     <1>12, <1>13, <1>14, <1>15, <1>16, <1>17, <1>18, <1>19, <1>20, <1>21,
     <1>22, <1>23, <1>24, <1>25, <1>26, <1>27, <1>28, <1>29, <1>30, <1>31

(* The same for sums of widths. *)
LEMMA WidePowerSum ==
  ASSUME NEW x \in 0..31, NEW y \in 0..31, NEW z \in 0..31, x + y = z
  PROVE  2^z = 2^x * 2^y
<1>. DEFINE P == {k \in 0..31 : 2^(x + k) = 2^x * 2^k}
<1>1. 0 \in P
  <2>1. 2^x \in Nat
    BY WidePowerStep
  <2>. QED
    BY <2>1
<1>2. ASSUME NEW k \in 0..(y - 1), k \in P  PROVE k + 1 \in P
  <2>1. 2^(x + k) = 2^x * 2^k
    BY <1>2
  <2>2. /\ 2^x \in Nat /\ 2^k \in Nat /\ 2^(k + 1) = 2 * 2^k
        /\ 2^((x + k) + 1) = 2 * 2^(x + k)
    <3>1. k \in 0..31 /\ x + k \in 0..31
      OBVIOUS
    <3>. QED
      BY <3>1, WidePowerStep
  <2>3. \A m, q \in Nat : 2 * (m * q) = m * (2 * q)
    OBVIOUS
  <2>4. (x + k) + 1 = x + (k + 1) /\ k + 1 \in 0..31
    OBVIOUS
  <2>. QED
    BY <2>1, <2>2, <2>3, <2>4
<1>. HIDE DEF P
<1>3. y \in P
  BY <1>1, <1>2, Upward
<1>. QED
  BY <1>3 DEF P

(* The widths of the fields. *)
LEMMA Widths ==
  /\ WIDE \in 1..16 /\ NARROW \in 1..16
  /\ 3 * NARROW < 2 * WIDE /\ WIDE <= 2 * NARROW
<1>1. WIDE \in Nat \ {0} /\ NARROW \in Nat \ {0} /\ 2 * WIDE <= 32
      /\ 3 * NARROW < 2 * WIDE /\ WIDE <= 2 * NARROW
  BY ControlBitsAssumption
<1>. QED
  BY ONLY <1>1

(* Sizes: F is what a field can hold, and a word of two such is not negative. *)
LEMMA FieldSizes ==
  /\ 2^WIDE \in Nat \ {0} /\ 2^(WIDE - 1) \in Nat \ {0}
  /\ 2^WIDE = 2 * 2^(WIDE - 1)
  /\ 2^(2 * WIDE - 1) = 2^WIDE * 2^(WIDE - 1)
<1>. DEFINE b == WIDE - 1
<1>1. /\ b \in 0..31 /\ b + 1 = WIDE /\ WIDE \in 0..31 /\ 2 * WIDE - 1 \in 0..31
      /\ WIDE + b = 2 * WIDE - 1
  BY ONLY Widths
<1>. HIDE DEF b
<1>2. 2^b \in Nat \ {0} /\ 2^(b + 1) = 2 * 2^b
  BY <1>1, WidePowerStep
<1>3. 2^WIDE \in Nat \ {0}
  BY <1>1, WidePowerStep
<1>4. 2^(2 * WIDE - 1) = 2^WIDE * 2^b
  <2>. DEFINE z == 2 * WIDE - 1
  <2>1. z \in 0..31 /\ WIDE + b = z
    BY <1>1
  <2>. HIDE DEF z
  <2>2. 2^z = 2^WIDE * 2^b
    BY ONLY <1>1, <2>1, WidePowerSum
  <2>. QED
    BY <2>2 DEF z
<1>. QED
  BY <1>1, <1>2, <1>3, <1>4 DEF b

(* The fields of such a word. *)
LEMMA FieldsTyped ==
  ASSUME NEW m \in Nat, m <= 2^(WIDE - 1), NEW v \in FieldsBelow(m)
  PROVE  v \in Words /\ v \in Nat /\ Low(v) \in 0..(m - 1) /\ High(v) \in 0..(m - 1)
<1>. DEFINE F == 2^WIDE
            c == 2^(WIDE - 1)
<1>1. PICK h \in 0..(m - 1), x \in 0..(m - 1) : v = h * F + x
  BY DEF FieldsBelow
<1>2. F \in Nat \ {0} /\ c \in Nat \ {0} /\ F = 2 * c /\ 2^(2 * WIDE - 1) = F * c /\ m <= c
  BY FieldSizes
<1>. HIDE DEF F, c
<1>3. x \in 0..(F - 1) /\ h \in Int /\ h \in Nat /\ h + 1 <= c
  BY ONLY <1>2, m \in Nat, h \in 0..(m - 1), x \in 0..(m - 1)
<1>4. (h * F + x) \div F = h /\ (h * F + x) % F = x
  <2>1. F \in Nat \ {0} /\ h \in Int /\ x \in 0..(F - 1)
    BY <1>2, <1>3
  <2>. QED
    BY ONLY <2>1, Quotient
<1>5. h * F + x \in 0..(F * c - 1)
  <2>1. h * F + F = (h + 1) * F /\ (h + 1) * F <= c * F /\ c * F = F * c /\ h * F \in Nat
    BY <1>2, <1>3
  <2>2. F * c \in Nat
    BY <1>2
  <2>. DEFINE y == h * F
              z == F * c
  <2>3. y \in Nat /\ z \in Nat /\ y + F <= z
    BY <1>2, <2>1, <2>2
  <2>. HIDE DEF y, z
  <2>4. y + x \in 0..(z - 1)
    BY <1>2, <1>3, <2>3
  <2>. QED
    BY <2>4 DEF y, z
<1>6. v \in 0..(F * c - 1) /\ v \in Nat /\ v \div F = h /\ v % F = x
  BY ONLY <1>1, <1>2, <1>4, <1>5
<1>7. v \in Words /\ Low(v) = x /\ High(v) = h
  BY <1>2, <1>6 DEF Words, Low, High, F
<1>. QED
  BY <1>1, <1>6, <1>7

(* (h << 16) | x, where h is a field or a word. *)
LEMMA WordTyped ==
  ASSUME NEW m \in Nat, m <= 2^(WIDE - 1), NEW h, NEW x \in 0..(m - 1),
         h \in 0..(m - 1) \/ h \in FieldsBelow(m)
  PROVE  Word(h, x) \in FieldsBelow(m)
<1>1. h % 2^WIDE \in 0..(m - 1)
  <2>1. CASE h \in FieldsBelow(m)
    BY <2>1, FieldsTyped DEF Low
  <2>2. CASE h \in 0..(m - 1)
    <3>. DEFINE F == 2^WIDE
    <3>1. F \in Nat \ {0} /\ m <= F
      BY FieldSizes
    <3>. HIDE DEF F
    <3>2. h \in 0..(F - 1)
      BY <2>2, <3>1
    <3>3. (0 * F + h) % F = h
      BY ONLY <3>1, <3>2, Quotient
    <3>4. h % F = h
      BY <3>2, <3>1, <3>3
    <3>. QED
      BY <2>2, <3>4 DEF F
  <2>. QED
    BY <2>1, <2>2
<1>. QED
  BY <1>1 DEF Word, FieldsBelow

(* 124-127: the sum of a shifted word and a field. *)
LEMMA SumTyped ==
  ASSUME NEW m \in Nat, m <= 2^(WIDE - 1), NEW u \in FieldsBelow(m), NEW v \in FieldsBelow(m)
  PROVE  Word(u, 0) + High(v) \in FieldsBelow(m)
<1>1. Low(u) \in 0..(m - 1) /\ High(v) \in 0..(m - 1) /\ 2^WIDE \in Nat
  BY FieldsTyped, FieldSizes
<1>2. Word(u, 0) = Low(u) * 2^WIDE
  BY <1>1 DEF Word, Low
<1>. QED
  BY <1>1, <1>2 DEF FieldsBelow

-------------------------------------------------------------------------------
(* Three fields in a word: the rounds for w <= 10.                         *)

(* q: a narrow field, r: two of them, z: a word; g: what is left of a word *)
(* above two narrow fields holds a third.                                 *)
LEMMA NarrowSizes ==
  LET q == 2^NARROW
      r == 2^(2 * NARROW)
      g == 2^(2 * WIDE - 2 * NARROW)
      z == 2^(2 * WIDE - 1)
  IN  /\ q \in Nat \ {0} /\ r \in Nat \ {0} /\ g \in Nat \ {0} /\ z \in Nat \ {0}
      /\ r = q * q
      /\ q <= g
      /\ q * r <= z
      /\ \E e \in Nat \ {0} : 2^WIDE = g * e
<1>. DEFINE b == NARROW
            b2 == 2 * NARROW
            x == 2 * WIDE - 2 * NARROW
            y == 2 * NARROW - WIDE
            t == 2 * WIDE - 1
            u == x - b
            v == t - 3 * b
            b3 == 3 * NARROW
<1>1. /\ b \in 0..31 /\ b2 \in 0..31 /\ x \in 0..31 /\ y \in 0..31 /\ t \in 0..31
      /\ u \in 0..31 /\ v \in 0..31
      /\ b + b = b2 /\ x + y = WIDE /\ b + u = x /\ b3 \in 0..31 /\ b + b2 = b3 /\ b3 + v = t
      /\ WIDE \in 0..31
  BY ONLY Widths
<1>. HIDE DEF b, b2, x, y, t, u, v, b3
<1>2. /\ 2^b \in Nat \ {0} /\ 2^b2 \in Nat \ {0} /\ 2^x \in Nat \ {0} /\ 2^y \in Nat \ {0}
      /\ 2^t \in Nat \ {0} /\ 2^u \in Nat \ {0} /\ 2^v \in Nat \ {0}
  BY <1>1, WidePowerStep
<1>3. 2^b2 = 2^b * 2^b
  <2>1. b \in 0..31 /\ b \in 0..31 /\ b2 \in 0..31 /\ b + b = b2
    BY <1>1
  <2>. QED
    BY ONLY <2>1, WidePowerSum
<1>4. 2^WIDE = 2^x * 2^y
  <2>1. x \in 0..31 /\ y \in 0..31 /\ WIDE \in 0..31 /\ x + y = WIDE
    BY <1>1
  <2>. QED
    BY ONLY <2>1, WidePowerSum
<1>5. 2^x = 2^b * 2^u
  <2>1. b \in 0..31 /\ u \in 0..31 /\ x \in 0..31 /\ b + u = x
    BY <1>1
  <2>. QED
    BY ONLY <2>1, WidePowerSum
<1>6. 2^b3 = 2^b * 2^b2
  <2>1. b \in 0..31 /\ b2 \in 0..31 /\ b3 \in 0..31 /\ b + b2 = b3
    BY <1>1
  <2>. QED
    BY ONLY <2>1, WidePowerSum
<1>7. 2^t = 2^b3 * 2^v
  <2>1. b3 \in 0..31 /\ v \in 0..31 /\ t \in 0..31 /\ b3 + v = t
    BY <1>1
  <2>. QED
    BY ONLY <2>1, WidePowerSum
<1>8. \A m, k \in Nat \ {0} : m <= m * k
  OBVIOUS
<1>9. 2^b <= 2^x
  BY <1>2, <1>5, <1>8
<1>10. 2^b * 2^b2 <= 2^t
  <2>1. 2^b * 2^b2 \in Nat \ {0}
    BY <1>2
  <2>. QED
    BY <1>2, <1>6, <1>7, <1>8, <2>1
<1>. QED
  BY <1>2, <1>3, <1>4, <1>9, <1>10 DEF b, b2, x, t

(* They are words. *)
LEMMA NarrowTyped ==
  ASSUME NEW m \in Nat, m <= 2^NARROW, NEW v \in NarrowBelow(m)
  PROVE  v \in Words /\ v \in Nat
<1>. DEFINE q == 2^NARROW
            r == 2^(2 * NARROW)
            z == 2^(2 * WIDE - 1)
<1>1. q \in Nat \ {0} /\ r \in Nat \ {0} /\ z \in Nat \ {0} /\ r = q * q /\ q * r <= z
      /\ m <= q
  BY NarrowSizes
<1>2. v \in 0..(m * q - 1)
  BY DEF NarrowBelow
<1>3. z \in Nat /\ Words = 0..(z - 1)
  BY <1>1 DEF Words
<1>. HIDE DEF q, r, z
<1>4. m * q \in Nat /\ m * q <= r /\ r <= q * r
  <2>1. \A x, y, k \in Nat : x <= y => x * k <= y * k
    OBVIOUS
  <2>2. \A x, k \in Nat \ {0} : x <= k * x
    OBVIOUS
  <2>. QED
    BY <1>1, <2>1, <2>2
<1>5. q * r \in Nat
  BY <1>1
<1>. QED
  BY <1>1, <1>2, <1>3, <1>4, <1>5

(* 129-132 *)
LEMMA PackTyped ==
  ASSUME NEW m \in Nat, NEW x \in 0..(m - 1), NEW c \in Nat
  PROVE  x * 2^NARROW + (c % 2^NARROW) \in NarrowBelow(m)
<1>. DEFINE q == 2^NARROW
            r == c % q
<1>1. q \in Nat \ {0}
  BY NarrowSizes
<1>. HIDE DEF q
<1>2. r \in 0..(q - 1)
  BY <1>1
<1>. HIDE DEF r
<1>3. x * q + q = (x + 1) * q /\ (x + 1) * q <= m * q /\ x * q \in Nat /\ m * q \in Nat
  <2>1. \A y, z, k \in Nat : y <= z => y * k <= z * k
    OBVIOUS
  <2>2. x \in Nat /\ x + 1 \in Nat /\ x + 1 <= m /\ q \in Nat
    BY <1>1
  <2>. QED
    BY <2>1, <2>2
<1>4. x * q + r \in 0..(m * q - 1)
  <2>. DEFINE y == x * q
              z == m * q
  <2>1. y \in Nat /\ z \in Nat /\ y + q <= z /\ q \in Nat
    BY <1>1, <1>3
  <2>. HIDE DEF y, z
  <2>2. y + r \in 0..(z - 1)
    BY <1>2, <2>1
  <2>. QED
    BY <2>2 DEF y, z
<1>. QED
  BY <1>4 DEF NarrowBelow, q, r

(* 134-137 *)
LEMMA NarrowHigh ==
  ASSUME NEW m \in Nat, NEW v \in NarrowBelow(m), NEW x \in 0..(m - 1)
  PROVE  (v \div 2^NARROW) * 2^WIDE + x \in FieldsBelow(m)
<1>. DEFINE q == 2^NARROW
<1>1. q \in Nat \ {0} /\ v \in 0..(m * q - 1)
  BY NarrowSizes DEF NarrowBelow
<1>. HIDE DEF q
<1>2. v \in Nat /\ v \div q \in Nat /\ v % q \in Nat /\ v = q * (v \div q) + (v % q)
  BY <1>1
<1>3. v \div q \in 0..(m - 1)
  <2>. DEFINE d == v \div q
  <2>1. d \in Nat /\ d * q <= v /\ v < m * q
    BY <1>1, <1>2
  <2>. HIDE DEF d
  <2>2. ASSUME m <= d  PROVE FALSE
    <3>1. \A y, z, k \in Nat : y <= z => y * k <= z * k
      OBVIOUS
    <3>2. m * q <= d * q /\ m * q \in Nat /\ d * q \in Nat
      BY <1>1, <2>1, <2>2, <3>1
    <3>. DEFINE y == m * q
                z == d * q
    <3>3. y <= z /\ y \in Nat /\ z \in Nat /\ z <= v /\ v < y
      BY <2>1, <3>2
    <3>. HIDE DEF y, z
    <3>. QED
      BY <1>2, <3>3
  <2>3. d \in 0..(m - 1)
    BY <2>1, <2>2
  <2>. QED
    BY <2>3 DEF d
<1>. QED
  BY <1>3 DEF FieldsBelow, q

(* 142-145: what is shifted out of the word is 0. *)
LEMMA ThreeFields ==
  ASSUME NEW m \in Nat, m <= 2^NARROW, NEW u \in FieldsBelow(m), NEW v \in NarrowBelow(m)
  PROVE  (u % 2^(2 * WIDE - 2 * NARROW)) * 2^(2 * NARROW) + v \in NarrowInLow(m)
<1>. DEFINE q == 2^NARROW
            r == 2^(2 * NARROW)
            g == 2^(2 * WIDE - 2 * NARROW)
            z == 2^(2 * WIDE - 1)
<1>1. /\ q \in Nat \ {0} /\ r \in Nat \ {0} /\ g \in Nat \ {0} /\ z \in Nat \ {0}
      /\ r = q * q /\ q <= g /\ q * r <= z /\ m <= q
  BY NarrowSizes
<1>2. PICK e \in Nat \ {0} : 2^WIDE = g * e
  BY NarrowSizes
<1>3. PICK h \in 0..(m - 1), x \in 0..(m - 1) : u = h * (g * e) + x
  BY <1>2 DEF FieldsBelow
<1>4. v \in NarrowBelow(m) /\ v \in 0..(m * q - 1)
  BY DEF NarrowBelow
<1>5. Words = 0..(z - 1) /\ NarrowInLow(m) = {y \in Words : y % r \in NarrowBelow(m)}
  BY DEF Words, NarrowInLow
<1>. HIDE DEF q, r, g, z
<1>6. u % g = x
  <2>1. h * (g * e) = (h * e) * g /\ h * e \in Int /\ x \in 0..(g - 1)
    BY <1>1, <1>2, <1>3
  <2>2. ((h * e) * g + x) % g = x
    BY ONLY <1>1, <2>1, Quotient
  <2>. QED
    BY <1>3, <2>1, <2>2
<1>7. v \in 0..(r - 1)
  <2>1. \A y, k, d \in Nat : y <= k => y * d <= k * d
    OBVIOUS
  <2>2. m * q <= q * q /\ m * q \in Nat
    BY <1>1, <2>1
  <2>. QED
    BY <1>1, <1>4, <2>2
<1>8. (x * r + v) % r = v
  <2>1. x \in Int
    BY <1>3
  <2>. QED
    BY ONLY <1>1, <2>1, <1>7, Quotient
<1>9. x * r + v \in 0..(z - 1)
  <2>1. x * r + r = (x + 1) * r /\ (x + 1) * r <= q * r /\ x * r \in Nat /\ q * r \in Nat
    <3>1. \A y, k, d \in Nat : y <= k => y * d <= k * d
      OBVIOUS
    <3>2. x \in Nat /\ x + 1 \in Nat /\ x + 1 <= q /\ r \in Nat /\ q \in Nat
      BY <1>1
    <3>. QED
      BY <3>1, <3>2
  <2>. DEFINE y == x * r
              k == q * r
  <2>2. y \in Nat /\ k \in Nat /\ y + r <= k /\ k <= z
    BY <1>1, <2>1
  <2>. HIDE DEF y, k
  <2>3. y + v \in 0..(z - 1)
    BY <1>1, <1>7, <2>2
  <2>. QED
    BY <2>3 DEF y
<1>10. x * r + v \in NarrowInLow(m)
  BY <1>4, <1>5, <1>8, <1>9
<1>. QED
  BY <1>6, <1>10 DEF g, r

(* 147-154: the smaller of two. *)
LEMMA SmallerTyped ==
  ASSUME NEW m \in Nat, m <= 2^NARROW, NEW u \in NarrowInLow(m), NEW v \in NarrowBelow(m)
  PROVE  LET both == u % 2^(2 * NARROW)
             kept == (both \div 2^NARROW) * 2^NARROW + (v % 2^NARROW)
         IN  (IF both < kept THEN both ELSE kept) \in NarrowBelow(m)
<1>. DEFINE q == 2^NARROW
            both == u % 2^(2 * NARROW)
            d == both \div q
            c == v % q
            kept == d * q + c
<1>1. q \in Nat \ {0}
  BY NarrowSizes
<1>2. both \in NarrowBelow(m) /\ both \in Nat /\ v \in Nat
  BY NarrowTyped DEF NarrowInLow
<1>3. d \in Nat /\ c \in Nat
  <2>. HIDE DEF q, both
  <2>. QED
    BY <1>1, <1>2
<1>4. kept \in Nat
  <2>. HIDE DEF q, d, c
  <2>. QED
    BY <1>1, <1>3
<1>5. NarrowBelow(m) = 0..(m * q - 1) /\ m * q \in Nat
  BY <1>1 DEF NarrowBelow
<1>. DEFINE z == m * q
<1>6. both \in 0..(z - 1) /\ z \in Nat
  BY <1>2, <1>5
<1>. HIDE DEF both, kept, z
<1>7. (IF both < kept THEN both ELSE kept) \in 0..(z - 1)
  BY ONLY <1>2, <1>4, <1>6
<1>. QED
  BY <1>5, <1>7 DEF z, both, kept, d, c, q

-------------------------------------------------------------------------------
(* The two halves of the array, A and B, under the steps of cbrecursion.   *)

(* The largest of some numbers up to 15. *)
LEMMA MaxOfSome ==
  ASSUME NEW S \in SUBSET (0..15), NEW x \in S
  PROVE  Max(S) \in S /\ x <= Max(S)
<1>. DEFINE T == {15 - k : k \in S}
<1>1. T \in SUBSET Nat /\ T # {}
  OBVIOUS
<1>. HIDE DEF T
<1>2. L!Min(T) \in T /\ \A k \in T : L!Min(T) <= k
  BY <1>1, L!MinOfNaturals DEF L!PK_NROWS
<1>3. PICK y \in S : L!Min(T) = 15 - y
  BY <1>2 DEF T
<1>4. \A k \in S : y >= k
  <2>1. \A k \in S : 15 - k \in T
    BY DEF T
  <2>. QED
    BY <1>2, <1>3, <2>1
<1>. QED
  BY <1>4 DEF Max

(* The network for a call. *)
LEMMA NetworkOfCall ==
  ASSUME pi \in Perms, NEW v \in 1..W
  PROVE  Networks[v] = Network(v)
<1>. DEFINE S == {Log(f) : f \in Perms}
<1>1. W \in S /\ S \in SUBSET (0..15)
  BY PermIs DEF W
<1>. HIDE DEF S
<1>2. Max(S) \in 0..15 /\ W <= Max(S) /\ W \in 0..15
  BY <1>1, MaxOfSome
<1>3. v \in 1..Max(S)
  BY <1>2
<1>4. Networks = [b \in 1..Max(S) |-> Network(b)]
  BY DEF Networks, S
<1>. QED
  BY <1>3, <1>4

(* The size of the arrays of a call. *)
LEMMA SizesOfCall ==
  ASSUME pi \in Perms, NEW v \in 1..W
  PROVE  /\ W \in 2..15 /\ v \in 1..15 /\ v - 1 \in 0..15
         /\ 2^v \in Nat \ {0} /\ N \in Nat /\ 2^v <= N
         /\ 2^v <= 2^(WIDE - 1)
         /\ 2^(v - 1) \in Nat \ {0} /\ 2^v = 2 * 2^(v - 1)
<1>. DEFINE b == WIDE - 1
            u == v - 1
<1>1. W \in 2..15 /\ W \in 2..(WIDE - 1)
  BY PermIs, ControlBitsAssumption DEF W
<1>2. WIDE \in 1..16
  BY Widths
<1>3. v \in 0..15 /\ v \in 1..15 /\ W \in 0..15 /\ v <= W /\ b \in 0..15 /\ v <= b
      /\ u \in 0..15 /\ u + 1 = v
  BY <1>1, <1>2
<1>. HIDE DEF b, u
<1>4. 2^v \in Nat \ {0} /\ 2^W \in Nat \ {0} /\ 2^v <= 2^W
  BY ONLY <1>3, PowerUp
<1>5. 2^v <= 2^b
  BY ONLY <1>3, PowerUp
<1>6. 2^u \in Nat \ {0} /\ 2^(u + 1) = 2 * 2^u
  BY <1>3, PowerStep
<1>. QED
  BY <1>1, <1>3, <1>4, <1>5, <1>6 DEF N, b, u

(* temp with words of VA in A, words of VB in B, and the rest of it as it is. *)
Arrays(t, VA, VB) ==
  /\ t \in [0..(2 * N - 1) -> Words]
  /\ \A x \in 0..(n - 1) : t[x] \in VA
  /\ \A x \in n..(2 * n - 1) : t[x] \in VB
  /\ \A x \in (2 * n)..(2 * N - 1) : t[x] = temp[x]

(* A new array A, and a new array B. *)
LEMMA SetAFits ==
  ASSUME n \in Nat, N \in Nat, n <= N,
         NEW VA, NEW VB, NEW V0, Arrays(temp, V0, VB),
         NEW f, \A x \in 0..(n - 1) : f[x] \in VA /\ f[x] \in Words
  PROVE  Arrays(SetA(f), VA, VB)
<1>. DEFINE D == 0..(2 * N - 1)
            t == SetA(f)
<1>1. temp \in [D -> Words] /\ (\A x \in n..(2 * n - 1) : temp[x] \in VB)
  BY DEF Arrays
<1>2. t = [x \in D |-> IF x < n THEN f[x] ELSE temp[x]]
  BY <1>1 DEF SetA
<1>3. \A x \in D : x < n => x \in 0..(n - 1)
  OBVIOUS
<1>4. (\A x \in 0..(n - 1) : x \in D /\ x < n) /\ (\A x \in n..(2 * n - 1) : x \in D /\ ~ (x < n))
      /\ \A x \in (2 * n)..(2 * N - 1) : x \in D /\ ~ (x < n)
  OBVIOUS
<1>. HIDE DEF D, t
<1>5. t \in [D -> Words]
  BY <1>1, <1>2, <1>3
<1>6. (\A x \in 0..(n - 1) : t[x] \in VA) /\ (\A x \in n..(2 * n - 1) : t[x] \in VB)
      /\ \A x \in (2 * n)..(2 * N - 1) : t[x] = temp[x]
  BY <1>1, <1>2, <1>4
<1>. QED
  BY <1>5, <1>6 DEF Arrays, D, t

(* The same for B, when A may be new already. *)
LEMMA AndBFits ==
  ASSUME n \in Nat, N \in Nat, n <= N,
         NEW t, NEW VA, NEW VB, NEW V0, Arrays(t, VA, V0),
         NEW f, \A x \in 0..(n - 1) : f[x] \in VB /\ f[x] \in Words
  PROVE  Arrays(AndB(t, f), VA, VB)
<1>. DEFINE D == 0..(2 * N - 1)
            Z == n..(2 * n - 1)
            y == AndB(t, f)
<1>1. t \in [D -> Words] /\ (\A x \in 0..(n - 1) : t[x] \in VA)
      /\ \A x \in (2 * n)..(2 * N - 1) : t[x] = temp[x]
  BY DEF Arrays
<1>2. y = [x \in D |-> IF x \in Z THEN f[x - n] ELSE t[x]]
  BY <1>1 DEF AndB
<1>3. \A x \in Z : x - n \in 0..(n - 1) /\ x \in D
  OBVIOUS
<1>4. (\A x \in 0..(n - 1) : x \in D /\ x \notin Z) /\ \A x \in (2 * n)..(2 * N - 1) : x \in D /\ x \notin Z
  OBVIOUS
<1>. HIDE DEF D, y, Z
<1>5. \A x \in Z : y[x] \in VB /\ y[x] \in Words
  BY <1>2, <1>3
<1>6. \A x \in D : x \notin Z => y[x] = t[x] /\ t[x] \in Words
  BY <1>1, <1>2
<1>7. y \in [D -> Words]
  <2>1. \A x \in D : y[x] \in Words
    BY <1>5, <1>6
  <2>. QED
    BY <1>2, <2>1
<1>8. (\A x \in 0..(n - 1) : y[x] \in VA) /\ \A x \in (2 * n)..(2 * N - 1) : y[x] = temp[x]
  BY <1>1, <1>4, <1>6
<1>. QED
  BY <1>5, <1>7, <1>8 DEF Arrays, D, y, Z

(* int32_sort on A. *)
LEMMA SortAFits ==
  ASSUME pi \in Perms, w \in 1..W, NEW t, NEW VA \in SUBSET Words, NEW VB, Arrays(t, VA, VB)
  PROVE  Arrays(SortA(t), VA, VB)
<1>. DEFINE D == 0..(2 * N - 1)
            y == SortA(t)
            v == w
<1>1. /\ v \in 1..15 /\ n = 2^v /\ 2^v \in Nat \ {0} /\ N \in Nat /\ 2^v <= N
      /\ Networks[v] = Network(v)
  BY SizesOfCall, NetworkOfCall DEF n
<1>2. y = SortSlice(t, 0, Network(v))
  BY <1>1 DEF SortA
<1>3. /\ t \in [D -> Words] /\ (\A x \in 0..(n - 1) : t[x] \in VA)
      /\ (\A x \in n..(2 * n - 1) : t[x] \in VB)
      /\ \A x \in (2 * n)..(2 * N - 1) : t[x] = temp[x]
  BY DEF Arrays
<1>4. Words \in SUBSET Int
  BY DEF Words
<1>. HIDE DEF v, y
<1>. DEFINE m == 2^v
<1>5. m \in Nat \ {0} /\ m <= N /\ N \in Nat /\ n = m
  BY <1>1
<1>. HIDE DEF m
<1>6. 0..(0 + m - 1) \subseteq D /\ 0 + m - 1 = n - 1 /\ 0 \in Int
  BY ONLY <1>5
<1>. HIDE DEF D
<1>12. t \in [D -> Int] /\ VA \in SUBSET Int
  BY <1>3, <1>4
<1>7. y \in Kept(D, t, 0, m, VA)
  <2>1. \A k \in 0..(0 + 2^v - 1) : t[k] \in VA
    BY <1>3, <1>6 DEF m
  <2>2. 0..(0 + 2^v - 1) \subseteq D
    BY <1>6 DEF m
  <2>3. SortSlice(t, 0, Network(v)) \in Kept(D, t, 0, 2^v, VA)
    BY ONLY <1>1, <1>6, <1>12, <2>1, <2>2, SortKeeps
  <2>. QED
    BY <1>2, <2>3 DEF m
<1>8. /\ y \in [D -> Int] /\ (\A k \in 0..(n - 1) : y[k] \in VA)
      /\ \A k \in D \ (0..(n - 1)) : y[k] = t[k]
  BY <1>6, <1>7 DEF Kept
<1>9. y \in [D -> Words]
  <2>1. \A x \in D : y[x] \in Words
    BY <1>3, <1>8
  <2>. QED
    BY <1>8, <2>1
<1>10. (\A x \in n..(2 * n - 1) : x \in D \ (0..(n - 1)))
       /\ \A x \in (2 * n)..(2 * N - 1) : x \in D \ (0..(n - 1))
  BY <1>5 DEF D
<1>11. (\A x \in n..(2 * n - 1) : y[x] \in VB) /\ \A x \in (2 * n)..(2 * N - 1) : y[x] = temp[x]
  BY <1>3, <1>8, <1>10
<1>. QED
  BY <1>8, <1>9, <1>11 DEF Arrays, D, y

(* int32_sort on B. *)
LEMMA SortBFits ==
  ASSUME pi \in Perms, w \in 1..W, NEW t, NEW VA, NEW VB \in SUBSET Words, Arrays(t, VA, VB)
  PROVE  Arrays(SortB(t), VA, VB)
<1>. DEFINE D == 0..(2 * N - 1)
            y == SortB(t)
            v == w
<1>1. /\ v \in 1..15 /\ n = 2^v /\ 2^v \in Nat \ {0} /\ N \in Nat /\ 2^v <= N
      /\ Networks[v] = Network(v)
  BY SizesOfCall, NetworkOfCall DEF n
<1>2. y = SortSlice(t, n, Network(v))
  BY <1>1 DEF SortB
<1>3. /\ t \in [D -> Words] /\ (\A x \in 0..(n - 1) : t[x] \in VA)
      /\ (\A x \in n..(2 * n - 1) : t[x] \in VB)
      /\ \A x \in (2 * n)..(2 * N - 1) : t[x] = temp[x]
  BY DEF Arrays
<1>4. Words \in SUBSET Int
  BY DEF Words
<1>. HIDE DEF v, y
<1>. DEFINE m == 2^v
<1>5. m \in Nat \ {0} /\ m <= N /\ N \in Nat /\ n = m
  BY <1>1
<1>. HIDE DEF m
<1>6. n \in Int /\ n..(n + m - 1) \subseteq D /\ n + m - 1 = 2 * n - 1
  BY ONLY <1>5
<1>. HIDE DEF D
<1>12. t \in [D -> Int] /\ VB \in SUBSET Int
  BY <1>3, <1>4
<1>7. y \in Kept(D, t, n, m, VB)
  <2>1. \A k \in n..(n + 2^v - 1) : t[k] \in VB
    BY <1>3, <1>6 DEF m
  <2>2. n..(n + 2^v - 1) \subseteq D
    BY <1>6 DEF m
  <2>3. SortSlice(t, n, Network(v)) \in Kept(D, t, n, 2^v, VB)
    BY ONLY <1>1, <1>6, <1>12, <2>1, <2>2, SortKeeps
  <2>. QED
    BY <1>2, <2>3 DEF m
<1>8. /\ y \in [D -> Int] /\ (\A k \in n..(2 * n - 1) : y[k] \in VB)
      /\ \A k \in D \ (n..(2 * n - 1)) : y[k] = t[k]
  BY <1>6, <1>7 DEF Kept
<1>9. y \in [D -> Words]
  <2>1. \A x \in D : y[x] \in Words
    BY <1>3, <1>8
  <2>. QED
    BY <1>8, <2>1
<1>10. (\A x \in 0..(n - 1) : x \in D \ (n..(2 * n - 1)))
       /\ \A x \in (2 * n)..(2 * N - 1) : x \in D \ (n..(2 * n - 1))
  BY <1>5 DEF D
<1>11. (\A x \in 0..(n - 1) : y[x] \in VA) /\ \A x \in (2 * n)..(2 * N - 1) : y[x] = temp[x]
  BY <1>3, <1>8, <1>10
<1>. QED
  BY <1>8, <1>9, <1>11 DEF Arrays, D, y

-------------------------------------------------------------------------------
(* The invariant of cbrecursion.                                           *)

OutInv == out \subseteq 0..((2 * W - 1) * 2^(W - 1) - 1)

CbInv ==
  /\ pi \in Perms
  /\ temp \in [0..(2 * N - 1) -> Words]
  /\ OutInv
  /\ CallsInv
  /\ i \in 0..W
  /\ pc \in Working => WorkInv

(* Of the current call. *)
LEMMA CurrentCall ==
  ASSUME CbInv, calls # <<>>
  PROVE  /\ Call = calls[1] /\ Call \in CallSet /\ CallFits(Call) /\ 1 \in 1..Len(calls)
         /\ w \in 1..W /\ W \in 2..15 /\ n \in Nat \ {0} /\ N \in Nat /\ n <= N
         /\ n <= 2^(WIDE - 1)
         /\ n = 2^w /\ n = 2 * 2^(w - 1) /\ 2^(w - 1) \in Nat \ {0}
<1>1. calls \in Seq(CallSet) /\ pi \in Perms
  BY DEF CbInv, CallsInv
<1>2. Call = calls[1] /\ 1 \in 1..Len(calls) /\ calls[1] \in CallSet
  BY <1>1 DEF Call
<1>3. CallFits(calls[1])
  BY <1>2 DEF CbInv, CallsInv
<1>4. w \in 1..W
  BY <1>2 DEF CallSet, w
<1>. QED
  BY <1>1, <1>2, <1>3, <1>4, SizesOfCall DEF n

(* The permutation of the current call. *)
LEMMA PermTyped ==
  ASSUME CbInv, calls # <<>>, NEW x \in 0..(n - 1)
  PROVE  perm(x) \in 0..(n - 1)
<1>1. /\ Call \in CallSet /\ CallFits(Call) /\ w \in 1..W /\ n \in Nat \ {0}
      /\ n <= 2^(WIDE - 1) /\ n = 2^w /\ n = 2 * 2^(w - 1) /\ 2^(w - 1) \in Nat \ {0}
      /\ pi \in Perms
  BY CurrentCall DEF CbInv
<1>2. CASE Call.off = 0
  <2>1. w = W
    BY <1>1, <1>2 DEF CallFits, w
  <2>2. n = 2^W
    BY <1>1, <2>1
  <2>3. pi[x] \in 0..(n - 1)
    BY <1>1, <2>2, PermIs DEF W
  <2>. QED
    BY <1>2, <2>3 DEF perm, Image
<1>3. CASE Call.off # 0
  <2>. DEFINE h == 2^(w - 1)
              y == Call.off + x \div 2
  <2>1. \A k \in Call.off..(Call.off + h - 1) : temp[k] \in FieldsBelow(n)
    BY <1>1, <1>3 DEF CallFits, w
  <2>2. Call.off \in Nat /\ h \in Nat \ {0} /\ n = 2 * h
    BY <1>1 DEF CallSet
  <2>. HIDE DEF h
  <2>3. x \div 2 \in 0..(h - 1)
    BY <2>2
  <2>4. y \in Call.off..(Call.off + h - 1)
    BY <2>2, <2>3
  <2>5. temp[y] \in FieldsBelow(n)
    BY <2>1, <2>4
  <2>. HIDE DEF y
  <2>6. Low(temp[y]) \in 0..(n - 1) /\ High(temp[y]) \in 0..(n - 1)
    BY <1>1, <2>5, FieldsTyped
  <2>. QED
    BY <1>3, <2>6 DEF perm, Image, y
<1>. QED
  BY <1>2, <1>3

(* A step inside a call. *)
LEMMA WorkStep ==
  ASSUME CbInv, calls # <<>>, w >= 2, pi' = pi, calls' = calls, OutInv', i' \in 0..W,
         NEW V, NEW Z, Arrays(temp', V, Z),
         pc' \in Working => V = InA(pc') /\ Z = InB(pc') /\ RoundFits(pc', i')
  PROVE  CbInv'
<1>1. W' = W /\ N' = N /\ Call' = Call /\ w' = w /\ n' = n
  BY DEF W, N, Call, w, n
<1>2. /\ temp' \in [0..(2 * N - 1) -> Words]
      /\ (\A x \in 0..(n - 1) : temp'[x] \in V)
      /\ (\A x \in n..(2 * n - 1) : temp'[x] \in Z)
      /\ \A x \in (2 * n)..(2 * N - 1) : temp'[x] = temp[x]
  BY DEF Arrays
<1>3. pi' \in Perms /\ temp' \in [0..(2 * N' - 1) -> Words] /\ i' \in 0..W'
  BY <1>1, <1>2 DEF CbInv
<1>4. /\ calls \in Seq(CallSet) /\ (\A k \in 1..Len(calls) : CallFits(calls[k]))
      /\ \A j, k \in 1..Len(calls) : j < k => 2 * 2^calls[j].w <= calls[k].off
  BY DEF CbInv, CallsInv
<1>5. /\ Call = calls[1] /\ n = 2^w /\ n \in Nat \ {0} /\ N \in Nat /\ 1 \in 1..Len(calls)
  BY CurrentCall
<1>6. ASSUME NEW k \in 1..Len(calls)  PROVE CallFits(calls[k])'
  <2>. DEFINE c == calls[k]
              e == 2^(c.w - 1)
  <2>1. CallFits(c) /\ c \in CallSet
    BY <1>4
  <2>2. c.off # 0 => 2 * n <= c.off
    <3>1. CASE k = 1
      BY <1>5, <2>1, <3>1 DEF CallFits, w
    <3>2. CASE k # 1
      <4>1. 1 < k
        BY <3>2
      <4>2. 2 * 2^calls[1].w <= calls[k].off
        BY <1>4, <1>5, <4>1
      <4>. QED
        BY <1>5, <4>2 DEF w
    <3>. QED
      BY <3>1, <3>2
  <2>3. c.off \in Nat /\ e \in Nat
    <3>1. c.w \in 1..W /\ pi \in Perms
      BY <2>1 DEF CallSet, CbInv
    <3>. QED
      BY <2>1, <3>1, SizesOfCall DEF CallSet
  <2>4. ASSUME c.off # 0  PROVE \A x \in c.off..(c.off + e - 1) : temp'[x] \in FieldsBelow(2^c.w)
    <3>1. c.off + e <= 2 * N /\ \A x \in c.off..(c.off + e - 1) : temp[x] \in FieldsBelow(2^c.w)
      BY <2>1, <2>4 DEF CallFits
    <3>2. \A x \in c.off..(c.off + e - 1) : x \in (2 * n)..(2 * N - 1)
      <4>. HIDE DEF e
      <4>. DEFINE d == c.off
      <4>1. d \in Nat /\ 2 * n <= d /\ d + e <= 2 * N /\ e \in Nat /\ n \in Nat /\ N \in Nat
        BY <1>5, <2>2, <2>3, <2>4, <3>1
      <4>. HIDE DEF d
      <4>2. \A x \in d..(d + e - 1) : x \in (2 * n)..(2 * N - 1)
        BY <4>1
      <4>. QED
        BY <4>2 DEF d
    <3>. HIDE DEF c, e
    <3>. QED
      BY <1>2, <3>1, <3>2
  <2>5. FieldsBelow(2^c.w)' = FieldsBelow(2^c.w)
    BY DEF FieldsBelow
  <2>6. c' = c
    OBVIOUS
  <2>. QED
    BY <1>1, <2>1, <2>4, <2>5, <2>6 DEF CallFits
<1>7. CallsInv'
  <2>1. CallSet' = CallSet
    BY <1>1 DEF CallSet
  <2>. QED
    BY <1>4, <1>6, <2>1 DEF CallsInv
<1>8. ASSUME pc' \in Working  PROVE WorkInv'
  <2>1. InA(pc)' = V /\ InB(pc)' = Z
    BY <1>1, <1>8 DEF InA, InB, FieldsBelow, NarrowBelow, NarrowInLow
  <2>2. RoundFits(pc, i)'
    BY <1>1, <1>8 DEF RoundFits
  <2>. QED
    BY <1>1, <1>2, <2>1, <2>2 DEF WorkInv
<1>. QED
  BY <1>3, <1>7, <1>8 DEF CbInv

-------------------------------------------------------------------------------
(* The steps inside a call.                                                *)

LEMMA FieldsAreWords ==
  ASSUME NEW m \in Nat, m <= 2^(WIDE - 1)
  PROVE  FieldsBelow(m) \in SUBSET Words
BY FieldsTyped

(* At a step of a call. *)
LEMMA Here ==
  ASSUME CbInv, pc \in Working
  PROVE  /\ calls # <<>> /\ w >= 2 /\ RoundFits(pc, i) /\ pi \in Perms
         /\ Arrays(temp, InA(pc), InB(pc))
         /\ \A x \in 0..(n - 1) : A(x) \in InA(pc) /\ B(x) \in InB(pc)
<1>1. /\ calls # <<>> /\ w >= 2 /\ RoundFits(pc, i) /\ pi \in Perms
      /\ temp \in [0..(2 * N - 1) -> Words]
      /\ (\A x \in 0..(n - 1) : temp[x] \in InA(pc))
      /\ \A x \in n..(2 * n - 1) : temp[x] \in InB(pc)
  BY DEF CbInv, WorkInv
<1>2. n \in Nat
  BY <1>1, CurrentCall
<1>3. \A x \in 0..(n - 1) : n + x \in n..(2 * n - 1)
  BY <1>2
<1>4. \A x \in 0..(n - 1) : A(x) \in InA(pc) /\ B(x) \in InB(pc)
  BY <1>1, <1>3 DEF A, B
<1>5. Arrays(temp, InA(pc), InB(pc))
  BY <1>1 DEF Arrays
<1>. QED
  BY <1>1, <1>4, <1>5

(* A step that leaves out alone. *)
LEMMA SameOut ==
  ASSUME CbInv, pi' = pi, out' = out
  PROVE  OutInv'
BY DEF CbInv, OutInv, W

(* New words for A, and for B. *)
LEMMA NewA ==
  ASSUME CbInv, calls # <<>>, NEW V0, NEW Z, Arrays(temp, V0, Z),
         NEW V \in SUBSET Words, NEW f, \A x \in 0..(n - 1) : f[x] \in V
  PROVE  Arrays(SetA(f), V, Z)
<1>1. n \in Nat /\ N \in Nat /\ n <= N
  BY CurrentCall
<1>2. \A x \in 0..(n - 1) : f[x] \in V /\ f[x] \in Words
  OBVIOUS
<1>. QED
  BY ONLY <1>1, <1>2, Arrays(temp, V0, Z), SetAFits

(* A step that sorts A. *)
LEMMA SortedA ==
  ASSUME CbInv, calls # <<>>, NEW t, NEW V \in SUBSET Words, NEW Z, Arrays(t, V, Z)
  PROVE  Arrays(SortA(t), V, Z)
<1>1. pi \in Perms /\ w \in 1..W
  BY CurrentCall DEF CbInv
<1>. QED
  BY <1>1, SortAFits

(* A step that writes B. *)
LEMMA NewB ==
  ASSUME CbInv, calls # <<>>, NEW t, NEW V, NEW Z0, Arrays(t, V, Z0),
         NEW Z \in SUBSET Words, NEW f, \A x \in 0..(n - 1) : f[x] \in Z
  PROVE  Arrays(AndB(t, f), V, Z)
<1>1. n \in Nat /\ N \in Nat /\ n <= N
  BY CurrentCall
<1>2. \A x \in 0..(n - 1) : f[x] \in Z /\ f[x] \in Words
  OBVIOUS
<1>. QED
  BY ONLY <1>1, <1>2, Arrays(t, V, Z0), AndBFits

(* A step that sorts B. *)
LEMMA SortedB ==
  ASSUME CbInv, calls # <<>>, NEW t, NEW V, NEW Z \in SUBSET Words, Arrays(t, V, Z)
  PROVE  Arrays(SortB(t), V, Z)
<1>1. pi \in Perms /\ w \in 1..W
  BY CurrentCall DEF CbInv
<1>. QED
  BY <1>1, SortBFits

(* What the words of a call are made of. *)
LEMMA FieldsOfCall ==
  ASSUME CbInv, calls # <<>>
  PROVE  /\ n \in Nat /\ FieldsBelow(n) \in SUBSET Words
         /\ \A v \in FieldsBelow(n) : Low(v) \in 0..(n - 1) /\ High(v) \in 0..(n - 1) /\ v \in Nat
         /\ \A h, x \in 0..(n - 1) : Word(h, x) \in FieldsBelow(n)
         /\ \A h \in FieldsBelow(n), x \in 0..(n - 1) : Word(h, x) \in FieldsBelow(n)
         /\ \A x \in 0..(n - 1) : Xor1(x) \in 0..(n - 1)
<1>1. n \in Nat /\ n <= 2^(WIDE - 1) /\ n = 2 * 2^(w - 1) /\ 2^(w - 1) \in Nat
  BY CurrentCall
<1>2. ASSUME NEW x \in 0..(n - 1)  PROVE Xor1(x) \in 0..(n - 1)
  <2>. DEFINE h == 2^(w - 1)
  <2>1. h \in Nat /\ x \in 0..(2 * h - 1) /\ n = 2 * h
    BY <1>1
  <2>. HIDE DEF h
  <2>2. CASE x % 2 = 0
    <3>1. x + 1 \in 0..(2 * h - 1)
      BY ONLY <2>1, <2>2
    <3>. QED
      BY <2>1, <2>2, <3>1 DEF Xor1
  <2>3. CASE x % 2 # 0
    <3>1. x - 1 \in 0..(2 * h - 1)
      BY ONLY <2>1, <2>3
    <3>. QED
      BY <2>1, <2>3, <3>1 DEF Xor1
  <2>. QED
    BY <2>2, <2>3
<1>3. FieldsBelow(n) \in SUBSET Words
  BY <1>1, FieldsAreWords
<1>4. \A v \in FieldsBelow(n) : Low(v) \in 0..(n - 1) /\ High(v) \in 0..(n - 1) /\ v \in Nat
  BY <1>1, FieldsTyped
<1>5. \A h, x \in 0..(n - 1) : Word(h, x) \in FieldsBelow(n)
  BY <1>1, WordTyped
<1>6. \A h \in FieldsBelow(n), x \in 0..(n - 1) : Word(h, x) \in FieldsBelow(n)
  BY <1>1, WordTyped
<1>. QED
  BY <1>1, <1>2, <1>3, <1>4, <1>5, <1>6

(* The same for the narrow fields. *)
LEMMA NarrowOfCall ==
  ASSUME CbInv, calls # <<>>, w <= NARROW
  PROVE  /\ n <= 2^NARROW /\ NarrowBelow(n) \in SUBSET Words
         /\ \A v \in NarrowBelow(n) : v \in Nat
<1>1. w \in 1..W /\ W \in 2..15 /\ n = 2^w /\ n \in Nat
  BY CurrentCall
<1>2. w \in 0..15 /\ NARROW \in 0..15 /\ w <= NARROW
  BY <1>1, Widths
<1>3. n <= 2^NARROW
  BY <1>1, <1>2, PowerUp
<1>. QED
  BY <1>1, <1>3, NarrowTyped

(* temp as a call finds it. *)
LEMMA AnyWords ==
  ASSUME CbInv, calls # <<>>
  PROVE  Arrays(temp, Words, Words) /\ pi \in Perms
<1>1. n \in Nat /\ N \in Nat /\ n <= N /\ n = 2^w /\ n # 0
  BY CurrentCall
<1>2. temp \in [0..(2 * N - 1) -> Words] /\ pi \in Perms
  BY DEF CbInv
<1>3. (\A x \in 0..(n - 1) : x \in 0..(2 * N - 1)) /\ \A x \in n..(2 * n - 1) : x \in 0..(2 * N - 1)
  BY <1>1
<1>. QED
  BY <1>2, <1>3 DEF Arrays

(* 92-106 *)
LEMMA PibarKeeps ==
  ASSUME CbInv, Pibar
  PROVE  CbInv'
<1>. DEFINE f == [x \in Xs |-> Word(Xor1(perm(x)), perm(Xor1(x)))]
<1>1. /\ calls # <<>> /\ w > 1 /\ w \in 1..W /\ W \in 2..15
      /\ temp' = SortA(SetA(f)) /\ pc' = "pairs" /\ i' = i /\ i \in 0..W
      /\ pi' = pi /\ calls' = calls /\ out' = out
  BY CurrentCall DEF Pibar, Goto, CbInv
<1>2. \A x \in 0..(n - 1) : f[x] \in FieldsBelow(n)
  <2>1. ASSUME NEW x \in 0..(n - 1)  PROVE Word(Xor1(perm(x)), perm(Xor1(x))) \in FieldsBelow(n)
    <3>1. Xor1(x) \in 0..(n - 1) /\ perm(x) \in 0..(n - 1)
      BY <1>1, FieldsOfCall, PermTyped
    <3>2. Xor1(perm(x)) \in 0..(n - 1) /\ perm(Xor1(x)) \in 0..(n - 1)
      BY <1>1, <3>1, FieldsOfCall, PermTyped
    <3>. QED
      BY <1>1, <3>2, FieldsOfCall
  <2>. QED
    BY <2>1 DEF Xs
<1>. HIDE DEF f
<1>3. FieldsBelow(n) \in SUBSET Words
  BY <1>1, FieldsOfCall
<1>4. Arrays(SetA(f), FieldsBelow(n), Words)
  BY <1>1, <1>2, <1>3, AnyWords, NewA
<1>5. Arrays(temp', FieldsBelow(n), Words)
  BY <1>1, <1>3, <1>4, SortedA
<1>6. OutInv'
  BY <1>1, SameOut
<1>7. InA(pc') = FieldsBelow(n) /\ InB(pc') = Words /\ RoundFits(pc', i')
  BY <1>1 DEF InA, InB, RoundFits, Narrow, Wide
<1>8. i' \in 0..W /\ w >= 2
  BY <1>1
<1>. QED
  BY <1>1, <1>5, <1>6, <1>7, <1>8, WorkStep

(* 108-122 *)
LEMMA InvertKeeps ==
  ASSUME CbInv, Invert
  PROVE  CbInv'
<1>. DEFINE c(x) == IF x < Low(A(x)) THEN x ELSE Low(A(x))
            f == [x \in Xs |-> Word(A(x), x)]
            g == [x \in Xs |-> Word(Low(A(x)), c(x))]
            F == FieldsBelow(n)
<1>1. /\ temp' = SortA(AndB(SetA(f), g)) /\ pc = "pairs" /\ pc' = "square" /\ i' = i /\ i \in 0..W
      /\ pi' = pi /\ calls' = calls /\ out' = out
  BY DEF Invert, Goto, CbInv
<1>2. calls # <<>> /\ w >= 2 /\ Arrays(temp, F, Words) /\ \A x \in 0..(n - 1) : A(x) \in F
  BY <1>1, Here DEF Working, InA, InB, Narrow
<1>3. F \in SUBSET Words /\ n \in Nat
  BY <1>2, FieldsOfCall
<1>4. \A x \in 0..(n - 1) : f[x] \in F /\ g[x] \in F
  <2>1. ASSUME NEW x \in 0..(n - 1)  PROVE Word(A(x), x) \in F /\ Word(Low(A(x)), c(x)) \in F
    <3>1. A(x) \in F /\ Low(A(x)) \in 0..(n - 1)
      BY <1>2, FieldsOfCall
    <3>2. c(x) \in 0..(n - 1)
      BY <3>1
    <3>. HIDE DEF c
    <3>. QED
      BY <1>2, <3>1, <3>2, FieldsOfCall
  <2>. QED
    BY <2>1 DEF Xs
<1>. HIDE DEF f, g, F
<1>5. Arrays(SetA(f), F, Words)
  BY <1>2, <1>3, <1>4, NewA
<1>6. Arrays(AndB(SetA(f), g), F, F)
  BY <1>2, <1>3, <1>4, <1>5, NewB
<1>7. Arrays(temp', F, F)
  BY <1>1, <1>2, <1>3, <1>6, SortedA
<1>8. OutInv'
  BY <1>1, SameOut
<1>9. InA(pc') = F /\ InB(pc') = F /\ RoundFits(pc', i')
  BY <1>1 DEF InA, InB, RoundFits, Narrow, Wide, F
<1>. QED
  BY <1>1, <1>2, <1>7, <1>8, <1>9, WorkStep

(* 124-127 *)
LEMMA SquareKeeps ==
  ASSUME CbInv, Square
  PROVE  CbInv'
<1>. DEFINE f == [x \in Xs |-> Word(A(x), 0) + High(B(x))]
            F == FieldsBelow(n)
<1>1. /\ temp' = SortA(SetA(f)) /\ pc = "square" /\ pc' = "pack" /\ i' = i /\ i \in 0..W
      /\ pi' = pi /\ calls' = calls /\ out' = out
  BY DEF Square, Goto, CbInv
<1>2. /\ calls # <<>> /\ w >= 2 /\ Arrays(temp, F, F)
      /\ \A x \in 0..(n - 1) : A(x) \in F /\ B(x) \in F
  BY <1>1, Here DEF Working, InA, InB, Narrow
<1>3. F \in SUBSET Words /\ n \in Nat /\ n <= 2^(WIDE - 1)
  BY <1>2, FieldsOfCall, CurrentCall
<1>4. \A x \in 0..(n - 1) : f[x] \in F
  BY <1>2, <1>3, SumTyped DEF Xs
<1>. HIDE DEF f, F
<1>5. Arrays(SetA(f), F, F)
  BY <1>2, <1>3, <1>4, NewA
<1>6. Arrays(temp', F, F)
  BY <1>1, <1>2, <1>3, <1>5, SortedA
<1>7. OutInv'
  BY <1>1, SameOut
<1>8. InA(pc') = F /\ InB(pc') = F /\ RoundFits(pc', i')
  BY <1>1 DEF InA, InB, RoundFits, Narrow, Wide, F
<1>. QED
  BY <1>1, <1>2, <1>6, <1>7, <1>8, WorkStep

(* 129-132 *)
LEMMA PackNarrowKeeps ==
  ASSUME CbInv, PackNarrow
  PROVE  CbInv'
<1>. DEFINE g == [x \in Xs |-> Low(A(x)) * 2^NARROW + (B(x) % 2^NARROW)]
            F == FieldsBelow(n)
            Z == NarrowBelow(n)
<1>1. /\ temp' = AndB(temp, g) /\ pc = "pack" /\ pc' = "narrow" /\ i' = 1 /\ w <= NARROW
      /\ pi' = pi /\ calls' = calls /\ out' = out
  BY DEF PackNarrow, Goto, SetB
<1>2. /\ calls # <<>> /\ w >= 2 /\ Arrays(temp, F, F)
      /\ \A x \in 0..(n - 1) : A(x) \in F /\ B(x) \in F
  BY <1>1, Here DEF Working, InA, InB, Narrow
<1>3. Z \in SUBSET Words /\ n \in Nat /\ F \in SUBSET Words
  BY <1>1, <1>2, FieldsOfCall, NarrowOfCall
<1>4. \A x \in 0..(n - 1) : g[x] \in Z
  <2>1. ASSUME NEW x \in 0..(n - 1)  PROVE Low(A(x)) * 2^NARROW + (B(x) % 2^NARROW) \in Z
    <3>1. Low(A(x)) \in 0..(n - 1) /\ B(x) \in Nat
      BY <1>2, FieldsOfCall
    <3>. QED
      BY <1>3, <3>1, PackTyped
  <2>. QED
    BY <2>1 DEF Xs
<1>. HIDE DEF g, F, Z
<1>5. Arrays(temp', F, Z)
  BY <1>1, <1>2, <1>3, <1>4, NewB
<1>6. Arrays(temp', Words, Z)
  BY <1>3, <1>5 DEF Arrays
<1>7. OutInv'
  BY <1>1, SameOut
<1>8. w \in 1..W /\ W \in 2..15
  BY <1>2, CurrentCall
<1>9. InA(pc') = Words /\ InB(pc') = Z
  BY <1>1 DEF InA, InB, Narrow, Z
<1>10. i' \in 0..W /\ i' <= w - 1
  BY <1>1, <1>2, <1>8
<1>11. RoundFits(pc', i')
  BY <1>1, <1>2, <1>10 DEF RoundFits, Narrow, Wide
<1>. QED
  BY <1>1, <1>2, <1>6, <1>7, <1>9, <1>10, <1>11, WorkStep

(* 160-162 *)
LEMMA PackWideKeeps ==
  ASSUME CbInv, PackWide
  PROVE  CbInv'
<1>. DEFINE g == [x \in Xs |-> Word(A(x), Low(B(x)))]
            F == FieldsBelow(n)
<1>1. /\ temp' = AndB(temp, g) /\ pc = "pack" /\ pc' = "wide" /\ i' = 1
      /\ pi' = pi /\ calls' = calls /\ out' = out
  BY DEF PackWide, Goto, SetB
<1>2. /\ calls # <<>> /\ w >= 2 /\ Arrays(temp, F, F)
      /\ \A x \in 0..(n - 1) : A(x) \in F /\ B(x) \in F
  BY <1>1, Here DEF Working, InA, InB, Narrow
<1>3. n \in Nat /\ F \in SUBSET Words
  BY <1>2, FieldsOfCall
<1>4. \A x \in 0..(n - 1) : g[x] \in F
  <2>1. ASSUME NEW x \in 0..(n - 1)  PROVE Word(A(x), Low(B(x))) \in F
    BY <1>2, FieldsOfCall
  <2>. QED
    BY <2>1 DEF Xs
<1>. HIDE DEF g, F
<1>5. Arrays(temp', F, F)
  BY <1>1, <1>2, <1>3, <1>4, NewB
<1>6. Arrays(temp', Words, F)
  BY <1>3, <1>5 DEF Arrays
<1>7. OutInv'
  BY <1>1, SameOut
<1>8. w \in 1..W /\ W \in 2..15
  BY <1>2, CurrentCall
<1>9. InA(pc') = Words /\ InB(pc') = F
  BY <1>1 DEF InA, InB, Narrow, F
<1>10. i' \in 0..W /\ i' <= w - 1
  BY <1>1, <1>2, <1>8
<1>11. RoundFits(pc', i')
  BY <1>1, <1>2, <1>10 DEF RoundFits, Narrow, Wide
<1>. QED
  BY <1>1, <1>2, <1>6, <1>7, <1>9, <1>10, <1>11, WorkStep

(* 134-140 *)
LEMMA NarrowInvertKeeps ==
  ASSUME CbInv, NarrowInvert
  PROVE  CbInv'
<1>. DEFINE f == [x \in Xs |-> (B(x) \div 2^NARROW) * 2^WIDE + x]
            F == FieldsBelow(n)
            Z == NarrowBelow(n)
<1>1. /\ temp' = SortA(SetA(f)) /\ pc = "narrow" /\ pc' = "apply" /\ i' = i /\ i \in 0..W
      /\ i <= w - 2 /\ pi' = pi /\ calls' = calls /\ out' = out
  BY DEF NarrowInvert, Goto, CbInv, Rounds
<1>2. /\ calls # <<>> /\ w >= 2 /\ Arrays(temp, Words, Z) /\ w <= NARROW
      /\ \A x \in 0..(n - 1) : B(x) \in Z
  BY <1>1, Here DEF Working, InA, InB, Narrow, RoundFits
<1>3. F \in SUBSET Words /\ n \in Nat
  BY <1>2, FieldsOfCall
<1>4. \A x \in 0..(n - 1) : f[x] \in F
  BY <1>2, <1>3, NarrowHigh DEF Xs
<1>. HIDE DEF f, F, Z
<1>5. Arrays(SetA(f), F, Z)
  BY <1>2, <1>3, <1>4, NewA
<1>6. Arrays(temp', F, Z)
  BY <1>1, <1>2, <1>3, <1>5, SortedA
<1>7. OutInv'
  BY <1>1, SameOut
<1>8. InA(pc') = F /\ InB(pc') = Z /\ RoundFits(pc', i')
  BY <1>1, <1>2 DEF InA, InB, RoundFits, Narrow, Wide, F, Z
<1>. QED
  BY <1>1, <1>2, <1>6, <1>7, <1>8, WorkStep

(* 142-145 *)
LEMMA NarrowApplyKeeps ==
  ASSUME CbInv, NarrowApply
  PROVE  CbInv'
<1>. DEFINE f == [x \in Xs |-> (A(x) % 2^(2 * WIDE - 2 * NARROW)) * 2^(2 * NARROW) + B(x)]
            F == FieldsBelow(n)
            V == NarrowInLow(n)
            Z == NarrowBelow(n)
<1>1. /\ temp' = SortA(SetA(f)) /\ pc = "apply" /\ pc' = "minimum" /\ i' = i /\ i \in 0..W
      /\ pi' = pi /\ calls' = calls /\ out' = out
  BY DEF NarrowApply, Goto, CbInv
<1>2. /\ calls # <<>> /\ w >= 2 /\ Arrays(temp, F, Z) /\ w <= NARROW /\ i <= w - 2
      /\ \A x \in 0..(n - 1) : A(x) \in F /\ B(x) \in Z
  BY <1>1, Here DEF Working, InA, InB, Narrow, Wide, RoundFits
<1>3. n \in Nat /\ n <= 2^NARROW /\ V \in SUBSET Words
  BY <1>2, FieldsOfCall, NarrowOfCall DEF NarrowInLow
<1>4. \A x \in 0..(n - 1) : f[x] \in V
  BY <1>2, <1>3, ThreeFields DEF Xs
<1>. HIDE DEF f, F, V, Z
<1>5. Arrays(SetA(f), V, Z)
  BY <1>2, <1>3, <1>4, NewA
<1>6. Arrays(temp', V, Z)
  BY <1>1, <1>2, <1>3, <1>5, SortedA
<1>7. OutInv'
  BY <1>1, SameOut
<1>8. InA(pc') = V /\ InB(pc') = Z /\ RoundFits(pc', i')
  BY <1>1, <1>2 DEF InA, InB, RoundFits, Narrow, Wide, V, Z
<1>. QED
  BY <1>1, <1>2, <1>6, <1>7, <1>8, WorkStep

(* 147-154 *)
LEMMA NarrowMinimumKeeps ==
  ASSUME CbInv, NarrowMinimum
  PROVE  CbInv'
<1>. DEFINE both(x) == A(x) % 2^(2 * NARROW)
            kept(x) == (both(x) \div 2^NARROW) * 2^NARROW + (B(x) % 2^NARROW)
            g == [x \in Xs |-> IF both(x) < kept(x) THEN both(x) ELSE kept(x)]
            V == NarrowInLow(n)
            Z == NarrowBelow(n)
<1>1. /\ temp' = AndB(temp, g) /\ pc = "minimum" /\ pc' = "narrow" /\ i' = i + 1 /\ i \in 0..W
      /\ pi' = pi /\ calls' = calls /\ out' = out
  BY DEF NarrowMinimum, Goto, SetB, CbInv, LowTwo
<1>2. /\ calls # <<>> /\ w >= 2 /\ Arrays(temp, V, Z) /\ w <= NARROW /\ i <= w - 2
      /\ \A x \in 0..(n - 1) : A(x) \in V /\ B(x) \in Z
  BY <1>1, Here DEF Working, InA, InB, Narrow, Wide, RoundFits
<1>3. n \in Nat /\ n <= 2^NARROW /\ V \in SUBSET Words /\ Z \in SUBSET Words
  BY <1>2, FieldsOfCall, NarrowOfCall DEF NarrowInLow
<1>4. \A x \in 0..(n - 1) : g[x] \in Z
  <2>1. ASSUME NEW x \in 0..(n - 1)
        PROVE  (IF both(x) < kept(x) THEN both(x) ELSE kept(x)) \in Z
    BY <1>2, <1>3, SmallerTyped
  <2>. QED
    BY <2>1 DEF Xs
<1>. HIDE DEF g, V, Z
<1>5. Arrays(temp', V, Z)
  BY <1>1, <1>2, <1>3, <1>4, NewB
<1>6. Arrays(temp', Words, Z)
  BY <1>3, <1>5 DEF Arrays
<1>7. OutInv'
  BY <1>1, SameOut
<1>8. w \in 1..W /\ W \in 2..15
  BY <1>2, CurrentCall
<1>9. InA(pc') = Words /\ InB(pc') = Z
  BY <1>1 DEF InA, InB, Narrow, Z
<1>10. i' \in 0..W /\ i' <= w - 1
  BY <1>1, <1>2, <1>8
<1>11. RoundFits(pc', i')
  BY <1>1, <1>2, <1>10 DEF RoundFits, Narrow, Wide
<1>. QED
  BY <1>1, <1>2, <1>6, <1>7, <1>9, <1>10, <1>11, WorkStep

(* 163-169 *)
LEMMA WideInvertKeeps ==
  ASSUME CbInv, WideInvert
  PROVE  CbInv'
<1>. DEFINE f == [x \in Xs |-> Word(High(B(x)), x)]
            F == FieldsBelow(n)
<1>1. /\ temp' = SortA(SetA(f)) /\ pc = "wide" /\ pc' \in {"widesquare", "wideapply"}
      /\ i' = i /\ i \in 0..W
      /\ i <= w - 2 /\ pi' = pi /\ calls' = calls /\ out' = out
  BY DEF WideInvert, CbInv, Rounds
<1>2. /\ calls # <<>> /\ w >= 2 /\ Arrays(temp, Words, F)
      /\ \A x \in 0..(n - 1) : B(x) \in F
  BY <1>1, Here DEF Working, InA, InB, Narrow, Wide
<1>3. F \in SUBSET Words /\ n \in Nat
  BY <1>2, FieldsOfCall
<1>4. \A x \in 0..(n - 1) : f[x] \in F
  <2>1. ASSUME NEW x \in 0..(n - 1)  PROVE Word(High(B(x)), x) \in F
    BY <1>2, FieldsOfCall
  <2>. QED
    BY <2>1 DEF Xs
<1>. HIDE DEF f, F
<1>5. Arrays(SetA(f), F, F)
  BY <1>2, <1>3, <1>4, NewA
<1>6. Arrays(temp', F, F)
  BY <1>1, <1>2, <1>3, <1>5, SortedA
<1>7. OutInv'
  BY <1>1, SameOut
<1>8. InA(pc') = F /\ InB(pc') = F /\ RoundFits(pc', i')
  BY <1>1 DEF InA, InB, RoundFits, Narrow, Wide, F
<1>. QED
  BY <1>1, <1>2, <1>6, <1>7, <1>8, WorkStep

(* 171-181 *)
LEMMA WideSquareKeeps ==
  ASSUME CbInv, WideSquare
  PROVE  CbInv'
<1>. DEFINE f == [x \in Xs |-> Word(A(x), Low(B(x)))]
            g == [x \in Xs |-> Word(A(x), High(B(x)))]
            F == FieldsBelow(n)
<1>1. /\ temp' = SortB(AndB(SetA(f), g)) /\ pc = "widesquare" /\ pc' = "wideboth"
      /\ i' = i /\ i \in 0..W
      /\ pi' = pi /\ calls' = calls /\ out' = out
  BY DEF WideSquare, Goto, CbInv
<1>2. /\ calls # <<>> /\ w >= 2 /\ Arrays(temp, F, F) /\ i <= w - 2
      /\ \A x \in 0..(n - 1) : A(x) \in F /\ B(x) \in F
  BY <1>1, Here DEF Working, InA, InB, Narrow, Wide, RoundFits
<1>3. F \in SUBSET Words /\ n \in Nat
  BY <1>2, FieldsOfCall
<1>4. \A x \in 0..(n - 1) : f[x] \in F /\ g[x] \in F
  <2>1. ASSUME NEW x \in 0..(n - 1)
        PROVE  Word(A(x), Low(B(x))) \in F /\ Word(A(x), High(B(x))) \in F
    BY <1>2, FieldsOfCall
  <2>. QED
    BY <2>1 DEF Xs
<1>. HIDE DEF f, g, F
<1>5. Arrays(SetA(f), F, F)
  BY <1>2, <1>3, <1>4, NewA
<1>6. Arrays(AndB(SetA(f), g), F, F)
  BY <1>2, <1>3, <1>4, <1>5, NewB
<1>7. Arrays(temp', F, F)
  BY <1>1, <1>2, <1>3, <1>6, SortedB
<1>8. OutInv'
  BY <1>1, SameOut
<1>9. InA(pc') = F /\ InB(pc') = F /\ RoundFits(pc', i')
  BY <1>1, <1>2 DEF InA, InB, RoundFits, Narrow, Wide, F
<1>. QED
  BY <1>1, <1>2, <1>7, <1>8, <1>9, WorkStep

(* 182-188 *)
LEMMA WideBothKeeps ==
  ASSUME CbInv, WideBoth
  PROVE  CbInv'
<1>. DEFINE g == [x \in Xs |-> Word(B(x), Low(A(x)))]
            F == FieldsBelow(n)
<1>1. /\ temp' = SortA(AndB(temp, g)) /\ pc = "wideboth" /\ pc' = "wideminimum"
      /\ i' = i /\ i \in 0..W
      /\ pi' = pi /\ calls' = calls /\ out' = out
  BY DEF WideBoth, Goto, SetB, CbInv
<1>2. /\ calls # <<>> /\ w >= 2 /\ Arrays(temp, F, F) /\ i <= w - 2
      /\ \A x \in 0..(n - 1) : A(x) \in F /\ B(x) \in F
  BY <1>1, Here DEF Working, InA, InB, Narrow, Wide, RoundFits
<1>3. F \in SUBSET Words /\ n \in Nat
  BY <1>2, FieldsOfCall
<1>4. \A x \in 0..(n - 1) : g[x] \in F
  <2>1. ASSUME NEW x \in 0..(n - 1)  PROVE Word(B(x), Low(A(x))) \in F
    BY <1>2, FieldsOfCall
  <2>. QED
    BY <2>1 DEF Xs
<1>. HIDE DEF g, F
<1>5. Arrays(AndB(temp, g), F, F)
  BY <1>2, <1>3, <1>4, NewB
<1>6. Arrays(temp', F, F)
  BY <1>1, <1>2, <1>3, <1>5, SortedA
<1>7. OutInv'
  BY <1>1, SameOut
<1>8. InA(pc') = F /\ InB(pc') = F /\ RoundFits(pc', i')
  BY <1>1, <1>2 DEF InA, InB, RoundFits, Narrow, Wide, F
<1>. QED
  BY <1>1, <1>2, <1>6, <1>7, <1>8, WorkStep

(* 171-174, 188 *)
LEMMA WideApplyKeeps ==
  ASSUME CbInv, WideApply
  PROVE  CbInv'
<1>. DEFINE f == [x \in Xs |-> Word(A(x), Low(B(x)))]
            F == FieldsBelow(n)
<1>1. /\ temp' = SortA(SetA(f)) /\ pc = "wideapply" /\ pc' = "wideminimum"
      /\ i' = i /\ i \in 0..W
      /\ pi' = pi /\ calls' = calls /\ out' = out
  BY DEF WideApply, Goto, CbInv
<1>2. /\ calls # <<>> /\ w >= 2 /\ Arrays(temp, F, F) /\ i <= w - 2
      /\ \A x \in 0..(n - 1) : A(x) \in F /\ B(x) \in F
  BY <1>1, Here DEF Working, InA, InB, Narrow, Wide, RoundFits
<1>3. F \in SUBSET Words /\ n \in Nat
  BY <1>2, FieldsOfCall
<1>4. \A x \in 0..(n - 1) : f[x] \in F
  <2>1. ASSUME NEW x \in 0..(n - 1)  PROVE Word(A(x), Low(B(x))) \in F
    BY <1>2, FieldsOfCall
  <2>. QED
    BY <2>1 DEF Xs
<1>. HIDE DEF f, F
<1>5. Arrays(SetA(f), F, F)
  BY <1>2, <1>3, <1>4, NewA
<1>6. Arrays(temp', F, F)
  BY <1>1, <1>2, <1>3, <1>5, SortedA
<1>7. OutInv'
  BY <1>1, SameOut
<1>8. InA(pc') = F /\ InB(pc') = F /\ RoundFits(pc', i')
  BY <1>1, <1>2 DEF InA, InB, RoundFits, Narrow, Wide, F
<1>. QED
  BY <1>1, <1>2, <1>6, <1>7, <1>8, WorkStep

(* 190-196 *)
LEMMA WideMinimumKeeps ==
  ASSUME CbInv, WideMinimum
  PROVE  CbInv'
<1>. DEFINE cp(x) == Word(High(B(x)), Low(A(x)))
            g == [x \in Xs |-> IF cp(x) < B(x) THEN cp(x) ELSE B(x)]
            F == FieldsBelow(n)
<1>1. /\ temp' = AndB(temp, g) /\ pc = "wideminimum" /\ pc' = "wide" /\ i' = i + 1 /\ i \in 0..W
      /\ pi' = pi /\ calls' = calls /\ out' = out
  BY DEF WideMinimum, Goto, SetB, CbInv
<1>2. /\ calls # <<>> /\ w >= 2 /\ Arrays(temp, F, F) /\ i <= w - 2
      /\ \A x \in 0..(n - 1) : A(x) \in F /\ B(x) \in F
  BY <1>1, Here DEF Working, InA, InB, Narrow, Wide, RoundFits
<1>3. F \in SUBSET Words /\ n \in Nat
  BY <1>2, FieldsOfCall
<1>4. \A x \in 0..(n - 1) : g[x] \in F
  <2>1. ASSUME NEW x \in 0..(n - 1)  PROVE cp(x) \in F /\ B(x) \in F
    BY <1>2, FieldsOfCall
  <2>. QED
    BY <2>1 DEF Xs
<1>. HIDE DEF g, F
<1>5. Arrays(temp', F, F)
  BY <1>1, <1>2, <1>3, <1>4, NewB
<1>6. Arrays(temp', Words, F)
  BY <1>3, <1>5 DEF Arrays
<1>7. OutInv'
  BY <1>1, SameOut
<1>8. w \in 1..W /\ W \in 2..15
  BY <1>2, CurrentCall
<1>9. InA(pc') = Words /\ InB(pc') = F
  BY <1>1 DEF InA, InB, Narrow, F
<1>10. i' \in 0..W /\ i' <= w - 1
  BY <1>1, <1>2, <1>8
<1>11. RoundFits(pc', i')
  BY <1>1, <1>2, <1>10 DEF RoundFits, Narrow, Wide
<1>. QED
  BY <1>1, <1>2, <1>6, <1>7, <1>9, <1>10, <1>11, WorkStep

(* 156-158, 197-199 *)
LEMMA KeepMinimaKeeps ==
  ASSUME CbInv, KeepMinima
  PROVE  CbInv'
<1>. DEFINE k == IF pc = "narrow" THEN NARROW ELSE WIDE
            g == [x \in Xs |-> B(x) % 2^k]
<1>1. /\ temp' = AndB(temp, g) /\ pc \in {"narrow", "wide"} /\ pc' = "minima"
      /\ i' = i /\ i \in 0..W
      /\ pi' = pi /\ calls' = calls /\ out' = out
  BY DEF KeepMinima, Goto, SetB, CbInv
<1>2. /\ calls # <<>> /\ w >= 2 /\ Arrays(temp, InA(pc), InB(pc))
      /\ \A x \in 0..(n - 1) : B(x) \in InB(pc)
  BY <1>1, Here DEF Working, Narrow, Wide
<1>3. Arrays(temp, Words, Words) /\ n \in Nat
  BY <1>2, AnyWords, FieldsOfCall
<1>4. \A x \in 0..(n - 1) : g[x] \in Words
  <2>1. 2^k \in Nat \ {0}
    <3>1. 2^NARROW \in Nat \ {0} /\ 2^WIDE \in Nat \ {0}
      BY NarrowSizes, FieldSizes
    <3>. QED
      BY <3>1
  <2>. DEFINE p == 2^k
              z == 2^(2 * WIDE - 1)
  <2>2. z \in Nat
    BY NarrowSizes
  <2>3. ASSUME NEW x \in 0..(n - 1)  PROVE B(x) % p \in Words
    <3>1. B(x) \in 0..(z - 1)
      <4>1. n + x \in n..(2 * n - 1)
        BY <1>3
      <4>. QED
        BY <1>3, <4>1 DEF Arrays, B, Words
    <3>2. p \in Nat \ {0}
      BY <2>1
    <3>. DEFINE b == B(x)
    <3>. HIDE DEF p, z, b
    <3>3. b \in 0..(z - 1)
      BY <3>1 DEF b
    <3>4. b % p \in 0..b
      BY <2>2, <3>2, <3>3
    <3>5. b % p \in 0..(z - 1)
      BY <2>2, <3>3, <3>4
    <3>. QED
      BY <3>5 DEF b, z, Words
  <2>. QED
    BY <2>3 DEF Xs
<1>. HIDE DEF g, k
<1>5. Words \in SUBSET Words
  OBVIOUS
<1>6. Arrays(temp', Words, Words)
  BY <1>1, <1>2, <1>3, <1>4, <1>5, NewB
<1>7. OutInv'
  BY <1>1, SameOut
<1>8. InA(pc') = Words /\ InB(pc') = Words /\ RoundFits(pc', i')
  BY <1>1 DEF InA, InB, RoundFits, Narrow, Wide
<1>. QED
  BY <1>1, <1>2, <1>6, <1>7, <1>8, WorkStep

(* 202-214 *)
LEMMA InvertPiKeeps ==
  ASSUME CbInv, InvertPi
  PROVE  CbInv'
<1>. DEFINE f == [x \in Xs |-> Word(perm(x), x)]
            F == FieldsBelow(n)
<1>1. /\ temp' = SortA(SetA(f)) /\ pc = "minima" /\ pc' = "first" /\ i' = i /\ i \in 0..W
      /\ pi' = pi /\ calls' = calls /\ out' = out
  BY DEF InvertPi, Goto, CbInv
<1>2. calls # <<>> /\ w >= 2 /\ Arrays(temp, Words, Words)
  BY <1>1, Here DEF Working, InA, InB, Narrow
<1>3. F \in SUBSET Words /\ n \in Nat
  BY <1>2, FieldsOfCall
<1>4. \A x \in 0..(n - 1) : f[x] \in F
  <2>1. ASSUME NEW x \in 0..(n - 1)  PROVE Word(perm(x), x) \in F
    <3>1. perm(x) \in 0..(n - 1)
      BY <1>2, PermTyped
    <3>. QED
      BY <1>2, <3>1, FieldsOfCall
  <2>. QED
    BY <2>1 DEF Xs
<1>. HIDE DEF f, F
<1>5. Arrays(SetA(f), F, Words)
  BY <1>2, <1>3, <1>4, NewA
<1>6. Arrays(temp', F, Words)
  BY <1>1, <1>2, <1>3, <1>5, SortedA
<1>7. OutInv'
  BY <1>1, SameOut
<1>8. InA(pc') = F /\ InB(pc') = Words /\ RoundFits(pc', i')
  BY <1>1 DEF InA, InB, RoundFits, Narrow, Wide, F
<1>. QED
  BY <1>1, <1>2, <1>6, <1>7, <1>8, WorkStep

-------------------------------------------------------------------------------
(* Bits of out.                                                            *)

(* A row of out has 2^(W - 1) bits; a call writes in rows W - w, W + w - 2. *)
LEMMA RowOfCall ==
  ASSUME CbInv, calls # <<>>
  PROVE  /\ 2^(W - 1) \in Nat \ {0} /\ N = 2 * 2^(W - 1)
         /\ step \in Nat \ {0} /\ step * 2^(w - 1) = 2^(W - 1)
         /\ pos - (W - w) * 2^(W - 1) \in 0..(step - 1) /\ pos \in Nat
         /\ w \in 1..W /\ W \in 2..15
         /\ n \div 2 = 2^(w - 1) /\ 2^(w - 1) \in Nat \ {0}
<1>1. /\ Call \in CallSet /\ CallFits(Call) /\ w \in 1..W /\ W \in 2..15
      /\ n = 2^w /\ n = 2 * 2^(w - 1) /\ 2^(w - 1) \in Nat \ {0} /\ pi \in Perms
  BY CurrentCall DEF CbInv
<1>2. W \in 1..W
  BY <1>1
<1>3. 2^(W - 1) \in Nat \ {0} /\ N = 2 * 2^(W - 1)
  BY <1>1, <1>2, SizesOfCall DEF N
<1>4. step \in Nat \ {0} /\ pos \in Nat /\ step * 2^w = N
  BY <1>1 DEF CallSet, step, pos, CallFits, w
<1>5. pos - (W - w) * 2^(W - 1) \in 0..(step - 1)
  BY <1>1 DEF CallFits, pos, step, w
<1>. DEFINE e == 2^(w - 1)
            h == 2^(W - 1)
<1>6. 2^w = 2 * e /\ e \in Nat \ {0} /\ n = 2 * e
  BY <1>1
<1>7. step * (2 * e) = 2 * h /\ h \in Nat
  BY <1>3, <1>4, <1>6
<1>. HIDE DEF e, h
<1>8. step * e = h
  <2>1. \A x, y \in Nat : x * (2 * y) = 2 * (x * y)
    OBVIOUS
  <2>2. \A x, y \in Nat : 2 * x = 2 * y => x = y
    OBVIOUS
  <2>3. step * e \in Nat /\ step \in Nat /\ e \in Nat
    BY <1>4, <1>6
  <2>4. 2 * (step * e) = 2 * h
    BY <1>7, <2>1, <2>3
  <2>. QED
    BY <1>7, <2>2, <2>3, <2>4
<1>9. n \div 2 = e
  BY <1>6
<1>. QED
  BY <1>1, <1>3, <1>4, <1>5, <1>8, <1>9 DEF e, h

(* A place in a row of out. *)
LEMMA InRow ==
  ASSUME NEW h \in Nat \ {0}, NEW k \in Nat, NEW row \in 0..(k - 1), NEW x \in 0..(h - 1)
  PROVE  row * h + x \in 0..(k * h - 1)
<1>1. /\ \A y, z \in Nat : y * z \in Nat
      /\ \A y, z \in Nat : (y + z) * h = y * h + z * h
  OBVIOUS
<1>. DEFINE d == k - 1 - row
<1>2. d \in Nat /\ k = row + (d + 1) /\ row \in Nat
  OBVIOUS
<1>. HIDE DEF d
<1>3. k * h = row * h + (d * h + 1 * h) /\ row * h \in Nat /\ d * h \in Nat
  BY <1>1, <1>2
<1>. QED
  BY <1>3

(* The bits of a layer of a call. *)
LEMMA LayerInOut ==
  ASSUME CbInv, calls # <<>>, NEW from, NEW row \in 0..(2 * W - 2),
         from - row * 2^(W - 1) \in 0..(step - 1), from \in Int,
         NEW pairs \in SUBSET PairNos
  PROVE  Flipped(from, pairs) \subseteq 0..((2 * W - 1) * 2^(W - 1) - 1)
<1>. DEFINE h == 2^(W - 1)
            e == 2^(w - 1)
            k == 2 * W - 1
            r == from - row * h
<1>1. /\ h \in Nat \ {0} /\ e \in Nat \ {0} /\ step \in Nat \ {0} /\ step * e = h
      /\ PairNos = 0..(e - 1) /\ W \in 2..15
  BY RowOfCall DEF PairNos
<1>2. k \in Nat /\ row \in 0..(k - 1) /\ r \in 0..(step - 1)
  BY <1>1
<1>3. out \subseteq 0..(k * h - 1)
  BY DEF CbInv, OutInv
<1>. HIDE DEF h, e, k
<1>4. from = row * h + r
  BY <1>1, <1>2
<1>. HIDE DEF r
<1>5. ASSUME NEW m \in pairs  PROVE from + m * step \in 0..(k * h - 1)
  <2>1. m \in 0..(e - 1)
    BY <1>1
  <2>2. m * step + r \in 0..(e * step - 1)
    BY <1>1, <1>2, <2>1, InRow
  <2>3. e * step = h /\ m * step \in Nat
    BY <1>1, <2>1
  <2>4. row * h + (m * step + r) \in 0..(k * h - 1)
    BY <1>1, <1>2, <2>2, <2>3, InRow
  <2>5. row * h \in Nat /\ r \in Nat
    BY <1>1, <1>2
  <2>. QED
    BY <1>4, <2>3, <2>4, <2>5
<1>6. Flipped(from, pairs) \subseteq out \cup {from + m * step : m \in pairs}
  BY DEF Flipped, SymDiff
<1>7. Flipped(from, pairs) \subseteq 0..(k * h - 1)
  BY <1>3, <1>5, <1>6
<1>. QED
  BY <1>7 DEF k, h

(* 216-230 *)
LEMMA FirstLayerKeeps ==
  ASSUME CbInv, FirstLayer
  PROVE  CbInv'
<1>. DEFINE first == {m \in PairNos : B(2 * m) % 2 = 1}
            to(x) == IF x \div 2 \in first THEN Xor1(x) ELSE x
            g == [x \in Xs |-> Word(A(x), to(x))]
            F == FieldsBelow(n)
<1>1. /\ temp' = SortB(AndB(temp, g)) /\ pc = "first" /\ pc' = "last" /\ i' = i /\ i \in 0..W
      /\ pi' = pi /\ calls' = calls /\ out' = Flipped(pos, first)
  BY DEF FirstLayer, Goto, SetB, CbInv
<1>2. first \in SUBSET PairNos
  OBVIOUS
<1>. HIDE DEF first
<1>3. calls # <<>> /\ w >= 2 /\ Arrays(temp, F, Words) /\ \A x \in 0..(n - 1) : A(x) \in F
  BY <1>1, Here DEF Working, InA, InB, Narrow
<1>4. F \in SUBSET Words /\ n \in Nat
  BY <1>3, FieldsOfCall
<1>5. \A x \in 0..(n - 1) : g[x] \in F
  <2>1. ASSUME NEW x \in 0..(n - 1)  PROVE Word(A(x), to(x)) \in F
    <3>1. to(x) \in 0..(n - 1)
      BY <1>3, FieldsOfCall
    <3>. HIDE DEF to
    <3>. QED
      BY <1>3, <3>1, FieldsOfCall
  <2>. QED
    BY <2>1 DEF Xs
<1>. HIDE DEF g, F
<1>6. Arrays(AndB(temp, g), F, F)
  BY <1>3, <1>4, <1>5, NewB
<1>7. Arrays(temp', F, F)
  BY <1>1, <1>3, <1>4, <1>6, SortedB
<1>8. OutInv'
  <2>1. W' = W
    BY <1>1 DEF W
  <2>2. W - w \in 0..(2 * W - 2) /\ pos \in Int /\ pos - (W - w) * 2^(W - 1) \in 0..(step - 1)
    <3>1. w \in 1..W /\ W \in 2..15
      BY <1>3, RowOfCall
    <3>2. pos \in Nat /\ pos - (W - w) * 2^(W - 1) \in 0..(step - 1)
      BY <1>3, RowOfCall
    <3>3. W - w \in 0..(2 * W - 2)
      BY <3>1
    <3>. QED
      BY <3>2, <3>3
  <2>3. Flipped(pos, first) \subseteq 0..((2 * W - 1) * 2^(W - 1) - 1)
    BY <1>2, <1>3, <2>2, LayerInOut
  <2>. QED
    BY <1>1, <2>1, <2>3 DEF OutInv
<1>9. InA(pc') = F /\ InB(pc') = F /\ RoundFits(pc', i')
  BY <1>1 DEF InA, InB, RoundFits, Narrow, Wide, F
<1>. QED
  BY <1>1, <1>3, <1>7, <1>8, <1>9, WorkStep

(* 234-248 *)
LEMMA LastLayerKeeps ==
  ASSUME CbInv, LastLayer
  PROVE  CbInv'
<1>. DEFINE last == {m \in PairNos : B(2 * m) % 2 = 1}
            to(x) == IF x \div 2 \in last THEN Xor1(x) ELSE x
            f == [x \in Xs |-> Word(to(x), Low(B(x)))]
            F == FieldsBelow(n)
<1>1. /\ temp' = SortA(SetA(f)) /\ pc = "last" /\ pc' = "split" /\ i' = i /\ i \in 0..W
      /\ pi' = pi /\ calls' = calls /\ out' = Flipped(LastLayerAt, last)
  BY DEF LastLayer, Goto, CbInv
<1>2. last \in SUBSET PairNos
  OBVIOUS
<1>. HIDE DEF last
<1>3. calls # <<>> /\ w >= 2 /\ Arrays(temp, F, F) /\ \A x \in 0..(n - 1) : B(x) \in F
  BY <1>1, Here DEF Working, InA, InB, Narrow
<1>4. F \in SUBSET Words /\ n \in Nat
  BY <1>3, FieldsOfCall
<1>5. \A x \in 0..(n - 1) : f[x] \in F
  <2>1. ASSUME NEW x \in 0..(n - 1)  PROVE Word(to(x), Low(B(x))) \in F
    <3>1. to(x) \in 0..(n - 1)
      BY <1>3, FieldsOfCall
    <3>2. Low(B(x)) \in 0..(n - 1)
      BY <1>3, FieldsOfCall
    <3>. HIDE DEF to
    <3>. QED
      BY <1>3, <3>1, <3>2, FieldsOfCall
  <2>. QED
    BY <2>1 DEF Xs
<1>. HIDE DEF f, F
<1>6. Arrays(SetA(f), F, F)
  BY <1>3, <1>4, <1>5, NewA
<1>7. Arrays(temp', F, F)
  BY <1>1, <1>3, <1>4, <1>6, SortedA
<1>8. Arrays(temp', F, Words)
  BY <1>4, <1>7 DEF Arrays
<1>9. OutInv'
  <2>1. W' = W
    BY <1>1 DEF W
  <2>. DEFINE h == 2^(W - 1)
              e == 2^(w - 1)
              p == pos - (W - w) * h
              row == W + w - 2
  <2>2. /\ h \in Nat \ {0} /\ e \in Nat \ {0} /\ step \in Nat \ {0} /\ step * e = h /\ pos \in Nat
        /\ p \in 0..(step - 1) /\ w \in 1..W /\ W \in 2..15 /\ n \div 2 = e
    BY <1>3, RowOfCall
  <2>3. LastLayerAt = pos + (2 * w - 2) * step * e
    BY <2>2 DEF LastLayerAt
  <2>. HIDE DEF h, e
  <2>4. (2 * w - 2) * step * e = (2 * w - 2) * h
    <3>1. \A x, y, z \in Nat : (x * y) * z = x * (y * z)
      OBVIOUS
    <3>2. 2 * w - 2 \in Nat /\ step \in Nat /\ e \in Nat
      BY <2>2
    <3>. QED
      BY <2>2, <3>1, <3>2
  <2>5. row \in 0..(2 * W - 2) /\ LastLayerAt \in Int /\ LastLayerAt - row * h = p
    <3>1. \A x, y \in Int : x * h + y * h = (x + y) * h
      BY <2>2
    <3>2. W - w \in Int /\ 2 * w - 2 \in Int /\ (W - w) + (2 * w - 2) = row /\ row \in 0..(2 * W - 2)
      BY <2>2
    <3>3. (W - w) * h + (2 * w - 2) * h = row * h
      BY <3>1, <3>2
    <3>4. (W - w) * h \in Int /\ (2 * w - 2) * h \in Int /\ row * h \in Int
      BY <2>2, <3>2
    <3>5. LastLayerAt = pos + (2 * w - 2) * h
      BY <2>3, <2>4
    <3>. QED
      BY <2>2, <3>2, <3>3, <3>4, <3>5
  <2>6. LastLayerAt - row * 2^(W - 1) \in 0..(step - 1)
    BY <2>2, <2>5 DEF h
  <2>. HIDE DEF row
  <2>7. Flipped(LastLayerAt, last) \subseteq 0..((2 * W - 1) * 2^(W - 1) - 1)
    BY <1>2, <1>3, <2>5, <2>6, LayerInOut
  <2>. QED
    BY <1>1, <2>1, <2>7 DEF OutInv
<1>10. InA(pc') = F /\ InB(pc') = Words /\ RoundFits(pc', i')
  BY <1>1 DEF InA, InB, RoundFits, Narrow, Wide, F
<1>. QED
  BY <1>1, <1>3, <1>8, <1>9, <1>10, WorkStep

-------------------------------------------------------------------------------
(* Between two calls.                                                      *)

(* A step that leaves the calls and the words alone. *)
LEMMA CallsStay ==
  ASSUME CbInv, UNCHANGED <<pi, temp, calls, i>>, OutInv', pc' \notin Working
  PROVE  CbInv'
<1>1. W' = W /\ N' = N
  BY DEF W, N
<1>2. CallsInv'
  <2>1. CallSet' = CallSet
    BY <1>1 DEF CallSet
  <2>2. ASSUME NEW c, CallFits(c)  PROVE CallFits(c)'
    BY <1>1, <2>2 DEF CallFits, FieldsBelow
  <2>. QED
    BY <2>1, <2>2 DEF CbInv, CallsInv
<1>3. Words' = Words
  BY DEF Words
<1>. QED
  BY <1>1, <1>2, <1>3 DEF CbInv

(* A step of support_gen. *)
LEMMA BitsStay ==
  ASSUME CbInv, UNCHANGED <<pi, temp, out, calls, i>>, pc' = pc \/ pc' \notin Working
  PROVE  CbInv'
<1>1. OutInv'
  BY SameOut
<1>2. CASE pc' \notin Working
  BY <1>1, <1>2, CallsStay
<1>3. CASE pc' = pc /\ pc' \in Working
  <2>1. W' = W /\ N' = N /\ w' = w /\ n' = n
    BY DEF W, N, Call, w, n
  <2>2. calls # <<>> /\ w >= 2 /\ RoundFits(pc, i) /\ Arrays(temp, InA(pc), InB(pc))
    BY <1>3, Here
  <2>3. w \in 1..W /\ n \in Nat /\ N \in Nat
    BY <2>2, CurrentCall
  <2>4. Arrays(temp', InA(pc'), InB(pc')) /\ RoundFits(pc', i')
    <3>1. temp' = temp /\ pc' = pc /\ i' = i
      BY <1>3
    <3>. QED
      BY <2>2, <3>1
  <2>5. i' \in 0..W /\ pi' = pi /\ calls' = calls
    BY DEF CbInv
  <2>. QED
    BY <1>1, <2>2, <2>4, <2>5, WorkStep
<1>. QED
  BY <1>2, <1>3

(* The calls that wait for the current one. *)
LEMMA Waiting ==
  ASSUME CbInv, calls # <<>>
  PROVE  /\ Tail(calls) \in Seq(CallSet) /\ Len(Tail(calls)) = Len(calls) - 1
         /\ Len(calls) \in Nat \ {0}
         /\ \A k \in 1..Len(Tail(calls)) :
              /\ k + 1 \in 1..Len(calls) /\ Tail(calls)[k] = calls[k + 1]
              /\ CallFits(Tail(calls)[k]) /\ 2 * n <= Tail(calls)[k].off
         /\ \A j, k \in 1..Len(Tail(calls)) :
              j < k => 2 * 2^Tail(calls)[j].w <= Tail(calls)[k].off
<1>1. /\ calls \in Seq(CallSet) /\ (\A k \in 1..Len(calls) : CallFits(calls[k]))
      /\ \A j, k \in 1..Len(calls) : j < k => 2 * 2^calls[j].w <= calls[k].off
  BY DEF CbInv, CallsInv
<1>2. /\ Tail(calls) \in Seq(CallSet) /\ Len(Tail(calls)) = Len(calls) - 1
      /\ Len(calls) \in Nat \ {0}
  BY <1>1
<1>3. ASSUME NEW k \in 1..Len(Tail(calls))
      PROVE  k + 1 \in 1..Len(calls) /\ Tail(calls)[k] = calls[k + 1]
  BY <1>1, <1>2
<1>4. Call = calls[1] /\ 1 \in 1..Len(calls) /\ n = 2^w
  BY CurrentCall
<1>. DEFINE t == Tail(calls)
<1>. HIDE DEF t
<1>5. ASSUME NEW k \in 1..Len(t)  PROVE CallFits(t[k]) /\ 2 * n <= t[k].off
  <2>1. k + 1 \in 1..Len(calls) /\ t[k] = calls[k + 1] /\ 1 < k + 1
    BY <1>3 DEF t
  <2>2. 2 * 2^calls[1].w <= calls[k + 1].off
    BY <1>1, <1>4, <2>1
  <2>. QED
    BY <1>1, <1>4, <2>1, <2>2 DEF w
<1>6. ASSUME NEW j \in 1..Len(t), NEW k \in 1..Len(t), j < k
      PROVE  2 * 2^t[j].w <= t[k].off
  <2>1. k + 1 \in 1..Len(calls) /\ t[k] = calls[k + 1]
    BY <1>3 DEF t
  <2>2. j + 1 \in 1..Len(calls) /\ t[j] = calls[j + 1] /\ j + 1 < k + 1
    BY <1>3, <1>6 DEF t
  <2>. QED
    BY <1>1, <2>1, <2>2
<1>. QED
  BY <1>2, <1>3, <1>5, <1>6 DEF t

(* 0 and 1 have bit 0 only. *)
LEMMA BitsOfOne ==
  ASSUME NEW v \in 0..1, NEW b \in Bits(v)
  PROVE  b = 0
<1>1. b \in 0..(WIDE - 1) /\ (v \div 2^b) % 2 = 1 /\ WIDE \in 1..16
  BY Widths DEF Bits
<1>2. SUFFICES ASSUME b # 0  PROVE FALSE
  OBVIOUS
<1>. DEFINE e == b - 1
            p == 2^b
<1>3. e \in 0..15 /\ e + 1 = b
  BY <1>1, <1>2
<1>. HIDE DEF e
<1>4. 2^e \in Nat \ {0} /\ 2^(e + 1) = 2 * 2^e
  BY <1>3, PowerStep
<1>5. p \in Nat /\ 2 <= p /\ (v \div p) % 2 = 1
  <2>. DEFINE q == 2^e
  <2>1. q \in Nat \ {0} /\ p = 2 * q
    BY <1>3, <1>4
  <2>. HIDE DEF p, q
  <2>2. p \in Nat /\ 2 <= p
    BY <2>1
  <2>. QED
    BY <1>1, <2>2 DEF p
<1>. HIDE DEF p
<1>6. v \div p = 0
  BY <1>5
<1>. QED
  BY <1>5, <1>6

(* 82-90 *)
LEMMA BaseKeeps ==
  ASSUME CbInv, Base
  PROVE  CbInv'
<1>. DEFINE Z == {p \in pos..(pos - (pos % 8) + 7) : p - pos \in Bits(perm(0))}
            h == 2^(W - 1)
<1>1. /\ calls # <<>> /\ w = 1 /\ out' = SymDiff(out, Z) /\ calls' = Tail(calls)
      /\ pi' = pi /\ temp' = temp /\ i' = i /\ pc' = "call"
  BY DEF Base
<1>2. /\ h \in Nat \ {0} /\ step \in Nat \ {0} /\ step * 2^(w - 1) = h
      /\ pos - (W - w) * h \in 0..(step - 1) /\ pos \in Nat /\ W \in 2..15
  BY <1>1, RowOfCall
<1>3. pos \in 0..((2 * W - 1) * h - 1)
  <2>1. 2^(w - 1) = 1
    BY <1>1
  <2>2. step = h
    BY <1>2, <2>1
  <2>. DEFINE row == W - 1
              k == 2 * W - 1
              x == pos - row * h
  <2>3. x \in 0..(h - 1) /\ row \in 0..(k - 1) /\ k \in Nat
    BY <1>1, <1>2, <2>2
  <2>4. row * h + x = pos
    BY <1>2, <2>3
  <2>. HIDE DEF row, k, x, h
  <2>5. row * h + x \in 0..(k * h - 1)
    BY <1>2, <2>3, InRow
  <2>. QED
    BY <2>4, <2>5 DEF k
<1>4. Z \subseteq {pos}
  <2>1. n = 2
    BY <1>1 DEF n
  <2>2. 0 \in 0..(n - 1)
    BY <2>1
  <2>3. perm(0) \in 0..1
    BY <1>1, <2>1, <2>2, PermTyped
  <2>4. ASSUME NEW p \in Z  PROVE p = pos
    <3>1. p - pos \in Bits(perm(0)) /\ p \in Int
      BY <1>2
    <3>2. p - pos = 0
      BY <2>3, <3>1, BitsOfOne
    <3>. QED
      BY <1>2, <3>1, <3>2
  <2>. QED
    BY <2>4
<1>5. W' = W /\ N' = N
  BY <1>1 DEF W, N
<1>. HIDE DEF Z
<1>6. OutInv'
  <2>1. out \subseteq 0..((2 * W - 1) * h - 1)
    BY DEF CbInv, OutInv
  <2>2. out' \subseteq out \cup Z
    BY <1>1 DEF SymDiff
  <2>3. out' \subseteq 0..((2 * W - 1) * h - 1)
    BY <1>3, <1>4, <2>1, <2>2
  <2>. QED
    BY <1>5, <2>3 DEF OutInv
<1>7. CallsInv'
  <2>1. CallSet' = CallSet
    BY <1>5 DEF CallSet
  <2>. DEFINE t == Tail(calls)
  <2>3. /\ t \in Seq(CallSet) /\ (\A k \in 1..Len(t) : CallFits(t[k]))
        /\ \A j, k \in 1..Len(t) : j < k => 2 * 2^t[j].w <= t[k].off
    BY <1>1, Waiting
  <2>4. calls' = t
    BY <1>1
  <2>. HIDE DEF t
  <2>5. ASSUME NEW k \in 1..Len(t)  PROVE CallFits(calls[k])'
    <3>. DEFINE c == t[k]
    <3>1. CallFits(c)
      BY <2>3
    <3>. HIDE DEF c
    <3>2. /\ c.step * 2^c.w = N'
          /\ c.pos - (W' - c.w) * 2^(W' - 1) \in 0..(c.step - 1)
          /\ \/ c.off = 0 /\ c.w = W'
             \/ /\ c.off # 0
                /\ 2 * 2^c.w <= c.off /\ c.off + 2^(c.w - 1) <= 2 * N'
                /\ \A x \in c.off..(c.off + 2^(c.w - 1) - 1) : temp'[x] \in FieldsBelow(2^c.w)
      BY <1>1, <1>5, <3>1 DEF CallFits
    <3>. QED
      BY <2>4, <3>2 DEF CallFits, FieldsBelow, c
  <2>. QED
    BY <2>1, <2>3, <2>4, <2>5 DEF CallsInv
<1>8. pc' \notin Working
  BY <1>1 DEF Working, Narrow, Wide
<1>9. Words' = Words
  BY DEF Words
<1>. QED
  BY <1>1, <1>5, <1>6, <1>7, <1>8, <1>9 DEF CbInv

(* 250-278: sizes of the parts of the array. *)
LEMMA Quarters ==
  ASSUME CbInv, calls # <<>>, w >= 2
  PROVE  LET q == 2^((w - 1) - 1)
         IN  /\ q \in Nat \ {0} /\ n = 4 * q /\ 2^(w - 1) = 2 * q
             /\ n \div 4 = q /\ n \div 2 = 2 * q
             /\ n <= N /\ N \in Nat /\ 2^(w - 1) <= 2^(WIDE - 1)
<1>1. /\ w \in 1..W /\ W \in 2..15 /\ n = 2 * 2^(w - 1) /\ n <= N /\ N \in Nat /\ pi \in Perms
  BY CurrentCall DEF CbInv
<1>. DEFINE v == w - 1
<1>2. v \in 1..W
  BY <1>1
<1>. HIDE DEF v
<1>3. 2^v = 2 * 2^(v - 1) /\ 2^(v - 1) \in Nat \ {0} /\ 2^v <= 2^(WIDE - 1)
  BY <1>1, <1>2, SizesOfCall
<1>. DEFINE q == 2^(v - 1)
            e == 2^v
<1>4. n = 2 * e /\ e = 2 * q /\ q \in Nat \ {0} /\ e <= 2^(WIDE - 1)
  BY <1>1, <1>3 DEF v
<1>. HIDE DEF q, e
<1>5. n = 4 * q /\ n \div 4 = q /\ n \div 2 = 2 * q
  BY <1>4
<1>6. /\ q \in Nat \ {0} /\ n = 4 * q /\ e = 2 * q /\ n \div 4 = q /\ n \div 2 = 2 * q
      /\ n <= N /\ N \in Nat /\ e <= 2^(WIDE - 1)
  BY <1>1, <1>4, <1>5
<1>. QED
  BY <1>6 DEF q, e, v

(* 252-273: the words that the calls get, and the others. *)
LEMMA SplitWords ==
  ASSUME CbInv, Split
  PROVE  LET q == n \div 4
         IN  /\ temp' \in [0..(2 * N - 1) -> Words]
             /\ \A x \in (n + q)..(n + 3 * q - 1) : temp'[x] \in FieldsBelow(n \div 2)
             /\ \A x \in (2 * n)..(2 * N - 1) : temp'[x] = temp[x]
<1>. DEFINE q == n \div 4
            m == n \div 2
            D == 0..(2 * N - 1)
            M(x) == Low(A(x)) \div 2
            Two(x) == Word(M(x + 2), M(x))
            even(x) == 4 * (x - (n + q))
            odd(x) == 4 * (x - (n + 2 * q)) + 1
<1>1. calls # <<>> /\ w >= 2 /\ (\A x \in 0..(n - 1) : A(x) \in FieldsBelow(n)) /\ temp \in [D -> Words]
  <2>1. pc = "split"
    BY DEF Split, Goto
  <2>2. pc \in Working /\ InA(pc) = FieldsBelow(n)
    BY <2>1 DEF Working, InA, Narrow
  <2>. QED
    BY <2>2, Here DEF CbInv
<1>2. temp' = [x \in D |-> CASE x \in (n + q)..(n + 2 * q - 1) -> Two(even(x))
                             [] x \in (n + 2 * q)..(n + 3 * q - 1) -> Two(odd(x))
                             [] OTHER -> temp[x]]
  <2>1. DOMAIN temp = D
    BY <1>1
  <2>. QED
    BY <2>1 DEF Split
<1>3. /\ q \in Nat \ {0} /\ n = 4 * q /\ m = 2 * q /\ n <= N /\ N \in Nat
      /\ m <= 2^(WIDE - 1)
  BY <1>1, Quarters
<1>. HIDE DEF q, m
<1>4. ASSUME NEW x \in 0..(n - 1)  PROVE M(x) \in 0..(m - 1)
  <2>1. Low(A(x)) \in 0..(n - 1)
    BY <1>1, FieldsOfCall
  <2>. DEFINE y == Low(A(x))
  <2>. HIDE DEF y
  <2>2. y \div 2 \in 0..(m - 1)
    <3>1. y \in 0..(4 * q - 1)
      BY <1>3, <2>1 DEF y
    <3>2. y \div 2 \in 0..(2 * q - 1)
      BY <1>3, <3>1
    <3>. QED
      BY <1>3, <3>2
  <2>. QED
    BY <2>2 DEF y
<1>5. ASSUME NEW x \in 0..(n - 3)  PROVE Two(x) \in FieldsBelow(m)
  <2>1. x \in 0..(n - 1) /\ x + 2 \in 0..(n - 1)
    BY <1>3
  <2>2. M(x) \in 0..(m - 1) /\ M(x + 2) \in 0..(m - 1)
    BY <1>4, <2>1
  <2>3. m \in Nat
    BY <1>3
  <2>. HIDE DEF M
  <2>. QED
    BY <1>3, <2>2, <2>3, WordTyped
<1>. HIDE DEF Two
<1>6. ASSUME NEW x \in (n + q)..(n + 3 * q - 1)
      PROVE  x \in D /\ temp'[x] \in FieldsBelow(m)
  <2>1. x \in D
    BY <1>3
  <2>2. CASE x \in (n + q)..(n + 2 * q - 1)
    <3>1. even(x) \in 0..(n - 3)
      BY <1>3, <2>2
    <3>2. x \notin (n + 2 * q)..(n + 3 * q - 1)
      BY <1>3, <2>2
    <3>. HIDE DEF even, odd, D
    <3>3. temp'[x] = Two(even(x))
      BY <1>2, <2>1, <2>2, <3>2
    <3>. QED
      BY <1>5, <2>1, <3>1, <3>3 DEF D
  <2>3. CASE x \in (n + 2 * q)..(n + 3 * q - 1)
    <3>1. odd(x) \in 0..(n - 3)
      BY <1>3, <2>3
    <3>2. x \notin (n + q)..(n + 2 * q - 1)
      BY <1>3, <2>3
    <3>3. temp'[x] = Two(odd(x))
      BY <1>2, <2>1, <2>3, <3>2
    <3>. HIDE DEF odd
    <3>. QED
      BY <1>5, <2>1, <3>1, <3>3
  <2>. QED
    BY <1>3, <2>1, <2>2, <2>3
<1>7. ASSUME NEW x \in D, x \notin (n + q)..(n + 3 * q - 1)
      PROVE  temp'[x] = temp[x]
  <2>1. x \notin (n + q)..(n + 2 * q - 1) /\ x \notin (n + 2 * q)..(n + 3 * q - 1)
    BY <1>3, <1>7
  <2>. QED
    BY <1>2, <2>1
<1>8. FieldsBelow(m) \in SUBSET Words
  BY <1>3, FieldsAreWords
<1>9. \A x \in D : temp'[x] \in Words
  BY <1>1, <1>6, <1>7, <1>8
<1>10. temp' \in [D -> Words]
  <2>1. DOMAIN temp' = D /\ temp' = [x \in D |-> temp'[x]]
    BY <1>2
  <2>. QED
    BY <1>9, <2>1
<1>11. \A x \in (2 * n)..(2 * N - 1) : x \in D /\ x \notin (n + q)..(n + 3 * q - 1)
  BY <1>3
<1>. QED
  BY <1>6, <1>7, <1>10, <1>11 DEF q, m

(* Two calls in the place of the first. *)
LEMMA TwoMore ==
  ASSUME NEW S, NEW a \in S, NEW b \in S, NEW t \in Seq(S)
  PROVE  LET u == <<a, b>> \o t
         IN  /\ u \in Seq(S) /\ Len(u) = Len(t) + 2 /\ Len(t) \in Nat
             /\ u[1] = a /\ u[2] = b
             /\ \A k \in 1..Len(u) : k > 2 => k - 2 \in 1..Len(t) /\ u[k] = t[k - 2]
OBVIOUS

(* 274-278 *)
LEMMA SplitKeeps ==
  ASSUME CbInv, Split
  PROVE  CbInv'
<1>. DEFINE h == 2^(W - 1)
            q == n \div 4
            from == pos + step * (n \div 2)
            c1 == [pos |-> from, step |-> 2 * step, off |-> n + q, w |-> w - 1]
            c2 == [pos |-> from + step, step |-> 2 * step, off |-> n + n \div 2, w |-> w - 1]
            t == Tail(calls)
            u == <<c1, c2>> \o t
            Good(c) == /\ c.step * 2^c.w = N
                       /\ c.pos - (W - c.w) * 2^(W - 1) \in 0..(c.step - 1)
                       /\ \/ c.off = 0 /\ c.w = W
                          \/ /\ c.off # 0
                             /\ 2 * 2^c.w <= c.off /\ c.off + 2^(c.w - 1) <= 2 * N
                             /\ \A x \in c.off..(c.off + 2^(c.w - 1) - 1) :
                                  temp'[x] \in FieldsBelow(2^c.w)
<1>1. /\ calls # <<>> /\ w >= 2 /\ pi' = pi /\ out' = out /\ i' = i /\ pc' = "call"
      /\ calls' = u
  <2>1. pc = "split" /\ pc \in Working
    BY DEF Split, Goto, Working
  <2>2. calls # <<>> /\ w >= 2
    BY <2>1, Here
  <2>. QED
    BY <2>2 DEF Split, Goto, SecondOffset
<1>2. W' = W /\ N' = N /\ Words' = Words
  BY <1>1 DEF W, N, Words
<1>3. /\ q \in Nat \ {0} /\ n = 4 * q /\ n \div 2 = 2 * q /\ n <= N /\ N \in Nat
      /\ 2^(w - 1) = 2 * q /\ 2^((w - 1) - 1) = q
  BY <1>1, Quarters
<1>4. /\ h \in Nat \ {0} /\ N = 2 * h /\ step \in Nat \ {0} /\ pos \in Nat
      /\ pos - (W - w) * h \in 0..(step - 1) /\ w \in 1..W /\ W \in 2..15
      /\ step * (2 * q) = h
  BY <1>1, <1>3, RowOfCall
<1>5. /\ temp' \in [0..(2 * N - 1) -> Words]
      /\ \A x \in (n + q)..(n + 3 * q - 1) : temp'[x] \in FieldsBelow(2 * q)
      /\ \A x \in (2 * n)..(2 * N - 1) : temp'[x] = temp[x]
  BY <1>3, SplitWords
<1>. HIDE DEF h, q
<1>6. from = pos + h
  BY <1>3, <1>4
<1>7. (W - (w - 1)) * h = (W - w) * h + h
  <2>1. \A x \in Int : (x + 1) * h = x * h + h
    BY <1>4
  <2>2. W - w \in Int /\ W - (w - 1) = (W - w) + 1
    BY <1>4
  <2>. QED
    BY <2>1, <2>2
<1>8. (W - w) * h \in Int
  BY <1>4
<1>9. c1 \in CallSet /\ c2 \in CallSet
  <2>1. from \in Nat /\ from + step \in Nat /\ 2 * step \in Nat \ {0} /\ w - 1 \in 1..W
    BY <1>1, <1>4, <1>6
  <2>2. n + q \in Nat /\ n + n \div 2 \in Nat
    BY <1>3
  <2>. QED
    BY <2>1, <2>2 DEF CallSet
<1>10. ASSUME NEW c \in {c1, c2}
       PROVE  Good(c) /\ c.w = w - 1 /\ n <= c.off /\ 2^c.w = 2 * q
  <2>1. /\ c.w = w - 1 /\ c.step = 2 * step
        /\ c.pos \in {from, from + step} /\ c.off \in {n + q, n + 2 * q}
    BY <1>3
  <2>2. 2^c.w = 2 * q /\ 2^(c.w - 1) = q
    BY <1>3, <2>1
  <2>3. c.step * 2^c.w = N
    <3>1. \A x, y \in Nat : (2 * x) * y = 2 * (x * y)
      OBVIOUS
    <3>2. (2 * step) * (2 * q) = 2 * (step * (2 * q))
      BY <1>3, <1>4, <3>1
    <3>. QED
      BY <1>4, <2>1, <2>2, <3>2
  <2>4. c.pos - (W - c.w) * h \in 0..(c.step - 1)
    <3>1. (W - c.w) * h = (W - w) * h + h
      BY <1>7, <2>1
    <3>. QED
      BY <1>4, <1>6, <1>8, <2>1, <3>1
  <2>5. /\ c.off # 0 /\ c.off \in Nat /\ n <= c.off /\ 2 * (2 * q) <= c.off
        /\ c.off + q <= 2 * N
    BY <1>3, <2>1
  <2>6. \A x \in c.off..(c.off + q - 1) : x \in (n + q)..(n + 3 * q - 1)
    BY <1>3, <2>1
  <2>7. \A x \in c.off..(c.off + q - 1) : temp'[x] \in FieldsBelow(2 * q)
    BY <1>5, <2>6
  <2>8. Good(c)
    BY <2>2, <2>3, <2>4, <2>5, <2>7 DEF h
  <2>. QED
    BY <2>1, <2>2, <2>5, <2>8
<1>11. /\ t \in Seq(CallSet)
       /\ \A k \in 1..Len(t) : CallFits(t[k]) /\ 2 * n <= t[k].off
       /\ \A j, k \in 1..Len(t) : j < k => 2 * 2^t[j].w <= t[k].off
  BY <1>1, Waiting
<1>. HIDE DEF c1, c2, t
<1>12. /\ u \in Seq(CallSet) /\ Len(u) = Len(t) + 2 /\ Len(t) \in Nat
       /\ u[1] = c1 /\ u[2] = c2
       /\ \A k \in 1..Len(u) : k > 2 => k - 2 \in 1..Len(t) /\ u[k] = t[k - 2]
  BY <1>9, <1>11, TwoMore
<1>. HIDE DEF u
<1>13. ASSUME NEW c \in CallSet, CallFits(c), 2 * n <= c.off
       PROVE  Good(c)
  <2>1. c.off \in Nat /\ c.off # 0 /\ c.w \in 1..W /\ pi \in Perms
    BY <1>3, <1>13 DEF CallSet, CbInv
  <2>. DEFINE e == 2^(c.w - 1)
              d == c.off
  <2>2. e \in Nat
    BY <2>1, SizesOfCall
  <2>3. /\ c.step * 2^c.w = N
        /\ c.pos - (W - c.w) * 2^(W - 1) \in 0..(c.step - 1)
        /\ 2 * 2^c.w <= d /\ d + e <= 2 * N
        /\ \A x \in d..(d + e - 1) : temp[x] \in FieldsBelow(2^c.w)
    BY <1>13, <2>1 DEF CallFits
  <2>4. d \in Nat /\ 2 * n <= d
    BY <1>13, <2>1
  <2>5. \A x \in d..(d + e - 1) : temp'[x] \in FieldsBelow(2^c.w)
    <3>. HIDE DEF d, e
    <3>1. \A x \in d..(d + e - 1) : x \in (2 * n)..(2 * N - 1)
      BY <1>3, <2>2, <2>3, <2>4
    <3>. QED
      BY <1>5, <2>3, <3>1
  <2>. QED
    BY <2>1, <2>3, <2>5
<1>14. \A k \in 1..Len(u) : \/ k = 1 /\ u[k] = c1
                            \/ k = 2 /\ u[k] = c2
                            \/ k > 2 /\ k - 2 \in 1..Len(t) /\ u[k] = t[k - 2]
  BY <1>12
<1>15. \A k \in 1..Len(u) : u[k] \in CallSet
  BY <1>12
<1>16. ASSUME NEW k \in 1..Len(u)  PROVE CallFits(calls[k])'
  <2>. DEFINE c == u[k]
  <2>1. Good(c)
    <3>1. CASE u[k] \in {c1, c2}
      BY <1>10, <3>1
    <3>2. CASE k > 2 /\ k - 2 \in 1..Len(t) /\ u[k] = t[k - 2]
      <4>1. c \in CallSet /\ CallFits(c) /\ 2 * n <= c.off
        BY <1>11, <1>15, <3>2
      <4>. HIDE DEF c, Good
      <4>. QED
        BY <1>13, <4>1
    <3>. QED
      BY <1>14, <3>1, <3>2
  <2>2. c = calls'[k]
    BY <1>1
  <2>. HIDE DEF c
  <2>. QED
    BY <1>2, <2>1, <2>2 DEF CallFits, FieldsBelow
<1>17. ASSUME NEW j \in 1..Len(u), NEW k \in 1..Len(u), j < k
       PROVE  2 * 2^u[j].w <= u[k].off
  <2>1. CASE k = 2
    <3>1. j = 1 /\ u[j] = c1 /\ u[k] = c2
      BY <1>12, <1>17, <2>1
    <3>2. 2^c1.w = 2 * q /\ c2.off = n + n \div 2
      BY <1>10 DEF c2
    <3>. QED
      BY <1>3, <3>1, <3>2
  <2>2. CASE k > 2 /\ k - 2 \in 1..Len(t) /\ u[k] = t[k - 2]
    <3>1. CASE u[j] \in {c1, c2}
      <4>1. 2^u[j].w = 2 * q
        BY <1>10, <3>1
      <4>2. 2 * n <= u[k].off
        BY <1>11, <2>2
      <4>3. u[k].off \in Nat
        BY <1>15 DEF CallSet
      <4>. QED
        BY <1>3, <4>1, <4>2, <4>3
    <3>2. CASE j > 2 /\ j - 2 \in 1..Len(t) /\ u[j] = t[j - 2]
      <4>1. j - 2 < k - 2
        BY <1>17
      <4>. QED
        BY <1>11, <2>2, <3>2, <4>1
    <3>. QED
      BY <1>14, <3>1, <3>2
  <2>. QED
    BY <1>14, <1>17, <2>1, <2>2
<1>18. CallsInv'
  <2>1. CallSet' = CallSet
    BY <1>2 DEF CallSet
  <2>. QED
    BY <1>1, <1>12, <1>16, <1>17, <2>1 DEF CallsInv
<1>19. OutInv' /\ i' \in 0..W' /\ pc' \notin Working
  BY <1>1, <1>2, SameOut DEF CbInv, Working, Narrow, Wide
<1>. QED
  BY <1>1, <1>2, <1>5, <1>18, <1>19 DEF CbInv

(* The call of controlbitsfrompermutation. *)
LEMMA CbInvInit ==
  ASSUME SgInit
  PROVE  CbInv
<1>. DEFINE c == [pos |-> 0, step |-> 1, off |-> 0, w |-> W]
<1>1. /\ pi \in Perms /\ temp = [x \in 0..(2 * N - 1) |-> 0] /\ out = {}
      /\ calls = <<c>> /\ i = 0 /\ pc = "call"
  BY DEF SgInit, Init
<1>2. W \in 2..15 /\ 1 \in 1..W
  <2>1. W \in 2..15
    BY <1>1, PermIs DEF W
  <2>. QED
    BY <2>1
<1>3. N \in Nat
  BY <1>1, <1>2, SizesOfCall
<1>4. temp \in [0..(2 * N - 1) -> Words]
  <2>1. 2^(2 * WIDE - 1) \in Nat \ {0}
    BY NarrowSizes
  <2>. DEFINE z == 2^(2 * WIDE - 1)
  <2>. HIDE DEF z
  <2>2. 0 \in 0..(z - 1)
    BY <2>1 DEF z
  <2>3. 0 \in Words
    BY <2>2 DEF z, Words
  <2>. QED
    BY <1>1, <2>3
<1>5. c \in CallSet
  BY <1>2 DEF CallSet
<1>6. CallFits(c)
  <2>1. c.step * 2^c.w = N
    <3>1. 1 * N = N
      BY <1>3
    <3>. QED
      BY <3>1 DEF N
  <2>2. (W - W) * 2^(W - 1) = 0
    <3>1. W \in 1..W
      BY <1>2
    <3>2. 2^(W - 1) \in Nat
      BY <1>1, <3>1, SizesOfCall
    <3>3. W - W = 0
      BY <1>2
    <3>. QED
      BY <3>2, <3>3
  <2>3. c.pos - (W - c.w) * 2^(W - 1) \in 0..(c.step - 1)
    BY <2>2
  <2>. QED
    BY <2>1, <2>3 DEF CallFits
<1>. HIDE DEF c
<1>7. CallsInv
  <2>1. <<c>> \in Seq(CallSet) /\ Len(<<c>>) = 1 /\ <<c>>[1] = c
    BY <1>5
  <2>2. \A k \in 1..Len(<<c>>) : k = 1
    BY <2>1
  <2>3. \A j, k \in 1..Len(<<c>>) : ~ (j < k)
    BY <2>2
  <2>4. calls \in Seq(CallSet) /\ \A k \in 1..Len(calls) : CallFits(calls[k])
    BY <1>1, <1>6, <2>1, <2>2
  <2>5. \A j, k \in 1..Len(calls) : ~ (j < k)
    BY <1>1, <2>3
  <2>. QED
    BY <2>4, <2>5 DEF CallsInv
<1>8. OutInv /\ i \in 0..W /\ pc \notin Working
  BY <1>1, <1>2 DEF OutInv, Working, Narrow, Wide
<1>. QED
  BY <1>1, <1>4, <1>7, <1>8 DEF CbInv

(* Every step, of this function and of support_gen. *)
LEMMA CbInvNext ==
  ASSUME CbInv, [Next]_vars
  PROVE  CbInv'
<1>1. CASE ComputeBits
  <2>. CbNext
    BY <1>1 DEF ComputeBits
  <2>1. CASE Base \/ Pibar \/ Invert \/ Square \/ PackNarrow \/ PackWide
    BY <2>1, BaseKeeps, PibarKeeps, InvertKeeps, SquareKeeps, PackNarrowKeeps, PackWideKeeps
  <2>2. CASE NarrowInvert \/ NarrowApply \/ NarrowMinimum
    BY <2>2, NarrowInvertKeeps, NarrowApplyKeeps, NarrowMinimumKeeps
  <2>3. CASE WideInvert \/ WideSquare \/ WideBoth \/ WideApply \/ WideMinimum
    BY <2>3, WideInvertKeeps, WideSquareKeeps, WideBothKeeps, WideApplyKeeps, WideMinimumKeeps
  <2>4. CASE KeepMinima \/ InvertPi \/ FirstLayer \/ LastLayer \/ Split
    BY <2>4, KeepMinimaKeeps, InvertPiKeeps, FirstLayerKeeps, LastLayerKeeps, SplitKeeps
  <2>5. CASE Verify
    <3>1. UNCHANGED <<pi, temp, out, calls, i>> /\ pc' \in {"verified", "panic"}
      BY <2>5 DEF Verify
    <3>2. pc' \notin Working
      BY <3>1 DEF Working, Narrow, Wide
    <3>. QED
      BY <3>1, <3>2, BitsStay
  <2>. QED
    BY <2>1, <2>2, <2>3, <2>4, <2>5 DEF CbNext
<1>2. CASE FillPlanes \/ Permute \/ Collect
  <2>1. UNCHANGED <<pi, temp, out, calls, i>> /\ pc' \in {"planes", "done"}
    BY <1>2 DEF FillPlanes, Permute, Collect, Goto
  <2>2. pc' \notin Working
    BY <2>1 DEF Working, Narrow, Wide
  <2>. QED
    BY <2>1, <2>2, BitsStay
<1>3. CASE UNCHANGED vars
  <2>1. UNCHANGED <<pi, temp, out, calls, i>> /\ pc' = pc
    BY <1>3 DEF vars
  <2>. QED
    BY <2>1, BitsStay
<1>. QED
  BY <1>1, <1>2, <1>3 DEF Next, Done

(* What the invariant says of the words. *)
LEMMA CbInvGivesType ==
  ASSUME CbInv
  PROVE  CbTypeOK
<1>1. /\ pi \in Perms /\ temp \in [0..(2 * N - 1) -> Words] /\ OutInv /\ i \in 0..W
      /\ calls \in Seq(CallSet) /\ \A k \in 1..Len(calls) : CallFits(calls[k])
  BY DEF CbInv, CallsInv
<1>2. ASSUME NEW c \in {calls[m] : m \in DOMAIN calls}
      PROVE  c.w \in 1..W /\ c.step * 2^c.w = N /\ c.off \in 0..(2 * N)
  <2>1. c \in CallSet /\ CallFits(c)
    BY <1>1
  <2>2. c.w \in 1..W /\ c.off \in Nat
    BY <2>1 DEF CallSet
  <2>3. 2^(c.w - 1) \in Nat /\ N \in Nat
    BY <1>1, <2>2, SizesOfCall
  <2>4. c.off = 0 \/ c.off + 2^(c.w - 1) <= 2 * N
    BY <2>1 DEF CallFits
  <2>5. c.off \in 0..(2 * N)
    BY <2>2, <2>3, <2>4
  <2>. QED
    BY <2>1, <2>2, <2>5 DEF CallFits
<1>. QED
  BY <1>1, <1>2 DEF CbTypeOK, OutInv

(***************************************************************************)
(* cbrecursion: wherever a step takes a word of A or B apart, both fields  *)
(* are elements of the call's permutation, and p is one where three share  *)
(* a word (controlbits.rs:92-248); and the permutations of the calls that  *)
(* wait are pairs of elements in words that no call before them writes     *)
(* (controlbits.rs:250-278).  For every pi of 4 to 2^15 places.            *)
(***************************************************************************)
THEOREM FieldsStayApart == Spec => []FieldsApart
<1>1. SgInit => CbInv
  BY CbInvInit
<1>2. CbInv /\ [Next]_vars => CbInv'
  BY CbInvNext
<1>3. CbInv => FieldsApart
  BY DEF CbInv, FieldsApart
<1>. QED
  BY <1>1, <1>2, <1>3, PTL DEF Spec

(***************************************************************************)
(* No word of temp becomes negative, so that int32_sort orders the words   *)
(* by their fields; every bit that is set lies in out; and the width, the  *)
(* step and the offset of every pending call are in range                  *)
(* (controlbits.rs:73-332).                                                *)
(***************************************************************************)
THEOREM CbTypeCorrect == Spec => []CbTypeOK
<1>1. SgInit => CbInv
  BY CbInvInit
<1>2. CbInv /\ [Next]_vars => CbInv'
  BY CbInvNext
<1>3. CbInv => CbTypeOK
  BY CbInvGivesType
<1>. QED
  BY <1>1, <1>2, <1>3, PTL DEF Spec
===============================================================================
