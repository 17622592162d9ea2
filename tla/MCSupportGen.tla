----------------------------- MODULE MCSupportGen -----------------------------
(***************************************************************************)
(* Instances of SupportGen for TLC: all permutations of 4 elements, and    *)
(* some of 8, 16 and 32, of every cycle structure that scrambling an       *)
(* affine map gives.  With NARROW = 3 the calls for 16 and 32 elements run *)
(* the wide rounds; with 8 and 32 there are two matrices, else one.        *)
(***************************************************************************)
EXTENDS SupportGen

Perms4 == {f \in [0..3 -> 0..3] : {f[x] : x \in 0..3} = 0..3}

Swapped(f, x, y) == [f EXCEPT ![x] = f[y], ![y] = f[x]]

(* x |-> a * x + c, with the images of m and k * m^2 + a * m + c swapped, for all m. *)
Scrambled(b, a, c, k) ==
  LET f[m \in 0..2^b] ==
        IF m = 0 THEN [x \in 0..(2^b - 1) |-> (a * x + c) % 2^b]
        ELSE Swapped(f[m - 1], m - 1, (k * (m - 1)^2 + a * (m - 1) + c) % 2^b)
  IN  f[2^b]

MCPerms ==
  UNION {Perms4,
         {Scrambled(3, a, c, k) : a \in {1, 3, 5, 7}, c \in 0..7, k \in 0..4},
         {Scrambled(4, a, c, k) : a \in {1, 3, 5}, c \in {0, 5, 10}, k \in {0, 3, 6}},
         {Scrambled(5, a, c, k) : a \in {1, 13}, c \in {1, 10}, k \in {1, 4}}}
===============================================================================
