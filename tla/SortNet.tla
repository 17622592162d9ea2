-------------------------------- MODULE SortNet -------------------------------
(***************************************************************************)
(* int32_sort (src/int32_sort.rs): a sorting network.  What it does is     *)
(* fixed by the length of the slice: a sequence of compare-exchanges.      *)
(***************************************************************************)
EXTENDS Integers, SequencesExt

(* Down to 2^lo, from 2^hi. *)
Halvings(hi, lo) == [d \in 1..(hi - lo + 1) |-> 2^(hi - d + 1)]

(* i & p = 0 for a power p of 2 *)
IsClear(i, p) == (i \div p) % 2 = 0

(* The indices from, ..., to with a clear bit. *)
Clear(from, to, p) ==
  LET c[m \in 0..(to - from + 1)] ==
        IF m = 0 THEN <<>>
        ELSE IF IsClear(from + m - 1, p) THEN Append(c[m - 1], from + m - 1)
        ELSE c[m - 1]
  IN  c[to - from + 1]

(* int32_sort.rs:33-41 *)
Pairs(n, p) == [m \in DOMAIN Clear(0, n - p - 1, p) |->
                  <<Clear(0, n - p - 1, p)[m], Clear(0, n - p - 1, p)[m] + p>>]

(* 47-55: x[i + p] against x[i + r] for r = q, q / 2, ..., 2 * p. *)
Chain(i, p, d, b) ==
  LET rs == Halvings(d, b + 1)
  IN  [m \in DOMAIN rs |-> <<i + p, i + rs[m]>>]

(* With a bug: i starts where the pass before it ended, one step late. *)
FirstIndex_Late(n, q, top) == IF q = top THEN 0 ELSE n - 2 * q + 1

(***************************************************************************)
(* 43-60: i is set to 0 before the passes with q = top, q / 2, ..., 2 * p  *)
(* and not between them, so a pass starts where the one before it stopped. *)
(***************************************************************************)
FirstIndex(n, q, top) == IF q = top THEN 0 ELSE n - 2 * q

Chains(n, h, b) ==
  LET Pass(d) ==
        LET is == Clear(FirstIndex(n, 2^d, 2^h), n - 2^d - 1, 2^b)
        IN  FlattenSeq([m \in DOMAIN is |-> Chain(is[m], 2^b, d, b)])
  IN  [e \in 1..(h - b) |-> Pass(h + 1 - e)]

(***************************************************************************)
(* 26-62, for a slice of 2^w words: top = 2^(w - 1), and p = top, ..., 1.  *)
(* The passes over the slice, in order.                                    *)
(***************************************************************************)
Network(w) ==
  FlattenSeq([e \in 1..w |-> <<Pairs(2^w, 2^(w - e))>> \o Chains(2^w, w - 1, w - e)])

(* int32_minmax *)
CompareExchange(x, lo, hi) ==
  IF x[lo] > x[hi] THEN [x EXCEPT ![lo] = x[hi], ![hi] = x[lo]] ELSE x

Apply(x, from, pass) ==
  LET r[m \in 0..Len(pass)] ==
        IF m = 0 THEN x
        ELSE CompareExchange(r[m - 1], from + pass[m][1], from + pass[m][2])
  IN  r[Len(pass)]

(* The words of x from place from on, sorted: x after every pass of net. *)
SortSlice(x, from, net) ==
  LET After(xs) == Append(xs, Apply(Last(xs), from, net[Len(xs)]))
      r[m \in 0..Len(net)] == IF m = 0 THEN <<x>> ELSE After(r[m - 1])
  IN  Last(r[Len(net)])
===============================================================================
