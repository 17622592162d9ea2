------------------------------ MODULE ControlBits -----------------------------
(***************************************************************************)
(* controlbitsfrompermutation (src/controlbits.rs): the control bits of a  *)
(* Benes network that permutes by pi, for n = 2^w.  cbrecursion works in   *)
(* one array of words of two fields; its calls are a stack, and the steps  *)
(* between two calls of int32_sort are actions.                            *)
(*                                                                         *)
(* A word is a number below 2^(2*WIDE).  The first n words of temp are the *)
(* array A of the comments in the code, the next n words are B.            *)
(***************************************************************************)
EXTENDS SortNet, BenesNet, TLC

CONSTANTS
  WIDE,       \* bits of a field of a word: 16
  NARROW,     \* bits of a field where three of them share a word: 10
  Perms       \* the permutations that the function is called with

Log(f) == CHOOSE b \in 0..Cardinality(DOMAIN f) : 2^b = Cardinality(DOMAIN f)

ASSUME ControlBitsAssumption ==
  /\ {WIDE, NARROW} \subseteq Nat \ {0}
  /\ 3 * NARROW < 2 * WIDE /\ WIDE <= 2 * NARROW
  /\ 2 * WIDE <= 32               \* a word is an i32
  /\ \A f \in Perms : /\ Log(f) \in 2..(WIDE - 1)
                      /\ DOMAIN f = 0..(2^Log(f) - 1)
                      /\ {f[x] : x \in DOMAIN f} = DOMAIN f

VARIABLES
  pi,         \* pi, and aux
  temp,       \* temp
  out,        \* out, or sub: the positions of its 1 bits
  calls,      \* the calls of cbrecursion that have not returned, inner first
  i,          \* i, of the loops of w - 2 rounds
  pc

cbvars == <<pi, temp, out, calls, i, pc>>

(* The current call. *)
Call == Head(calls)
pos  == Call.pos
step == Call.step
w    == Call.w
n    == 2^w

(* The arguments of controlbitsfrompermutation. *)
W == Log(pi)
N == 2^W

Xor1(x) == IF x % 2 = 0 THEN x + 1 ELSE x - 1

(* With a bug: words that are too wide for the fields shifted out. *)
Word_Keeps(h, l) == h * 2^WIDE + l

(* (h << 16) | l: only the low field of h stays in the word. *)
Word(h, l) == (h % 2^WIDE) * 2^WIDE + l
Low(v)     == v % 2^WIDE
High(v)    == v \div 2^WIDE

A(x) == temp[x]
B(x) == temp[n + x]

(* temp with other words in A, or in B. *)
SetA(f) == [x \in DOMAIN temp |-> IF x < n THEN f[x] ELSE temp[x]]
AndB(t, f) == [x \in DOMAIN t |-> IF x \in n..(2 * n - 1) THEN f[x - n] ELSE t[x]]
SetB(f) == AndB(temp, f)

Xs == 0..(n - 1)

Networks == [b \in 1..Max({Log(f) : f \in Perms}) |-> Network(b)]
SortA(t) == SortSlice(t, 0, Networks[w])
SortB(t) == SortSlice(t, n, Networks[w])

(* Element x of the permutation of a call: two share a word of temp or aux. *)
Image(c, x) ==
  LET v == temp[c.off + x \div 2]
  IN  IF c.off = 0 THEN pi[x] ELSE IF x % 2 = 0 THEN Low(v) ELSE High(v)

perm(x) == Image(Call, x)

Bits(v) == {b \in 0..(WIDE - 1) : (v \div 2^b) % 2 = 1}

Goto(from, to) == pc = from /\ pc' = to

-------------------------------------------------------------------------------
(* 291-307 *)
Init ==
  /\ pi \in Perms
  /\ temp = [x \in 0..(2 * N - 1) |-> 0]
  /\ out = {}
  /\ calls = <<[pos |-> 0, step |-> 1, off |-> 0, w |-> W]>>
  /\ i = 0
  /\ pc = "call"

(* 82-90: the byte takes the value of both elements, shifted. *)
Base ==
  /\ pc = "call" /\ calls # <<>> /\ w = 1
  /\ LET first == perm(0)
     IN  out' = SymDiff(out, {p \in pos..(pos - (pos % 8) + 7) : p - pos \in Bits(first)})
  /\ calls' = Tail(calls)
  /\ UNCHANGED <<pi, temp, i, pc>>

(* 92-106: A = (id<<16)+pibar *)
Pibar ==
  /\ Goto("call", "pairs")
  /\ calls # <<>> /\ w > 1
  /\ temp' = SortA(SetA([x \in Xs |-> Word(Xor1(perm(x)), perm(Xor1(x)))]))
  /\ UNCHANGED <<pi, out, calls, i>>

(* 108-122: B = (p<<16)+c, A = (id<<16)+pibar^-1 *)
Invert ==
  /\ Goto("pairs", "square")
  /\ LET c(x) == IF x < Low(A(x)) THEN x ELSE Low(A(x))
         a == SetA([x \in Xs |-> Word(A(x), x)])
     IN  temp' = SortA(AndB(a, [x \in Xs |-> Word(Low(A(x)), c(x))]))
  /\ UNCHANGED <<pi, out, calls, i>>

(* 124-127: A = (id<<16)+pibar^2 *)
Square ==
  /\ Goto("square", "pack")
  /\ temp' = SortA(SetA([x \in Xs |-> Word(A(x), 0) + High(B(x))]))
  /\ UNCHANGED <<pi, out, calls, i>>

(* 129-132: B = (p<<10)+c *)
PackNarrow ==
  /\ Goto("pack", "narrow")
  /\ w <= NARROW
  /\ temp' = SetB([x \in Xs |-> Low(A(x)) * 2^NARROW + (B(x) % 2^NARROW)])
  /\ i' = 1
  /\ UNCHANGED <<pi, out, calls>>

(* 160-162: B = (p<<16)+c *)
PackWide ==
  /\ Goto("pack", "wide")
  /\ w > NARROW
  /\ temp' = SetB([x \in Xs |-> Word(A(x), Low(B(x)))])
  /\ i' = 1
  /\ UNCHANGED <<pi, out, calls>>

(* With a bug: one round too few. *)
Rounds_Fewer == w - 3

Rounds == w - 2

(* 134-140: A = (id<<16)+p^{-1} *)
NarrowInvert ==
  /\ Goto("narrow", "apply") /\ i <= Rounds
  /\ temp' = SortA(SetA([x \in Xs |-> (B(x) \div 2^NARROW) * 2^WIDE + x]))
  /\ UNCHANGED <<pi, out, calls, i>>

(* 142-145: A = (p^{-1}<<20)+(p<<10)+c, and sorted A = (id<<20)+(pp<<10)+cp *)
NarrowApply ==
  /\ Goto("apply", "minimum")
  /\ LET kept(x) == A(x) % 2^(2 * WIDE - 2 * NARROW)
     IN  temp' = SortA(SetA([x \in Xs |-> kept(x) * 2^(2 * NARROW) + B(x)]))
  /\ UNCHANGED <<pi, out, calls, i>>

(* With a bug: the id that the sort went by is not masked out. *)
LowTwo_Keeps(v) == v

(* v & 0xfffff *)
LowTwo(v) == v % 2^(2 * NARROW)

(* 147-154: B = the smaller of (pp<<10)+cp and (pp<<10)+c *)
NarrowMinimum ==
  /\ Goto("minimum", "narrow")
  /\ LET both(x) == LowTwo(A(x))
         kept(x) == (both(x) \div 2^NARROW) * 2^NARROW + (B(x) % 2^NARROW)
     IN  temp' = SetB([x \in Xs |-> IF both(x) < kept(x) THEN both(x) ELSE kept(x)])
  /\ i' = i + 1
  /\ UNCHANGED <<pi, out, calls>>

(* 163-169: A = (id<<16)+p^(-1) *)
WideInvert ==
  /\ pc = "wide" /\ i <= Rounds
  /\ temp' = SortA(SetA([x \in Xs |-> Word(High(B(x)), x)]))
  /\ pc' = IF i < w - 2 THEN "widesquare" ELSE "wideapply"
  /\ UNCHANGED <<pi, out, calls, i>>

(* 171-181: A = (p^(-1)<<16)+c, B = (id<<16)+p^(-2) *)
WideSquare ==
  /\ Goto("widesquare", "wideboth")
  /\ LET a == SetA([x \in Xs |-> Word(A(x), Low(B(x)))])
     IN  temp' = SortB(AndB(a, [x \in Xs |-> Word(A(x), High(B(x)))]))
  /\ UNCHANGED <<pi, out, calls, i>>

(* 182-188: B = (p^(-2)<<16)+c, A = (id<<16)+cp *)
WideBoth ==
  /\ Goto("wideboth", "wideminimum")
  /\ temp' = SortA(SetB([x \in Xs |-> Word(B(x), Low(A(x)))]))
  /\ UNCHANGED <<pi, out, calls, i>>

(* 171-174, 188: in the last round p is not needed further. *)
WideApply ==
  /\ Goto("wideapply", "wideminimum")
  /\ temp' = SortA(SetA([x \in Xs |-> Word(A(x), Low(B(x)))]))
  /\ UNCHANGED <<pi, out, calls, i>>

(* 190-196 *)
WideMinimum ==
  /\ Goto("wideminimum", "wide")
  /\ LET cp(x) == Word(High(B(x)), Low(A(x)))
     IN  temp' = SetB([x \in Xs |-> IF cp(x) < B(x) THEN cp(x) ELSE B(x)])
  /\ i' = i + 1
  /\ UNCHANGED <<pi, out, calls>>

(* 156-158, 197-199: B = c *)
KeepMinima ==
  /\ \/ Goto("narrow", "minima")
     \/ Goto("wide", "minima")
  /\ i > Rounds
  /\ temp' = SetB([x \in Xs |-> B(x) % 2^(IF pc = "narrow" THEN NARROW ELSE WIDE)])
  /\ UNCHANGED <<pi, out, calls, i>>

PairNos == 0..(n \div 2 - 1)

(* The bits of these pairs, at from, from + step, ..., are flipped. *)
Flipped(from, pairs) == SymDiff(out, {from + m * step : m \in pairs})

(* 202-214: A = (id<<16)+pi^(-1) *)
InvertPi ==
  /\ Goto("minima", "first")
  /\ temp' = SortA(SetA([x \in Xs |-> Word(perm(x), x)]))
  /\ UNCHANGED <<pi, out, calls, i>>

(* 216-230: the first layer; B = (id<<16)+F(pi) *)
FirstLayer ==
  /\ Goto("first", "last")
  /\ LET first == {m \in PairNos : B(2 * m) % 2 = 1}
         F(x) == IF x \div 2 \in first THEN Xor1(x) ELSE x
     IN  /\ out' = Flipped(pos, first)
         /\ temp' = SortB(SetB([x \in Xs |-> Word(A(x), F(x))]))
  /\ UNCHANGED <<pi, calls, i>>

(* 222, 232 *)
LastLayerAt == pos + (2 * w - 2) * step * (n \div 2)

(* 234-248: the last layer; A = (id<<16)+F(pi(L)) = (id<<16)+M *)
LastLayer ==
  /\ Goto("last", "split")
  /\ LET last == {m \in PairNos : B(2 * m) % 2 = 1}
         L(x) == IF x \div 2 \in last THEN Xor1(x) ELSE x
     IN  /\ out' = Flipped(LastLayerAt, last)
         /\ temp' = SortA(SetA([x \in Xs |-> Word(L(x), Low(B(x)))]))
  /\ UNCHANGED <<pi, calls, i>>

(* With a bug: the second call is given the permutation of the first. *)
SecondOffset_Same == n + n \div 4

SecondOffset == n + n \div 2

(***************************************************************************)
(* 250-278: half of M on the even and half on the odd places, two elements *)
(* to a word; both calls work in the first n words, and the second reads   *)
(* its permutation when the first has returned.                            *)
(***************************************************************************)
Split ==
  /\ Goto("split", "call")
  /\ LET M(x) == Low(A(x)) \div 2
         q == n \div 4
         even(m) == 4 * (m - (n + q))
         odd(m)  == 4 * (m - (n + 2 * q)) + 1
         Two(x)  == Word(M(x + 2), M(x))
         from == pos + step * (n \div 2)
         Sub(at, off0) == [pos |-> at, step |-> 2 * step, off |-> off0, w |-> w - 1]
     IN  /\ temp' = [m \in DOMAIN temp |->
                       CASE m \in (n + q)..(n + 2 * q - 1) -> Two(even(m))
                         [] m \in (n + 2 * q)..(n + 3 * q - 1) -> Two(odd(m))
                         [] OTHER -> temp[m]]
         /\ calls' = <<Sub(from, n + q), Sub(from + step, SecondOffset)>> \o Tail(calls)
  /\ UNCHANGED <<pi, out, i>>

(* 36-55 *)
test_layer(p, cb, stride) ==
  [x \in DOMAIN p |-> IF PairOf(x, stride) \in cb THEN p[Partner(x, stride)] ELSE p[x]]

(* 309-323: a layer takes n >> 4 bytes of sub. *)
pi_test ==
  LET p[m \in 0..Layers(W)] ==
        IF m = 0 THEN [x \in 0..(N - 1) |-> x]
        ELSE test_layer(p[m - 1], LayerBits(out, W, m - 1), 2^Level(W, m - 1))
  IN  p[Layers(W)]

(***************************************************************************)
(* 309-331.  sub is narrowed to nothing by the layers and diff is not      *)
(* cleared: a round after a first difference is not possible, its          *)
(* cbrecursion would index past the end of sub.                            *)
(***************************************************************************)
Verify ==
  /\ pc = "call" /\ calls = <<>>
  /\ pc' = IF pi_test = pi THEN "verified" ELSE "panic"
  /\ UNCHANGED <<pi, temp, out, calls, i>>

CbNext ==
  \/ Base \/ Pibar \/ Invert \/ Square \/ PackNarrow \/ PackWide
  \/ NarrowInvert \/ NarrowApply \/ NarrowMinimum
  \/ WideInvert \/ WideSquare \/ WideBoth \/ WideApply \/ WideMinimum
  \/ KeepMinima \/ InvertPi \/ FirstLayer \/ LastLayer \/ Split \/ Verify

-------------------------------------------------------------------------------
(* Properties.                                                             *)

(* The words of temp that are not negative. *)
Words == 0..(2^(2 * WIDE - 1) - 1)

(* No word becomes negative (2^31 or more), and the bits written are bits of out. *)
CbTypeOK ==
  /\ pi \in Perms
  /\ temp \in [0..(2 * N - 1) -> Words]
  /\ out \subseteq 0..((2 * W - 1) * 2^(W - 1) - 1)
  /\ \A c \in {calls[m] : m \in DOMAIN calls} :
       /\ c.w \in 1..W /\ c.step * 2^c.w = N
       /\ c.off \in 0..(2 * N)
  /\ i \in 0..W

(* The words whose two fields are below m. *)
FieldsBelow(m) == {h * 2^WIDE + x : h \in 0..(m - 1), x \in 0..(m - 1)}

(* The words (p << 10) + c with p < m, and those with a third field above. *)
NarrowBelow(m) == 0..(m * 2^NARROW - 1)
NarrowInLow(m) == {v \in Words : v % 2^(2 * NARROW) \in NarrowBelow(m)}

CallSet == [pos : Nat, step : Nat \ {0}, off : Nat, w : 1..W]

(* The bits of a call lie in one row of out, and its permutation, if it is *)
(* in temp, behind the words that the call and those inside it write.      *)
CallFits(c) ==
  /\ c.step * 2^c.w = N
  /\ c.pos - (W - c.w) * 2^(W - 1) \in 0..(c.step - 1)
  /\ \/ c.off = 0 /\ c.w = W
     \/ /\ c.off # 0
        /\ 2 * 2^c.w <= c.off /\ c.off + 2^(c.w - 1) <= 2 * N
        /\ \A x \in c.off..(c.off + 2^(c.w - 1) - 1) : temp[x] \in FieldsBelow(2^c.w)

(* A call leaves the permutations of those that wait alone. *)
CallsInv ==
  /\ calls \in Seq(CallSet)
  /\ \A k \in 1..Len(calls) : CallFits(calls[k])
  /\ \A j, k \in 1..Len(calls) : j < k => 2 * 2^calls[j].w <= calls[k].off

Narrow  == {"narrow", "apply", "minimum"}
Wide    == {"wide", "widesquare", "wideboth", "wideapply", "wideminimum"}
Working == {"pairs", "square", "pack", "minima", "first", "last", "split"} \cup Narrow \cup Wide

(* The words of A, and of B, before the step at p. *)
InA(p) ==
  CASE p \in {"narrow", "wide", "minima"} -> Words
    [] p = "minimum" -> NarrowInLow(n)
    [] OTHER -> FieldsBelow(n)

InB(p) ==
  CASE p \in {"pairs", "minima", "first", "split"} -> Words
    [] p \in Narrow -> NarrowBelow(n)
    [] OTHER -> FieldsBelow(n)

(* The round, and the width, that the step at p belongs to. *)
RoundFits(p, k) ==
  /\ p \in Narrow => w <= NARROW
  /\ p \in {"narrow", "wide"} => k <= w - 1
  /\ p \in Narrow \cup Wide /\ p \notin {"narrow", "wide"} => k <= w - 2

WorkInv ==
  /\ calls # <<>> /\ w >= 2
  /\ \A x \in 0..(n - 1) : temp[x] \in InA(pc)
  /\ \A x \in n..(2 * n - 1) : temp[x] \in InB(pc)
  /\ RoundFits(pc, i)

(***************************************************************************)
(* The fields packed into a word never run into each other: wherever a     *)
(* step takes words of A and B apart, both fields are elements of the      *)
(* call's permutation, p is one in (p << 10) + c (controlbits.rs:129-199), *)
(* and the words that wait as permutations of later calls are two elements *)
(* each, in words that no call before them writes (controlbits.rs:250-278).*)
(***************************************************************************)
FieldsApart == CallsInv /\ (pc \in Working => WorkInv)

(***************************************************************************)
(* At every step, the network of the bits computed so far, with the        *)
(* permutation that a call is given in the place of the bits it has yet to *)
(* compute, permutes by pi.  So the first call's writes to temp leave the  *)
(* second's permutation alone, and no call touches the bits of another.    *)
(***************************************************************************)
ImageUnder[v \in 1..W, at \in Nat, x \in Nat] ==
  LET every == 2^(W - v)          \* the step of the calls of width v
      open == {m \in DOMAIN calls : calls[m].pos = at /\ calls[m].w = v}
      half == 2^(v - 1)
      Swap(first, y) == IF first + every * (y \div 2) \in out THEN Xor1(y) ELSE y
      Inner(y) ==
        2 * ImageUnder[v - 1, at + every * (half + (y % 2)), y \div 2] + (y % 2)
  IN  CASE open # {} -> Image(calls[Min(open)], x)
        [] v = 1     -> Swap(at, x)
        [] OTHER     -> Swap(at, Inner(Swap(at + (2 * v - 2) * every * half, x)))

NetworkSoFar ==
  pc \in {"call", "pairs", "first"} =>
    \A x \in 0..(N - 1) : ImageUnder[W, 0, x] = pi[x]

(***************************************************************************)
(* pibar takes the partner of pi(x) to the image of the partner of x.  B   *)
(* ends as the smallest element of the cycle of pibar through every x,     *)
(* found by w - 2 doublings, which look forward along the cycle in the     *)
(* rounds for w <= 10 and in both directions in the others                 *)
(* (controlbits.rs:108-199).                                               *)
(***************************************************************************)
CycleMinima ==
  pc = "first" =>
    LET pibar == [y \in {Xor1(perm(x)) : x \in Xs} |->
                    perm(Xor1(CHOOSE x \in Xs : perm(x) = Xor1(y)))] @@ <<>>
        Extend(s) == Append(s, pibar[Last(s)])
        Orbit(x) ==
          LET s[m \in 0..(n - 1)] == IF m = 0 THEN <<x>> ELSE Extend(s[m - 1])
          IN  s[n - 1]
        Cycle(x) == Range(Orbit(x))
    IN  \A x \in Xs : B(x) = Min(Cycle(x))

(* The control bits are right at the first attempt (controlbits.rs:305-332). *)
NoRetry == pc # "panic"
===============================================================================
