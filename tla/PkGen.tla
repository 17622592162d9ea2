-------------------------------- MODULE PkGen ---------------------------------
(***************************************************************************)
(* pk_gen (src/pk_gen.rs:188-373) and mov_columns (57-180), step by step:  *)
(* the sort of perm into pi, the parity check matrix, its reduction to     *)
(* systematic form, the semi-systematic variants' search for pivots in a   *)
(* window of WIN_ROWS x WIN_COLS (32 x 64 in the code), and the public key *)
(* cut out of the result.  One action per round of each inner loop.        *)
(*                                                                         *)
(* A row is the set of its columns that hold a 1 (see Goppa).  Row number  *)
(* i*8 + j of the code is row, and bit j of byte i is column row.          *)
(***************************************************************************)
EXTENDS Goppa

CONSTANTS
  SEMI,       \* TRUE for the "f" features, which call mov_columns
  WIN_ROWS,   \* 32: the rows mov_columns works on
  WIN_COLS,   \* 64: the columns of its window
  Inputs      \* the arguments: records of a polynomial g and of perm

MovRow == PK_NROWS - WIN_ROWS        \* PK_NROWS - 32

WRows == 0..(WIN_ROWS - 1)
WCols == 0..(WIN_COLS - 1)

ASSUME PkGenAssumption ==
  /\ SEMI \in BOOLEAN
  /\ WIN_ROWS \in Nat \ {0}
  /\ WIN_COLS \in Nat
  /\ WIN_ROWS <= PK_NROWS
  /\ WIN_ROWS <= WIN_COLS
  /\ MovRow + WIN_COLS <= SYS_N
  /\ Inputs \subseteq [g : Poly, perm : [Idx -> Nat]]

VARIABLES
  in,         \* the arguments sk (its polynomial, as g) and perm
  pi,         \* &mut pi
  pivots,     \* &mut pivots: the set of the 1 bits
  pk,         \* &mut pk: the PK_NCOLS columns kept of each row
  mat,        \* the matrix
  row,        \* the row being reduced
  k,          \* the other row of the two inner loops
  buf,        \* mov_columns: the window
  ctz_list,   \* mov_columns: the pivot column of each of its rows
  i,          \* mov_columns: the window row being reduced
  j,          \* mov_columns: the counter of its inner loops
  pc

wvars == <<buf, ctz_list, i, j>>                  \* the locals of mov_columns
vars  == <<in, pi, pivots, pk, mat, row, k, buf, ctz_list, i, j, pc>>

PcValues == {"sort", "matrix", "row", "add", "clear",
             "mc_pivot", "mc_add", "mc_clear", "mc_pi", "mc_cols",
             "done", "failed"}

Terminal == {"done", "failed"}

Goto(from, to) == pc = from /\ pc' = to

(* The matrix before it is filled, and after mat.zeroize(). *)
ZeroMatrix == [r \in Rows |-> {}]

(* What the caller's buffer may hold before the call: anything. *)
StalePk == [r \in Rows |-> 0..(PK_NCOLS - 1)]

Init ==
  /\ in \in Inputs
  /\ pi = [n \in Idx |-> 0]
  /\ pivots = {}
  /\ pk = StalePk
  /\ mat = ZeroMatrix
  /\ row = 0
  /\ k = 0
  /\ buf = [w \in WRows |-> {}]
  /\ ctz_list = [w \in WRows |-> 0]
  /\ i = 0
  /\ j = 0
  /\ pc = "sort"

-------------------------------------------------------------------------------
(* src/pk_gen.rs:223-276: sorting, duplicates, the matrix.                 *)

(* The order of the keys perm[n] << 31 | n. *)
KeyLess(perm, a, b) ==
  \/ perm[a] < perm[b]
  \/ perm[a] = perm[b] /\ a < b

Rank(perm, n) == Cardinality({m \in Idx : KeyLess(perm, m, n)})

(* The low bits of the sorted keys, masked with GFMASK. *)
SortedPi(perm) == [n \in Idx |-> CHOOSE m \in Idx : Rank(perm, m) = n]

(* With a bug: the neighbours are not compared. *)
HasDuplicate_Unseen(perm) == FALSE

(* Equal values end up next to each other: the loop at 231 sees them. *)
HasDuplicate(perm) ==
  \E n \in Idx : n > 0 /\ perm[SortedPi(perm)[n - 1]] = perm[SortedPi(perm)[n]]

SortFails ==
  /\ Goto("sort", "failed")
  /\ HasDuplicate(in.perm)
  /\ UNCHANGED <<in, pi, pivots, pk, mat, row, k, wvars>>

Sort ==
  /\ Goto("sort", "matrix")
  /\ ~ HasDuplicate(in.perm)
  /\ pi' = SortedPi(in.perm)
  /\ UNCHANGED <<in, pivots, pk, mat, row, k, wvars>>

Matrix ==
  /\ Goto("matrix", "row")
  /\ mat' = FillMatrix(in.g, pi)
  /\ row' = 0
  /\ UNCHANGED <<in, pi, pivots, pk, k, wvars>>

-------------------------------------------------------------------------------
(* src/pk_gen.rs:280-344: one round of the elimination for each row.       *)

AtWindow == SEMI /\ row = MovRow

StartRow ==
  /\ Goto("row", "add")
  /\ row < PK_NROWS
  /\ ~ AtWindow
  /\ k' = row + 1
  /\ UNCHANGED <<in, pi, pivots, pk, mat, row, wvars>>

(* 310-319: row k is added whenever the two bits of column row differ. *)
AddRow ==
  /\ pc = "add"
  /\ k < PK_NROWS
  /\ mat' = IF (row \in mat[row]) # (row \in mat[k])
            THEN [mat EXCEPT ![row] = SymDiff(@, mat[k])]
            ELSE mat
  /\ k' = k + 1
  /\ UNCHANGED <<in, pi, pivots, pk, row, wvars, pc>>

(* 321-328: "return if not systematic". *)
NotSystematic ==
  /\ Goto("add", "failed")
  /\ k = PK_NROWS
  /\ row \notin mat[row]
  /\ mat' = ZeroMatrix
  /\ UNCHANGED <<in, pi, pivots, pk, row, k, wvars>>

PivotFound ==
  /\ Goto("add", "clear")
  /\ k = PK_NROWS
  /\ row \in mat[row]
  /\ k' = 0
  /\ UNCHANGED <<in, pi, pivots, pk, mat, row, wvars>>

(* With a bug: only the rows below are cleared. *)
IsCleared_Below == k > row /\ row \in mat[k]

(* With a bug: the row is added to itself. *)
IsCleared_Itself == row \in mat[k]

(* 331-337: does row k get row added? *)
IsCleared == k # row /\ row \in mat[k]

(* 330-342: column row is cleared in every other row. *)
ClearColumn ==
  /\ pc = "clear"
  /\ k < PK_NROWS
  /\ mat' = IF IsCleared
            THEN [mat EXCEPT ![k] = SymDiff(@, mat[row])]
            ELSE mat
  /\ k' = k + 1
  /\ UNCHANGED <<in, pi, pivots, pk, row, wvars, pc>>

RowDone ==
  /\ Goto("clear", "row")
  /\ k = PK_NROWS
  /\ row' = row + 1
  /\ UNCHANGED <<in, pi, pivots, pk, mat, k, wvars>>

(* With a bug: the cut is one column early. *)
KeptColumns_Early(r) ==
  {c \in 0..(PK_NCOLS - 1) : c + PK_NROWS - 1 \in mat[r]}

(* With a bug: the whole row is kept. *)
KeptColumns_All(r) == {c - PK_NROWS : c \in mat[r]}

(* 351-364: the columns right of the unit matrix. *)
KeptColumns(r) == {c \in 0..(PK_NCOLS - 1) : c + PK_NROWS \in mat[r]}

Extract ==
  /\ Goto("row", "done")
  /\ row = PK_NROWS
  /\ pk' = [r \in Rows |-> KeptColumns(r)]
  /\ mat' = ZeroMatrix
  /\ UNCHANGED <<in, pi, pivots, row, k, wvars>>

-------------------------------------------------------------------------------
(* src/pk_gen.rs:57-180: mov_columns, called at row PK_NROWS - 32.         *)

(* 73-93: the window is copied, shifted so that its column 0 is row. *)
McLoad ==
  /\ Goto("row", "mc_pivot")
  /\ AtWindow
  /\ buf' = [w \in WRows |-> {c \in WCols : row + c \in mat[row + w]}]
  /\ ctz_list' = [w \in WRows |-> 0]
  /\ pivots' = {}
  /\ i' = 0
  /\ UNCHANGED <<in, pi, pk, mat, row, k, j>>

(* 95-98: t, the OR of the window rows still to be reduced. *)
Candidates == UNION {buf[w] : w \in i..(WIN_ROWS - 1)}

(* 100-102; pk_gen then zeroizes mat and returns -1 (299-306). *)
McNotFullRank ==
  /\ Goto("mc_pivot", "failed")
  /\ Candidates = {}
  /\ mat' = ZeroMatrix
  /\ UNCHANGED <<in, pi, pivots, pk, row, k, wvars>>

McPivot ==
  /\ Goto("mc_pivot", "mc_add")
  /\ Candidates # {}
  /\ ctz_list' = [ctz_list EXCEPT ![i] = Min(Candidates)]
  /\ pivots' = pivots \cup {Min(Candidates)}
  /\ j' = i + 1
  /\ UNCHANGED <<in, pi, pk, mat, row, k, buf, i>>

(* 109-113: row j is added as long as row i lacks the pivot bit. *)
McAdd ==
  /\ pc = "mc_add"
  /\ j < WIN_ROWS
  /\ buf' = IF ctz_list[i] \notin buf[i]
            THEN [buf EXCEPT ![i] = SymDiff(@, buf[j])]
            ELSE buf
  /\ j' = j + 1
  /\ UNCHANGED <<in, pi, pivots, pk, mat, row, k, ctz_list, i, pc>>

McAddDone ==
  /\ Goto("mc_add", "mc_clear")
  /\ j = WIN_ROWS
  /\ j' = i + 1
  /\ UNCHANGED <<in, pi, pivots, pk, mat, row, k, buf, ctz_list, i>>

(* With a bug: the row next to row i keeps the bit. *)
McIsCleared_SkipsOne == j > i + 1 /\ ctz_list[i] \in buf[j]

(* 116-117: does row j get row i added? *)
McIsCleared == ctz_list[i] \in buf[j]

(* 115-119: the pivot bit is cleared in the rows below. *)
McClear ==
  /\ pc = "mc_clear"
  /\ j < WIN_ROWS
  /\ buf' = IF McIsCleared
            THEN [buf EXCEPT ![j] = SymDiff(@, buf[i])]
            ELSE buf
  /\ j' = j + 1
  /\ UNCHANGED <<in, pi, pivots, pk, mat, row, k, ctz_list, i, pc>>

McNextRow ==
  /\ Goto("mc_clear", "mc_pivot")
  /\ j = WIN_ROWS
  /\ i + 1 < WIN_ROWS
  /\ i' = i + 1
  /\ UNCHANGED <<in, pi, pivots, pk, mat, row, k, buf, ctz_list, j>>

McReduced ==
  /\ Goto("mc_clear", "mc_pi")
  /\ j = WIN_ROWS
  /\ i + 1 = WIN_ROWS
  /\ j' = 0
  /\ UNCHANGED <<in, pi, pivots, pk, mat, row, k, buf, ctz_list, i>>

(* With a bug: the second of the two values is lost. *)
Exchanged_Loses(p, a, b) == [p EXCEPT ![a] = p[b]]

Exchanged(p, a, b) == [p EXCEPT ![a] = p[b], ![b] = p[a]]

(* With a bug: the loop over k starts one position late. *)
RightOf_Late(w) == (w + 2)..(WIN_COLS - 1)

(* 124: the positions the loop over k reaches for position w. *)
RightOf(w) == (w + 1)..(WIN_COLS - 1)

(* 123-130: position row + j of pi is exchanged with row + ctz_list[j].    *)
McSwapPi ==
  /\ pc = "mc_pi"
  /\ j < WIN_ROWS
  /\ pi' = IF ctz_list[j] \in RightOf(j)
           THEN Exchanged(pi, row + j, row + ctz_list[j])
           ELSE pi
  /\ j' = j + 1
  /\ UNCHANGED <<in, pivots, pk, mat, row, k, buf, ctz_list, i, pc>>

McPiDone ==
  /\ Goto("mc_pi", "mc_cols")
  /\ j = WIN_ROWS
  /\ j' = 0
  /\ UNCHANGED <<in, pi, pivots, pk, mat, row, k, buf, ctz_list, i>>

(* With a bug: the columns stay where they are. *)
SwapBits_Not(r, a, b) == r

(* A row with the bits a and b exchanged when they differ. *)
SwapBits(r, a, b) == IF (a \in r) # (b \in r) THEN SymDiff(r, {a, b}) ELSE r

(* 134-177: columns row + j and row + ctz_list[j] of every row.  The code *)
(* runs the loop over j inside the one over the rows, which do not        *)
(* interact.                                                              *)
McSwapColumns ==
  /\ pc = "mc_cols"
  /\ j < WIN_ROWS
  /\ mat' = [r \in Rows |-> SwapBits(mat[r], row + j, row + ctz_list[j])]
  /\ j' = j + 1
  /\ UNCHANGED <<in, pi, pivots, pk, row, k, buf, ctz_list, i, pc>>

McReturn ==
  /\ Goto("mc_cols", "add")
  /\ j = WIN_ROWS
  /\ k' = row + 1
  /\ UNCHANGED <<in, pi, pivots, pk, mat, row, wvars>>

-------------------------------------------------------------------------------
MovColumns ==
  \/ McLoad    \/ McNotFullRank \/ McPivot
  \/ McAdd     \/ McAddDone     \/ McClear  \/ McNextRow \/ McReduced
  \/ McSwapPi  \/ McPiDone      \/ McSwapColumns \/ McReturn

Eliminate ==
  \/ StartRow \/ AddRow \/ NotSystematic \/ PivotFound \/ ClearColumn \/ RowDone

(* pk_gen has returned. *)
Returned == pc \in Terminal /\ UNCHANGED vars

Next ==
  \/ SortFails \/ Sort \/ Matrix
  \/ Eliminate
  \/ MovColumns
  \/ Extract
  \/ Returned

Spec == Init /\ [][Next]_vars

-------------------------------------------------------------------------------
(* Properties.                                                             *)

TypeOK ==
  /\ in \in Inputs
  /\ pi \in [Idx -> Idx]
  /\ pivots \subseteq WCols
  /\ pk \in [Rows -> SUBSET (0..(PK_NCOLS - 1))]
  /\ mat \in [Rows -> SUBSET Cols]
  /\ row \in 0..PK_NROWS
  /\ k \in 0..PK_NROWS
  /\ buf \in [WRows -> SUBSET WCols]
  /\ ctz_list \in [WRows -> WCols]
  /\ i \in WRows
  /\ j \in 0..WIN_ROWS
  /\ pc \in PcValues

(* The rows of column c that hold a 1. *)
Column(m, c) == {r \in DOMAIN m : c \in m[r]}

(***************************************************************************)
(* Once a row has been reduced its column is a unit vector and stays one:  *)
(* neither the additions to later rows nor mov_columns, which exchanges    *)
(* columns of the whole matrix, disturbs it (pk_gen.rs:310-342, 134-177).  *)
(***************************************************************************)
UnitColumns ==
  pc \notin Terminal => \A c \in 0..(row - 1) : Column(mat, c) = {c}

(* pi is a permutation once perm is sorted: the swaps of mov_columns       *)
(* (pk_gen.rs:123-130) neither lose nor duplicate a support element.       *)
PiIsPermutation ==
  pc # "sort" /\ ~ (pc = "failed" /\ HasDuplicate(in.perm)) => IsInjective(pi)

(***************************************************************************)
(* Between rows the matrix is row equivalent to the parity check matrix of *)
(* the support pi lists: whatever mov_columns does to the columns of mat   *)
(* it does to pi, in the same order, and no elimination step loses a row.  *)
(***************************************************************************)
RowSpaceFollowsPi ==
  pc = "row" => RowSpace(mat) = RowSpace(FillMatrix(in.g, pi))

(***************************************************************************)
(* The pivots mov_columns finds go up (a later row has none left of an     *)
(* earlier pivot), so none is left of its own target column: the swap loop *)
(* of pi, which only looks right, and the swap of the columns agree.  The  *)
(* mask stored in the secret key lists exactly these pivots.               *)
(***************************************************************************)
PivotsGoUp ==
  /\ pc \in {"mc_pi", "mc_cols"} =>
       /\ \A a \in WRows : ctz_list[a] >= a
       /\ \A a, b \in WRows : a < b => ctz_list[a] < ctz_list[b]
       /\ pivots = {ctz_list[a] : a \in WRows}
  /\ pc \in {"mc_pivot", "mc_add", "mc_clear"} =>
       \A a \in 0..(i - 1) : \A w \in i..(WIN_ROWS - 1) :
         \A c \in buf[w] : ctz_list[a] < c

(***************************************************************************)
(* The public key: with the unit matrix put back on its left, pk generates *)
(* the row space of the parity check matrix of the Goppa code given by the *)
(* polynomial and by pi - the code the secret key will decode.             *)
(***************************************************************************)
PkMatrix == [r \in Rows |-> {r} \cup {PK_NROWS + c : c \in pk[r]}]

PublicKeyMatchesSupport ==
  pc = "done" => RowSpace(PkMatrix) = RowSpace(FillMatrix(in.g, pi))

(***************************************************************************)
(* pk_gen fails exactly when it must (pk_gen.rs:101, 233, 327): on equal   *)
(* perm values, or when the leading columns of the matrix do not have what *)
(* the variant needs: PK_NROWS that can be made unit vectors, or MovRow of *)
(* them and full rank up to the end of the window.                         *)
(***************************************************************************)
HasSystematicForm ==
  LET h == FillMatrix(in.g, SortedPi(in.perm))
  IN  IF SEMI THEN Systematic(h, MovRow) /\ Independent(h, MovRow + WIN_COLS)
              ELSE Systematic(h, PK_NROWS)

FailsExactlyWhenSingular ==
  pc \in Terminal =>
    (pc = "done" <=> IsInjective(in.perm) /\ HasSystematicForm)

(***************************************************************************)
(* What a reader of the secret key can rely on: the pivots mask names the  *)
(* positions of the sorted permutation that were moved to the front of the *)
(* window (operations.rs:329 stores it), and pi differs from the sorted    *)
(* permutation inside the window only.                                     *)
(***************************************************************************)
PivotsRecordTheMove ==
  pc = "done" /\ SEMI =>
    LET sorted == SortedPi(in.perm)
    IN  /\ {sorted[MovRow + c] : c \in pivots} = {pi[MovRow + w] : w \in WRows}
        /\ \A n \in Idx : n - MovRow \notin WCols => pi[n] = sorted[n]

(* After mov_columns has returned 0 the elimination meets no row without a *)
(* pivot: the semi-systematic variants can only fail up to the window.     *)
NoFailureAfterWindow ==
  [][SEMI /\ row >= MovRow /\ pc = "add" => pc' # "failed"]_vars
===============================================================================
