----------------------------- MODULE PkGenProofs ------------------------------
(***************************************************************************)
(* Theorems about PkGen for every field, every number of rows and columns, *)
(* every window and every matrix.  First type correctness, that a reduced  *)
(* column stays a unit vector, that pi stays a permutation, that the       *)
(* pivots of mov_columns go up, and that they describe what became of pi.  *)
(* Then, over these, what pk_gen computes: the matrix stays row equivalent *)
(* to the parity check matrix of the support pi lists, the public key      *)
(* generates the same code, pk_gen fails exactly when that matrix has no   *)
(* (semi-)systematic form, and never after the window.                     *)
(***************************************************************************)
EXTENDS PkGen, LinearLemmas

(* The constants are numbers the arithmetic of the proofs can use. *)
LEMMA Sizes ==
  /\ GFBITS \in Nat /\ SYS_N \in Nat /\ 2^GFBITS \in Nat
  /\ PK_NROWS \in Nat /\ PK_NROWS < SYS_N /\ SYS_N <= 2^GFBITS
  /\ PK_NCOLS \in Nat
  /\ WIN_ROWS \in Nat /\ WIN_ROWS > 0
  /\ WIN_COLS \in Nat /\ WIN_ROWS <= WIN_COLS
  /\ MovRow \in Nat /\ MovRow + WIN_ROWS = PK_NROWS
  /\ MovRow + WIN_COLS <= SYS_N
<1>1. PK_NROWS \in Nat
  BY GFAssumption, GoppaAssumption DEF PK_NROWS
<1>. QED
  BY <1>1, GFAssumption, GoppaAssumption, PkGenAssumption
  DEF PK_NCOLS, MovRow

(* The window lies within the matrix and within pi. *)
LEMMA WindowInside ==
  /\ \A w \in WRows : MovRow + w \in Rows /\ w \in WCols
  /\ \A c \in WCols : MovRow + c \in Cols /\ MovRow + c \in Idx
  /\ \A n \in 0..WIN_ROWS : n < WIN_ROWS => n \in WRows
BY Sizes DEF WRows, WCols, Rows, Cols, Idx

-------------------------------------------------------------------------------
(* Sorting.                                                                *)

LEMMA IdxFinite == IsFiniteSet(Idx) /\ Cardinality(Idx) = 2^GFBITS
BY Sizes, FS_Interval DEF Idx

(* The keys are in a strict total order. *)
LEMMA KeyOrder ==
  ASSUME NEW perm \in [Idx -> Nat], NEW a \in Idx, NEW b \in Idx
  PROVE  /\ ~ KeyLess(perm, a, a)
         /\ a # b => KeyLess(perm, a, b) \/ KeyLess(perm, b, a)
         /\ \A c \in Idx :
              KeyLess(perm, a, b) /\ KeyLess(perm, b, c) => KeyLess(perm, a, c)
BY Sizes DEF KeyLess, Idx

LEMMA RankInIdx ==
  ASSUME NEW perm \in [Idx -> Nat], NEW n \in Idx
  PROVE  Rank(perm, n) \in Idx
<1>. DEFINE below == {m \in Idx : KeyLess(perm, m, n)}
<1>1. below \subseteq Idx \ {n}
  BY KeyOrder
<1>2. IsFiniteSet(Idx \ {n}) /\ Cardinality(Idx \ {n}) = 2^GFBITS - 1
  BY IdxFinite, FS_RemoveElement
<1>3. IsFiniteSet(below) /\ Cardinality(below) <= 2^GFBITS - 1
  BY <1>1, <1>2, FS_Subset
<1>4. Cardinality(below) \in Nat
  BY <1>3, FS_CardinalityType
<1>. QED
  BY <1>3, <1>4, Sizes DEF Rank, Idx

LEMMA RankGrows ==
  ASSUME NEW perm \in [Idx -> Nat], NEW a \in Idx, NEW b \in Idx,
         KeyLess(perm, a, b)
  PROVE  Rank(perm, a) < Rank(perm, b)
<1>. DEFINE A == {m \in Idx : KeyLess(perm, m, a)}
            B == {m \in Idx : KeyLess(perm, m, b)}
<1>1. A \subseteq B
  BY KeyOrder
<1>2. a \in B /\ a \notin A
  BY KeyOrder
<1>3. IsFiniteSet(B)
  BY IdxFinite, FS_Subset
<1>4. /\ IsFiniteSet(A)
      /\ Cardinality(A) <= Cardinality(B)
      /\ Cardinality(A) # Cardinality(B)
  BY <1>1, <1>2, <1>3, FS_Subset
<1>5. Cardinality(A) \in Nat /\ Cardinality(B) \in Nat
  BY <1>3, <1>4, FS_CardinalityType
<1>. QED
  BY <1>4, <1>5 DEF Rank

(* The sorted order is a permutation, even when perm has equal values:     *)
(* the index in the low bits of the keys keeps them apart.                 *)
LEMMA SortedPiIsPermutation ==
  ASSUME NEW perm \in [Idx -> Nat]
  PROVE  /\ SortedPi(perm) \in [Idx -> Idx]
         /\ \A n \in Idx : Rank(perm, SortedPi(perm)[n]) = n
         /\ IsInjective(SortedPi(perm))
<1>. DEFINE f == [m \in Idx |-> Rank(perm, m)]
<1>1. f \in [Idx -> Idx]
  BY RankInIdx
<1>2. ASSUME NEW a \in Idx, NEW b \in Idx, a # b  PROVE f[a] # f[b]
  <2>1. Rank(perm, a) \in Int /\ Rank(perm, b) \in Int
    BY RankInIdx, Sizes DEF Idx
  <2>. QED
    BY <1>2, <2>1, KeyOrder, RankGrows
<1>3. ASSUME NEW n \in Idx  PROVE \E m \in Idx : Rank(perm, m) = n
  <2>1. \A a, b \in Idx : f[a] = f[b] => a = b
    BY <1>2
  <2>2. \E m \in Idx : f[m] = n
    <3>. HIDE DEF f
    <3>. QED
      BY <1>1, <2>1, IdxFinite, InjectionIsOnto
  <2>. QED
    BY <2>2
<1>4. \A n \in Idx : /\ SortedPi(perm)[n] \in Idx
                     /\ Rank(perm, SortedPi(perm)[n]) = n
  BY <1>3 DEF SortedPi
<1>5. IsInjective(SortedPi(perm))
  BY <1>4 DEF IsInjective, SortedPi
<1>. QED
  BY <1>4, <1>5 DEF SortedPi


-------------------------------------------------------------------------------
(* Type correctness, with what the program counter says of the counters.   *)

McPcs == {"mc_pivot", "mc_add", "mc_clear", "mc_pi", "mc_cols"}

Control ==
  /\ pc \in {"add", "clear"} => row < PK_NROWS
  /\ pc = "add" => row < k
  /\ pc \in McPcs => row = MovRow
  /\ pc \in {"mc_add", "mc_clear"} => i < j

TypeInv == TypeOK /\ Control

LEMMA InitTypeInv == Init => TypeInv
<1>. SUFFICES ASSUME Init  PROVE TypeInv
  OBVIOUS
<1>1. in \in Inputs /\ pi \in [Idx -> Idx] /\ pivots \subseteq WCols
  BY Sizes DEF Init, Idx, WCols
<1>2. pk \in [Rows -> SUBSET (0..(PK_NCOLS - 1))] /\ mat \in [Rows -> SUBSET Cols]
  BY DEF Init, StalePk, ZeroMatrix
<1>3. /\ buf \in [WRows -> SUBSET WCols] /\ ctz_list \in [WRows -> WCols]
      /\ i \in WRows /\ j \in 0..WIN_ROWS
      /\ row \in 0..PK_NROWS /\ k \in 0..PK_NROWS
  BY Sizes DEF Init, WRows, WCols
<1>. QED
  BY <1>1, <1>2, <1>3 DEF Init, TypeInv, TypeOK, Control, PcValues, McPcs

(* Adding one row to another keeps the type of the matrix. *)
LEMMA AddRowType ==
  ASSUME NEW m \in [Rows -> SUBSET Cols], NEW r \in Rows, NEW s \in Rows
  PROVE  [m EXCEPT ![r] = SymDiff(@, m[s])] \in [Rows -> SUBSET Cols]
<1>1. SymDiff(m[r], m[s]) \in SUBSET Cols
  BY SymDiffType
<1>. QED
  BY <1>1

LEMMA WindowAddType ==
  ASSUME NEW b \in [WRows -> SUBSET WCols], NEW r \in WRows, NEW s \in WRows
  PROVE  [b EXCEPT ![r] = SymDiff(@, b[s])] \in [WRows -> SUBSET WCols]
<1>1. SymDiff(b[r], b[s]) \in SUBSET WCols
  BY SymDiffType
<1>. QED
  BY <1>1

LEMMA SwapBitsType ==
  ASSUME NEW r \in SUBSET Cols, NEW a \in Cols, NEW b \in Cols
  PROVE  SwapBits(r, a, b) \in SUBSET Cols
BY SymDiffType DEF SwapBits

(* ctz of a nonzero word is the position of one of its bits. *)
LEMMA PivotType ==
  ASSUME TypeOK, Candidates # {}
  PROVE  /\ Min(Candidates) \in Candidates
         /\ \A c \in Candidates : Min(Candidates) <= c
         /\ Min(Candidates) \in WCols
<1>1. Candidates \in SUBSET WCols
  <2>1. \A w \in i..(WIN_ROWS - 1) : w \in WRows
    BY Sizes DEF TypeOK, WRows
  <2>2. \A w \in i..(WIN_ROWS - 1) : buf[w] \subseteq WCols
    BY <2>1 DEF TypeOK
  <2>. QED
    BY <2>2 DEF Candidates
<1>2. Candidates \in SUBSET Nat
  BY <1>1 DEF WCols
<1>. QED
  BY <1>1, <1>2, MinOfNaturals

LEMMA NextTypeInv == TypeInv /\ [Next]_vars => TypeInv'
<1>. SUFFICES ASSUME TypeInv, [Next]_vars  PROVE TypeInv'
  OBVIOUS
<1>. USE DEF TypeInv, TypeOK, Control, PcValues, McPcs, Goto, wvars
<1>1. CASE SortFails
  BY <1>1 DEF SortFails
<1>2. CASE Sort
  <2>1. in.perm \in [Idx -> Nat]
    BY PkGenAssumption
  <2>2. pi' \in [Idx -> Idx]
    BY <1>2, <2>1, SortedPiIsPermutation DEF Sort
  <2>. QED
    BY <1>2, <2>2 DEF Sort
<1>3. CASE Matrix
  <2>1. mat' \in [Rows -> SUBSET Cols]
    BY <1>3 DEF Matrix, FillMatrix
  <2>. QED
    BY <1>3, <2>1, Sizes DEF Matrix
<1>4. CASE StartRow
  BY <1>4, Sizes DEF StartRow
<1>5. CASE AddRow
  <2>1. row \in Rows /\ k \in Rows
    BY <1>5, Sizes DEF AddRow, Rows
  <2>2. mat' \in [Rows -> SUBSET Cols]
    BY <1>5, <2>1, AddRowType DEF AddRow
  <2>. QED
    BY <1>5, <2>2, Sizes DEF AddRow
<1>6. CASE NotSystematic
  BY <1>6 DEF NotSystematic, ZeroMatrix
<1>7. CASE PivotFound
  BY <1>7, Sizes DEF PivotFound
<1>8. CASE ClearColumn
  <2>1. row \in Rows /\ k \in Rows
    BY <1>8, Sizes DEF ClearColumn, Rows
  <2>2. mat' \in [Rows -> SUBSET Cols]
    BY <1>8, <2>1, AddRowType DEF ClearColumn
  <2>. QED
    BY <1>8, <2>2, Sizes DEF ClearColumn
<1>9. CASE RowDone
  BY <1>9, Sizes DEF RowDone
<1>10. CASE Extract
  BY <1>10 DEF Extract, KeptColumns, ZeroMatrix
<1>11. CASE McLoad
  <2>1. buf' \in [WRows -> SUBSET WCols] /\ ctz_list' \in [WRows -> WCols]
    BY <1>11, Sizes DEF McLoad, WCols
  <2>2. i' \in WRows
    BY <1>11, Sizes DEF McLoad, WRows
  <2>. QED
    BY <1>11, <2>1, <2>2 DEF McLoad, AtWindow
<1>12. CASE McNotFullRank
  BY <1>12 DEF McNotFullRank, ZeroMatrix
<1>13. CASE McPivot
  <2>1. Min(Candidates) \in WCols
    BY <1>13, PivotType DEF McPivot
  <2>2. i + 1 \in 0..WIN_ROWS /\ i < i + 1
    BY Sizes DEF WRows
  <2>. QED
    BY <1>13, <2>1, <2>2 DEF McPivot
<1>14. CASE McAdd
  <2>1. i \in WRows /\ j \in WRows
    BY <1>14, Sizes DEF McAdd, WRows
  <2>2. buf' \in [WRows -> SUBSET WCols]
    BY <1>14, <2>1, WindowAddType DEF McAdd
  <2>3. j + 1 \in 0..WIN_ROWS /\ i < j + 1
    BY <1>14, <2>1, Sizes DEF McAdd, WRows
  <2>. QED
    BY <1>14, <2>2, <2>3 DEF McAdd
<1>15. CASE McAddDone
  <2>1. i + 1 \in 0..WIN_ROWS /\ i < i + 1
    BY Sizes DEF WRows
  <2>. QED
    BY <1>15, <2>1 DEF McAddDone
<1>16. CASE McClear
  <2>1. i \in WRows /\ j \in WRows
    BY <1>16, Sizes DEF McClear, WRows
  <2>2. buf' \in [WRows -> SUBSET WCols]
    BY <1>16, <2>1, WindowAddType DEF McClear
  <2>3. j + 1 \in 0..WIN_ROWS /\ i < j + 1
    BY <1>16, <2>1, Sizes DEF McClear, WRows
  <2>. QED
    BY <1>16, <2>2, <2>3 DEF McClear
<1>17. CASE McNextRow
  BY <1>17, Sizes DEF McNextRow, WRows
<1>18. CASE McReduced
  BY <1>18, Sizes DEF McReduced
<1>19. CASE McSwapPi
  <2>0. row = MovRow /\ j \in WRows /\ j \in WCols /\ ctz_list[j] \in WCols
    BY <1>19, WindowInside DEF McSwapPi
  <2>1. row + j \in Idx /\ row + ctz_list[j] \in Idx
    BY <2>0, WindowInside
  <2>2. pi' \in [Idx -> Idx]
    BY <1>19, <2>1 DEF McSwapPi, Exchanged
  <2>3. j + 1 \in 0..WIN_ROWS
    BY <1>19, Sizes DEF McSwapPi
  <2>. QED
    BY <1>19, <2>2, <2>3 DEF McSwapPi
<1>20. CASE McPiDone
  BY <1>20, Sizes DEF McPiDone
<1>21. CASE McSwapColumns
  <2>0. row = MovRow /\ j \in WRows /\ j \in WCols /\ ctz_list[j] \in WCols
    BY <1>21, WindowInside DEF McSwapColumns
  <2>1. row + j \in Cols /\ row + ctz_list[j] \in Cols
    BY <2>0, WindowInside
  <2>2. mat' \in [Rows -> SUBSET Cols]
    BY <1>21, <2>1, SwapBitsType DEF McSwapColumns
  <2>3. j + 1 \in 0..WIN_ROWS
    BY <1>21, Sizes DEF McSwapColumns
  <2>. QED
    BY <1>21, <2>2, <2>3 DEF McSwapColumns
<1>22. CASE McReturn
  BY <1>22, Sizes DEF McReturn
<1>23. CASE UNCHANGED vars
  BY <1>23 DEF vars
<1>. QED
  BY <1>1, <1>2, <1>3, <1>4, <1>5, <1>6, <1>7, <1>8, <1>9, <1>10, <1>11, <1>12,
     <1>13, <1>14, <1>15, <1>16, <1>17, <1>18, <1>19, <1>20, <1>21, <1>22, <1>23
  DEF Next, Eliminate, MovColumns, Returned

(***************************************************************************)
(* Every variable keeps its type, for all sizes: in particular no index of *)
(* mov_columns leaves its array (pi, the matrix, the window, ctz_list).    *)
(***************************************************************************)
THEOREM TypeCorrect == Spec => []TypeOK
<1>1. TypeInv => TypeOK
  BY DEF TypeInv
<1>. QED
  BY <1>1, InitTypeInv, NextTypeInv, PTL DEF Spec


-------------------------------------------------------------------------------
(* Reduced columns.                                                        *)

(***************************************************************************)
(* UnitColumns bit by bit, strengthened with what the loop that clears     *)
(* column row has achieved so far.                                         *)
(***************************************************************************)
UnitInv ==
  /\ pc \notin Terminal =>
       \A c \in 0..(row - 1) : \A r \in Rows : c \in mat[r] <=> r = c
  /\ pc = "clear" =>
       /\ row \in mat[row]
       /\ \A r \in Rows : r < k /\ r # row => row \notin mat[r]

LEMMA UnitInvImpliesUnitColumns == TypeInv /\ UnitInv => UnitColumns
<1>. SUFFICES ASSUME TypeInv, UnitInv, pc \notin Terminal, NEW c \in 0..(row - 1)
              PROVE  Column(mat, c) = {c}
  BY DEF UnitColumns
<1>1. c \in Rows /\ DOMAIN mat = Rows
  BY Sizes DEF TypeInv, TypeOK, Rows
<1>2. \A r \in Rows : c \in mat[r] <=> r = c
  BY DEF UnitInv
<1>3. Column(mat, c) = {r \in Rows : c \in mat[r]}
  BY <1>1 DEF Column
<1>. QED
  BY <1>1, <1>2, <1>3

(* Bits other than a and b are not touched. *)
LEMMA SwapBitsElsewhere ==
  ASSUME NEW r, NEW a, NEW b, NEW c, c # a, c # b
  PROVE  c \in SwapBits(r, a, b) <=> c \in r
BY DEF SwapBits, SymDiff

LEMMA NextUnitInv == TypeInv /\ UnitInv /\ [Next]_vars => UnitInv'
<1>. SUFFICES ASSUME TypeInv, UnitInv, [Next]_vars  PROVE UnitInv'
  OBVIOUS
<1>. USE DEF Goto, wvars, Terminal
<1>0. row \in 0..PK_NROWS /\ row \in Nat /\ k \in 0..PK_NROWS /\ k \in Nat
      /\ mat \in [Rows -> SUBSET Cols]
  BY Sizes DEF TypeInv, TypeOK
<1>1. CASE UNCHANGED <<mat, row>> /\ pc' # "clear" /\ pc \notin Terminal
  BY <1>1 DEF UnitInv
<1>2. CASE pc' \in Terminal
  BY <1>2 DEF UnitInv
<1>3. CASE Matrix
  BY <1>3, Sizes DEF Matrix, UnitInv
<1>4. CASE AddRow
  <2>1. row \in Rows /\ k \in Rows /\ row < k
    BY <1>4, <1>0, Sizes DEF AddRow, Rows, TypeInv, Control
  <2>2. ASSUME NEW c \in 0..(row - 1), NEW r \in Rows
        PROVE  c \in mat'[r] <=> r = c
    <3>1. c # row /\ c # k
      BY <2>1, <1>0
    <3>2. c \notin mat[row] /\ c \notin mat[k]
      BY <3>1, <2>1, <1>4 DEF UnitInv, AddRow
    <3>3. mat'[r] = mat[r] \/ (r = row /\ mat'[r] = SymDiff(mat[row], mat[k]))
      BY <1>0, <1>4, <2>1 DEF AddRow
    <3>4. c \in mat'[r] <=> c \in mat[r]
      BY <3>2, <3>3, SymDiffBit
    <3>. QED
      BY <3>4, <1>4 DEF UnitInv, AddRow
  <2>. QED
    BY <1>4, <2>2 DEF AddRow, UnitInv
<1>5. CASE PivotFound
  BY <1>5, <1>0 DEF PivotFound, UnitInv, Rows
<1>6. CASE ClearColumn
  <2>1. row \in Rows /\ k \in Rows
    BY <1>6, <1>0, Sizes DEF ClearColumn, Rows, TypeInv, Control
  <2>2. mat' \in [Rows -> SUBSET Cols]
    BY <1>6, <1>0, <2>1, AddRowType DEF ClearColumn
  <2>3. \A r \in Rows : r # k => mat'[r] = mat[r]
    BY <1>6, <1>0, <2>1 DEF ClearColumn
  <2>4. mat'[k] = IF k # row /\ row \in mat[k]
                  THEN SymDiff(mat[k], mat[row]) ELSE mat[k]
    BY <1>6, <1>0, <2>1 DEF ClearColumn, IsCleared
  <2>5. row \in mat'[row]
    BY <1>6, <2>1, <2>3, <2>4 DEF ClearColumn, UnitInv
  <2>6. ASSUME NEW r \in Rows, r < k + 1, r # row  PROVE row \notin mat'[r]
    <3>1. CASE r = k
      <4>1. row \in mat[row]
        BY <1>6 DEF ClearColumn, UnitInv
      <4>. QED
        BY <3>1, <2>4, <2>6, <4>1, SymDiffBit
    <3>2. CASE r # k
      BY <3>2, <1>0, <2>3, <2>6, <1>6 DEF ClearColumn, UnitInv, Rows
    <3>. QED
      BY <3>1, <3>2
  <2>7. ASSUME NEW c \in 0..(row - 1), NEW r \in Rows
        PROVE  c \in mat'[r] <=> r = c
    <3>1. c \notin mat[row]
      BY <1>6, <2>1, <1>0 DEF ClearColumn, UnitInv
    <3>2. c \in mat'[r] <=> c \in mat[r]
      BY <3>1, <2>3, <2>4, SymDiffBit
    <3>. QED
      BY <3>2, <1>6 DEF ClearColumn, UnitInv
  <2>. QED
    BY <1>6, <2>5, <2>6, <2>7 DEF ClearColumn, UnitInv
<1>7. CASE RowDone
  <2>1. row \in Rows
    BY <1>7, <1>0, Sizes DEF RowDone, Rows, TypeInv, Control
  <2>2. \A r \in Rows : row \in mat[r] <=> r = row
    BY <1>7, <2>1, <1>0 DEF RowDone, UnitInv, Rows
  <2>3. \A c \in 0..(row' - 1) : c \in 0..(row - 1) \/ c = row
    BY <1>7, <1>0 DEF RowDone
  <2>. QED
    BY <1>7, <2>2, <2>3 DEF RowDone, UnitInv
<1>8. CASE McSwapColumns
  <2>1. j \in Nat /\ ctz_list[j] \in Nat
    BY <1>8, WindowInside DEF McSwapColumns, TypeInv, TypeOK, WCols
  <2>2. ASSUME NEW c \in 0..(row - 1), NEW r \in Rows
        PROVE  c \in mat'[r] <=> r = c
    <3>1. c # row + j /\ c # row + ctz_list[j]
      BY <2>1, <1>0
    <3>2. mat'[r] = SwapBits(mat[r], row + j, row + ctz_list[j])
      BY <1>8 DEF McSwapColumns
    <3>3. c \in mat'[r] <=> c \in mat[r]
      BY <3>1, <3>2, SwapBitsElsewhere
    <3>. QED
      BY <3>3, <1>8 DEF McSwapColumns, UnitInv
  <2>. QED
    BY <1>8, <2>2 DEF McSwapColumns, UnitInv
<1>9. CASE UNCHANGED vars
  BY <1>9 DEF vars, UnitInv
<1>10. CASE Sort \/ StartRow
  BY <1>1, <1>10 DEF Sort, StartRow
<1>11. CASE MovColumns /\ ~ McSwapColumns
  <2>1. CASE McNotFullRank
    BY <1>2, <2>1 DEF McNotFullRank
  <2>2. CASE McLoad \/ McPivot \/ McAdd \/ McAddDone \/ McClear
    BY <1>1, <2>2 DEF McLoad, McPivot, McAdd, McAddDone, McClear
  <2>3. CASE McNextRow \/ McReduced \/ McSwapPi \/ McPiDone \/ McReturn
    BY <1>1, <2>3 DEF McNextRow, McReduced, McSwapPi, McPiDone, McReturn
  <2>. QED
    BY <1>11, <2>1, <2>2, <2>3 DEF MovColumns
<1>12. CASE SortFails \/ NotSystematic \/ Extract
  BY <1>2, <1>12 DEF SortFails, NotSystematic, Extract
<1>. QED
  BY <1>3, <1>4, <1>5, <1>6, <1>7, <1>8, <1>9, <1>10, <1>11, <1>12
  DEF Next, Eliminate, Returned

(***************************************************************************)
(* A column that has been reduced stays a unit vector until pk_gen returns *)
(* (the invariant UnitColumns), for every matrix and every window.         *)
(***************************************************************************)
THEOREM ReducedColumnsStayUnit == Spec => []UnitColumns
<1>1. Init => UnitInv
  BY DEF Init, UnitInv
<1>. QED
  BY <1>1, InitTypeInv, NextTypeInv, NextUnitInv, UnitInvImpliesUnitColumns, PTL
  DEF Spec


-------------------------------------------------------------------------------
(* The permutation.                                                        *)

LEMMA ExchangedInjective ==
  ASSUME NEW p \in [Idx -> Idx], IsInjective(p), NEW a \in Idx, NEW b \in Idx
  PROVE  IsInjective(Exchanged(p, a, b))
BY DEF Exchanged, IsInjective

LEMMA NextPiIsPermutation ==
  TypeInv /\ PiIsPermutation /\ [Next]_vars => PiIsPermutation'
<1>. SUFFICES ASSUME TypeInv, PiIsPermutation, [Next]_vars  PROVE PiIsPermutation'
  OBVIOUS
<1>. USE DEF Goto
<1>1. CASE SortFails
  BY <1>1 DEF SortFails, PiIsPermutation
<1>2. CASE Sort
  <2>1. in.perm \in [Idx -> Nat]
    BY PkGenAssumption DEF TypeInv, TypeOK
  <2>. QED
    BY <1>2, <2>1, SortedPiIsPermutation DEF Sort, PiIsPermutation
<1>3. CASE McSwapPi
  <2>1. row = MovRow /\ j \in WCols /\ ctz_list[j] \in WCols /\ pi \in [Idx -> Idx]
    BY <1>3, WindowInside DEF McSwapPi, TypeInv, TypeOK, Control, McPcs
  <2>2. row + j \in Idx /\ row + ctz_list[j] \in Idx
    BY <2>1, WindowInside
  <2>3. IsInjective(pi)
    BY <1>3 DEF McSwapPi, PiIsPermutation
  <2>4. IsInjective(pi')
    BY <1>3, <2>1, <2>2, <2>3, ExchangedInjective DEF McSwapPi
  <2>. QED
    BY <2>4 DEF PiIsPermutation
<1>4. CASE UNCHANGED <<pi, in>> /\ pc \notin {"sort", "failed"}
  BY <1>4 DEF PiIsPermutation
<1>5. CASE UNCHANGED vars
  BY <1>5 DEF vars, PiIsPermutation
<1>6. CASE Matrix \/ Eliminate \/ Extract
  BY <1>4, <1>6
  DEF Matrix, Eliminate, StartRow, AddRow, NotSystematic, PivotFound,
      ClearColumn, RowDone, Extract
<1>7. CASE MovColumns /\ ~ McSwapPi
  <2>1. CASE McLoad \/ McNotFullRank \/ McPivot \/ McAdd \/ McAddDone \/ McClear
    BY <1>4, <2>1 DEF McLoad, McNotFullRank, McPivot, McAdd, McAddDone, McClear
  <2>2. CASE McNextRow \/ McReduced \/ McPiDone \/ McSwapColumns \/ McReturn
    BY <1>4, <2>2 DEF McNextRow, McReduced, McPiDone, McSwapColumns, McReturn
  <2>. QED
    BY <1>7, <2>1, <2>2 DEF MovColumns
<1>. QED
  BY <1>1, <1>2, <1>3, <1>5, <1>6, <1>7 DEF Next, Returned

(***************************************************************************)
(* pi lists every support element once: sorting yields a permutation, and  *)
(* the exchanges of mov_columns keep it one.                               *)
(***************************************************************************)
THEOREM PiStaysPermutation == Spec => []PiIsPermutation
<1>1. Init => PiIsPermutation
  BY DEF Init, PiIsPermutation
<1>. QED
  BY <1>1, InitTypeInv, NextTypeInv, NextPiIsPermutation, PTL DEF Spec

-------------------------------------------------------------------------------
(* The pivots of mov_columns.                                              *)

(* The first n entries of ctz_list go up, are right of their own position, *)
(* and are what the mask pivots holds.                                     *)
Ascending(n) ==
  /\ \A a \in 0..(n - 1) : ctz_list[a] >= a
  /\ \A a, b \in 0..(n - 1) : a < b => ctz_list[a] < ctz_list[b]
  /\ pivots = {ctz_list[a] : a \in 0..(n - 1)}

(* The bits of the rows from w on are right of the pivots before it. *)
Cleared(w) ==
  \A a \in 0..(w - 1) : \A r \in w..(WIN_ROWS - 1) :
    \A c \in buf[r] : ctz_list[a] < c

PivotInv ==
  /\ pc = "mc_pivot" => Ascending(i) /\ Cleared(i)
  /\ pc \in {"mc_add", "mc_clear"} =>
       /\ Ascending(i + 1)
       /\ Cleared(i)
       /\ \A r \in i..(WIN_ROWS - 1) : \A c \in buf[r] : ctz_list[i] <= c
  /\ pc = "mc_add" =>
       \/ ctz_list[i] \in buf[i]
       \/ \E r \in j..(WIN_ROWS - 1) : ctz_list[i] \in buf[r]
  /\ pc = "mc_clear" =>
       /\ ctz_list[i] \in buf[i]
       /\ \A r \in (i + 1)..(j - 1) : ctz_list[i] \notin buf[r]
  /\ pc \in {"mc_pi", "mc_cols"} => Ascending(WIN_ROWS)

LEMMA PivotInvImpliesPivotsGoUp == TypeInv /\ PivotInv => PivotsGoUp
<1>. SUFFICES ASSUME TypeInv, PivotInv  PROVE PivotsGoUp
  OBVIOUS
<1>1. 0..(WIN_ROWS - 1) = WRows
  BY DEF WRows
<1>. QED
  BY <1>1 DEF PivotInv, PivotsGoUp, Ascending, Cleared

LEMMA McPivotInv == TypeInv /\ PivotInv /\ McPivot => PivotInv'
<1>. SUFFICES ASSUME TypeInv, PivotInv, McPivot  PROVE PivotInv'
  OBVIOUS
<1>. DEFINE s == Min(Candidates)
<1>1. /\ s \in Candidates /\ s \in WCols
      /\ \A c \in Candidates : s <= c
  BY PivotType DEF McPivot, TypeInv
<1>. HIDE DEF s
<1>2. /\ i \in WRows /\ i \in Nat /\ i < WIN_ROWS
      /\ ctz_list \in [WRows -> WCols] /\ buf \in [WRows -> SUBSET WCols]
  BY Sizes DEF TypeInv, TypeOK, WRows
<1>3. /\ ctz_list' = [ctz_list EXCEPT ![i] = s]
      /\ pivots' = pivots \cup {s}
      /\ j' = i + 1 /\ buf' = buf /\ i' = i /\ pc = "mc_pivot" /\ pc' = "mc_add"
  BY DEF McPivot, Goto, s
<1>4. ctz_list'[i] = s /\ \A a \in WRows : a # i => ctz_list'[a] = ctz_list[a]
  BY <1>2, <1>3
<1>5. \A a \in 0..(i - 1) : a \in WRows /\ a # i
  BY <1>2, Sizes DEF WRows
<1>6. \A r \in i..(WIN_ROWS - 1) : \A c \in buf[r] : c \in Candidates
  BY DEF Candidates
<1>7. PICK r0 \in i..(WIN_ROWS - 1) : s \in buf[r0]
  BY <1>1 DEF Candidates
<1>8. \A a \in 0..(i - 1) : ctz_list[a] < s
  BY <1>3, <1>7 DEF PivotInv, Cleared
<1>9. Ascending(i + 1)'
  <2>1. ASSUME NEW a \in 0..i  PROVE ctz_list'[a] >= a
    <3>1. CASE a = i
      <4>1. CASE i = 0
        BY <4>1, <3>1, <1>4, <1>1 DEF WCols
      <4>2. CASE i > 0
        <5>1. i - 1 \in 0..(i - 1) /\ i - 1 \in WRows
          BY <4>2, <1>2, <1>5
        <5>2. ctz_list[i - 1] >= i - 1 /\ ctz_list[i - 1] < s
          BY <5>1, <1>3, <1>8 DEF PivotInv, Ascending
        <5>3. ctz_list[i - 1] \in Int /\ s \in Int
          BY <5>1, <1>1, <1>2 DEF WCols
        <5>. QED
          BY <5>2, <5>3, <3>1, <1>2, <1>4
      <4>. QED
        BY <4>1, <4>2, <1>2
    <3>2. CASE a # i
      BY <3>2, <1>2, <1>3, <1>4, <1>5 DEF PivotInv, Ascending
    <3>. QED
      BY <3>1, <3>2
  <2>2. ASSUME NEW a \in 0..i, NEW b \in 0..i, a < b
        PROVE  ctz_list'[a] < ctz_list'[b]
    <3>1. a \in 0..(i - 1)
      BY <2>2, <1>2
    <3>2. CASE b = i
      BY <3>1, <3>2, <1>4, <1>5, <1>8
    <3>3. CASE b # i
      <4>1. b \in 0..(i - 1)
        BY <3>3, <1>2
      <4>. QED
        BY <2>2, <3>1, <4>1, <1>3, <1>4, <1>5 DEF PivotInv, Ascending
    <3>. QED
      BY <3>2, <3>3
  <2>3. pivots' = {ctz_list'[a] : a \in 0..i}
    <3>1. pivots = {ctz_list[a] : a \in 0..(i - 1)}
      BY <1>3 DEF PivotInv, Ascending
    <3>2. pivots = {ctz_list'[a] : a \in 0..(i - 1)}
      BY <3>1, <1>4, <1>5
    <3>3. 0..i = (0..(i - 1)) \cup {i}
      BY <1>2
    <3>. QED
      BY <3>2, <3>3, <1>3, <1>4
  <2>4. i' + 1 - 1 = i
    BY <1>2, <1>3
  <2>. QED
    BY <2>1, <2>2, <2>3, <2>4, <1>2, <1>3 DEF Ascending
<1>10. Cleared(i)'
  BY <1>3, <1>4, <1>5 DEF PivotInv, Cleared
<1>11. \A r \in i..(WIN_ROWS - 1) : \A c \in buf[r] : ctz_list'[i] <= c
  BY <1>1, <1>4, <1>6
<1>12. s \in buf[i] \/ \E r \in (i + 1)..(WIN_ROWS - 1) : s \in buf[r]
  BY <1>2, <1>7
<1>. QED
  BY <1>3, <1>4, <1>9, <1>10, <1>11, <1>12 DEF PivotInv

LEMMA McAddInv == TypeInv /\ PivotInv /\ McAdd => PivotInv'
<1>. SUFFICES ASSUME TypeInv, PivotInv, McAdd  PROVE PivotInv'
  OBVIOUS
<1>1. /\ i \in WRows /\ j \in WRows /\ i < j /\ i \in Nat /\ j \in Nat
      /\ buf \in [WRows -> SUBSET WCols] /\ ctz_list \in [WRows -> WCols]
      /\ j < WIN_ROWS
  BY Sizes DEF McAdd, TypeInv, TypeOK, Control, WRows
<1>2. /\ UNCHANGED <<pivots, ctz_list, i, pc>> /\ pc = "mc_add" /\ j' = j + 1
      /\ buf' = IF ctz_list[i] \notin buf[i]
                THEN [buf EXCEPT ![i] = SymDiff(@, buf[j])] ELSE buf
  BY DEF McAdd
<1>3. /\ \A r \in WRows : r # i => buf'[r] = buf[r]
      /\ buf'[i] = IF ctz_list[i] \notin buf[i]
                   THEN SymDiff(buf[i], buf[j]) ELSE buf[i]
  BY <1>1, <1>2
<1>4. \A c \in buf'[i] : c \in buf[i] \/ c \in buf[j]
  BY <1>3, SymDiffBit
<1>5. \A r \in i..(WIN_ROWS - 1) : r \in WRows
  BY <1>1, Sizes DEF WRows
<1>6. i \in i..(WIN_ROWS - 1) /\ j \in i..(WIN_ROWS - 1)
  BY <1>1, Sizes
<1>7. \A r \in i..(WIN_ROWS - 1) : \A c \in buf'[r] :
        \E q \in i..(WIN_ROWS - 1) : c \in buf[q]
  BY <1>3, <1>4, <1>5, <1>6
<1>8. Ascending(i + 1)'
  BY <1>2 DEF PivotInv, Ascending
<1>9. Cleared(i)'
  BY <1>2, <1>7 DEF PivotInv, Cleared
<1>10. \A r \in i..(WIN_ROWS - 1) : \A c \in buf'[r] : ctz_list[i] <= c
  BY <1>2, <1>7 DEF PivotInv
<1>11. \/ ctz_list[i] \in buf'[i]
       \/ \E r \in (j + 1)..(WIN_ROWS - 1) : ctz_list[i] \in buf'[r]
  <2>1. CASE ctz_list[i] \in buf[i]
    BY <2>1, <1>3
  <2>2. CASE ctz_list[i] \notin buf[i]
    <3>1. PICK r \in j..(WIN_ROWS - 1) : ctz_list[i] \in buf[r]
      BY <2>2, <1>2 DEF PivotInv
    <3>2. CASE r = j
      BY <3>1, <3>2, <2>2, <1>3, SymDiffBit
    <3>3. CASE r # j
      <4>1. r \in (j + 1)..(WIN_ROWS - 1) /\ r \in WRows /\ r # i
        BY <3>3, <1>1, Sizes DEF WRows
      <4>. QED
        BY <4>1, <3>1, <1>3
    <3>. QED
      BY <3>2, <3>3
  <2>. QED
    BY <2>1, <2>2
<1>. QED
  BY <1>2, <1>8, <1>9, <1>10, <1>11 DEF PivotInv

LEMMA McClearInv == TypeInv /\ PivotInv /\ McClear => PivotInv'
<1>. SUFFICES ASSUME TypeInv, PivotInv, McClear  PROVE PivotInv'
  OBVIOUS
<1>1. /\ i \in WRows /\ j \in WRows /\ i < j /\ i \in Nat /\ j \in Nat
      /\ buf \in [WRows -> SUBSET WCols] /\ ctz_list \in [WRows -> WCols]
      /\ j < WIN_ROWS
  BY Sizes DEF McClear, TypeInv, TypeOK, Control, WRows
<1>2. /\ UNCHANGED <<pivots, ctz_list, i, pc>> /\ pc = "mc_clear" /\ j' = j + 1
      /\ buf' = IF ctz_list[i] \in buf[j]
                THEN [buf EXCEPT ![j] = SymDiff(@, buf[i])] ELSE buf
  BY DEF McClear, McIsCleared
<1>3. /\ \A r \in WRows : r # j => buf'[r] = buf[r]
      /\ buf'[j] = IF ctz_list[i] \in buf[j]
                   THEN SymDiff(buf[j], buf[i]) ELSE buf[j]
  BY <1>1, <1>2
<1>4. \A c \in buf'[j] : c \in buf[i] \/ c \in buf[j]
  BY <1>3, SymDiffBit
<1>5. \A r \in i..(WIN_ROWS - 1) : r \in WRows
  BY <1>1, Sizes DEF WRows
<1>6. i \in i..(WIN_ROWS - 1) /\ j \in i..(WIN_ROWS - 1)
  BY <1>1, Sizes
<1>7. \A r \in i..(WIN_ROWS - 1) : \A c \in buf'[r] :
        \E q \in i..(WIN_ROWS - 1) : c \in buf[q]
  BY <1>3, <1>4, <1>5, <1>6
<1>8. Ascending(i + 1)'
  BY <1>2 DEF PivotInv, Ascending
<1>9. Cleared(i)'
  BY <1>2, <1>7 DEF PivotInv, Cleared
<1>10. \A r \in i..(WIN_ROWS - 1) : \A c \in buf'[r] : ctz_list[i] <= c
  BY <1>2, <1>7 DEF PivotInv
<1>11. ctz_list[i] \in buf[i]
  BY <1>2 DEF PivotInv
<1>12. ctz_list[i] \in buf'[i]
  BY <1>1, <1>3, <1>11
<1>13. ctz_list[i] \notin buf'[j]
  BY <1>3, <1>11, SymDiffBit
<1>14. ASSUME NEW r \in (i + 1)..j  PROVE ctz_list[i] \notin buf'[r]
  <2>1. CASE r = j
    BY <2>1, <1>13
  <2>2. CASE r # j
    <3>1. r \in (i + 1)..(j - 1) /\ r \in WRows
      BY <2>2, <1>1, Sizes DEF WRows
    <3>. QED
      BY <2>2, <3>1, <1>2, <1>3 DEF PivotInv
  <2>. QED
    BY <2>1, <2>2
<1>15. j' - 1 = j
  BY <1>1, <1>2
<1>. QED
  BY <1>2, <1>8, <1>9, <1>10, <1>12, <1>14, <1>15 DEF PivotInv

(* The window's row i has its pivot and the rows below lack it: the bits   *)
(* they have left are right of it.                                         *)
LEMMA McRowReduced ==
  ASSUME TypeInv, PivotInv, pc = "mc_clear", j = WIN_ROWS
  PROVE  Cleared(i + 1)
<1>1. /\ i \in WRows /\ i \in Nat /\ i < WIN_ROWS /\ WIN_ROWS \in Nat
      /\ buf \in [WRows -> SUBSET WCols] /\ ctz_list \in [WRows -> WCols]
  BY Sizes DEF TypeInv, TypeOK, WRows
<1>2. ASSUME NEW a \in 0..i, NEW r \in (i + 1)..(WIN_ROWS - 1), NEW c \in buf[r]
      PROVE  ctz_list[a] < c
  <2>1. r \in i..(WIN_ROWS - 1) /\ r \in WRows
    BY <1>1 DEF WRows
  <2>2. CASE a = i
    <3>1. ctz_list[i] <= c
      BY <2>1 DEF PivotInv
    <3>2. ctz_list[i] # c
      BY DEF PivotInv
    <3>3. ctz_list[i] \in Int /\ c \in Int
      BY <1>1, <2>1 DEF WCols
    <3>. QED
      BY <3>1, <3>2, <3>3, <2>2
  <2>3. CASE a # i
    <3>1. a \in 0..(i - 1)
      BY <2>3, <1>1
    <3>. QED
      BY <3>1, <2>1 DEF PivotInv, Cleared
  <2>. QED
    BY <2>2, <2>3
<1>3. ASSUME NEW a \in 0..((i + 1) - 1)  PROVE a \in 0..i
  BY <1>1
<1>. QED
  BY <1>2, <1>3, Zenon DEF Cleared

LEMMA NextPivotInv == TypeInv /\ PivotInv /\ [Next]_vars => PivotInv'
<1>. SUFFICES ASSUME TypeInv, PivotInv, [Next]_vars  PROVE PivotInv'
  OBVIOUS
<1>. USE DEF Goto
<1>1. CASE pc' \notin McPcs
  BY <1>1 DEF PivotInv, McPcs
<1>2. CASE McLoad
  <2>1. i' = 0 /\ pivots' = {} /\ pc' = "mc_pivot" /\ 0..(0 - 1) = {}
    BY <1>2 DEF McLoad
  <2>. QED
    BY <2>1 DEF PivotInv, Ascending, Cleared
<1>3. CASE McPivot
  BY <1>3, McPivotInv
<1>4. CASE McAdd
  BY <1>4, McAddInv
<1>5. CASE McAddDone
  <2>1. /\ UNCHANGED <<pivots, buf, ctz_list, i>>
        /\ pc = "mc_add" /\ j = WIN_ROWS /\ pc' = "mc_clear" /\ j' = i + 1
    BY <1>5 DEF McAddDone
  <2>2. i \in Nat /\ WIN_ROWS \in Nat
    BY Sizes DEF TypeInv, TypeOK, WRows
  <2>3. ctz_list[i] \in buf[i]
    BY <2>1, <2>2 DEF PivotInv
  <2>4. \A r \in (i + 1)..(j' - 1) : ctz_list[i] \notin buf[r]
    BY <2>1, <2>2
  <2>. QED
    BY <2>1, <2>3, <2>4 DEF PivotInv, Ascending, Cleared
<1>6. CASE McClear
  BY <1>6, McClearInv
<1>7. CASE McNextRow
  <2>1. /\ UNCHANGED <<pivots, buf, ctz_list>>
        /\ pc = "mc_clear" /\ j = WIN_ROWS /\ pc' = "mc_pivot" /\ i' = i + 1
    BY <1>7 DEF McNextRow
  <2>2. Ascending(i + 1) /\ Cleared(i + 1)
    BY <2>1, McRowReduced DEF PivotInv
  <2>. QED
    BY <2>1, <2>2 DEF PivotInv, Ascending, Cleared
<1>8. CASE McReduced
  <2>1. /\ UNCHANGED <<pivots, buf, ctz_list>>
        /\ pc = "mc_clear" /\ pc' = "mc_pi" /\ i + 1 = WIN_ROWS
    BY <1>8 DEF McReduced
  <2>2. Ascending(WIN_ROWS)
    BY <2>1 DEF PivotInv
  <2>. QED
    BY <2>1, <2>2 DEF PivotInv, Ascending
<1>9. CASE McSwapPi \/ McPiDone \/ McSwapColumns
  <2>1. /\ UNCHANGED <<pivots, ctz_list>>
        /\ pc \in {"mc_pi", "mc_cols"} /\ pc' \in {"mc_pi", "mc_cols"}
    BY <1>9 DEF McSwapPi, McPiDone, McSwapColumns
  <2>. QED
    BY <2>1 DEF PivotInv, Ascending
<1>10. CASE UNCHANGED vars
  BY <1>10 DEF vars, PivotInv, Ascending, Cleared
<1>11. CASE SortFails \/ Sort \/ Matrix \/ Eliminate \/ Extract \/ McNotFullRank
            \/ McReturn
  <2>1. CASE SortFails \/ Sort \/ Matrix \/ Extract \/ McNotFullRank \/ McReturn
    BY <1>1, <2>1
    DEF SortFails, Sort, Matrix, Extract, McNotFullRank, McReturn, McPcs
  <2>2. CASE Eliminate
    BY <1>1, <2>2
    DEF Eliminate, StartRow, AddRow, NotSystematic, PivotFound, ClearColumn,
        RowDone, McPcs
  <2>. QED
    BY <1>11, <2>1, <2>2
<1>. QED
  BY <1>2, <1>3, <1>4, <1>5, <1>6, <1>7, <1>8, <1>9, <1>10, <1>11
  DEF Next, MovColumns, Returned

(***************************************************************************)
(* The pivots found by mov_columns go up and are never left of the column  *)
(* they are moved to, for every window size.                               *)
(***************************************************************************)
THEOREM MovColumnsPivots == Spec => []PivotsGoUp
<1>1. Init => PivotInv
  BY DEF Init, PivotInv
<1>. QED
  BY <1>1, InitTypeInv, NextTypeInv, NextPivotInv, PivotInvImpliesPivotsGoUp, PTL
  DEF Spec

-------------------------------------------------------------------------------
(* What the pivots say about pi.                                           *)

sorted == SortedPi(in.perm)

(* The phases of a call before and after the exchanges of mov_columns. *)
Unmoved ==
  \/ pc \in {"matrix", "mc_pivot", "mc_add", "mc_clear"}
  \/ pc = "row" /\ row <= MovRow
  \/ pc \in {"add", "clear"} /\ row < MovRow

Moved ==
  \/ pc = "done"
  \/ pc = "row" /\ row > MovRow
  \/ pc \in {"add", "clear"} /\ row >= MovRow

(* The first n positions of the window have got their element; the later   *)
(* pivots are still where sorting left them; nothing else has moved.       *)
Got(n)      == \A w \in 0..(n - 1) : pi[MovRow + w] = sorted[MovRow + ctz_list[w]]
Waiting(n)  == \A w \in n..(WIN_ROWS - 1) :
                 pi[MovRow + ctz_list[w]] = sorted[MovRow + ctz_list[w]]
OutsideSame == \A n \in Idx : n - MovRow \notin WCols => pi[n] = sorted[n]

Recorded ==
  {sorted[MovRow + c] : c \in pivots} = {pi[MovRow + w] : w \in WRows}

MoveInv ==
  SEMI =>
    /\ Unmoved => pi = sorted
    /\ pc = "mc_pi" => Got(j) /\ Waiting(j) /\ OutsideSame
    /\ pc = "mc_cols" => Got(WIN_ROWS) /\ OutsideSame
    /\ Moved => Recorded /\ OutsideSame

(* One exchange: the pivots go up, so none that waits and none that has    *)
(* its element is touched.                                                 *)
LEMMA McSwapPiMoveInv ==
  ASSUME TypeInv, PivotInv, MoveInv, McSwapPi, SEMI
  PROVE  Got(j)' /\ Waiting(j)' /\ OutsideSame'
<1>1. /\ pc = "mc_pi" /\ row = MovRow /\ j \in WRows /\ j' = j + 1
      /\ UNCHANGED <<in, ctz_list>>
      /\ ctz_list \in [WRows -> WCols] /\ pi \in [Idx -> Idx]
  BY Sizes DEF McSwapPi, TypeInv, TypeOK, Control, McPcs, WRows
<1>2. /\ \A a \in WRows : ctz_list[a] >= a
      /\ \A a, b \in WRows : a < b => ctz_list[a] < ctz_list[b]
  BY <1>1 DEF PivotInv, Ascending, WRows
<1>. DEFINE p == MovRow + j
            q == MovRow + ctz_list[j]
<1>3. /\ p \in Idx /\ q \in Idx /\ ctz_list[j] \in WCols /\ j \in WCols
  BY <1>1, WindowInside
<1>4. pi'[p] = pi[q] /\ \A n \in Idx : n # p /\ n # q => pi'[n] = pi[n]
  <2>1. CASE ctz_list[j] \in RightOf(j)
    BY <1>1, <1>3, <2>1 DEF McSwapPi, Exchanged
  <2>2. CASE ctz_list[j] \notin RightOf(j)
    <3>1. ctz_list[j] = j
      BY <1>1, <1>2, <1>3, <2>2, Sizes DEF RightOf, WCols
    <3>. QED
      BY <1>1, <2>2, <3>1 DEF McSwapPi
  <2>. QED
    BY <2>1, <2>2
<1>5. sorted' = sorted
  BY <1>1 DEF sorted
<1>6. pi[q] = sorted[q]
  BY <1>1 DEF MoveInv, Waiting, WRows
<1>7. ASSUME NEW w \in 0..j
      PROVE  pi'[MovRow + w] = sorted[MovRow + ctz_list[w]]
  <2>1. CASE w = j
    BY <1>4, <1>6, <2>1
  <2>2. CASE w # j
    <3>1. w \in 0..(j - 1) /\ w \in WRows /\ w < j
      BY <1>1, <2>2, Sizes DEF WRows
    <3>2. MovRow + w \in Idx /\ MovRow + w # p /\ MovRow + w # q
      BY <1>1, <1>2, <1>3, <3>1, WindowInside, Sizes DEF WRows, WCols
    <3>. QED
      BY <1>1, <1>4, <3>1, <3>2 DEF MoveInv, Got
  <2>. QED
    BY <2>1, <2>2
<1>8. ASSUME NEW w \in (j + 1)..(WIN_ROWS - 1)
      PROVE  pi'[MovRow + ctz_list[w]] = sorted[MovRow + ctz_list[w]]
  <2>1. w \in j..(WIN_ROWS - 1) /\ w \in WRows /\ j < w
    BY <1>1, Sizes DEF WRows
  <2>2. ctz_list[w] \in WCols /\ ctz_list[w] >= w /\ ctz_list[j] < ctz_list[w]
    BY <1>1, <1>2, <2>1
  <2>3. /\ MovRow + ctz_list[w] \in Idx
        /\ MovRow + ctz_list[w] # p /\ MovRow + ctz_list[w] # q
    <3>1. MovRow + ctz_list[w] \in Idx
      BY <2>2, WindowInside
    <3>2. /\ ctz_list[w] \in Int /\ ctz_list[j] \in Int /\ w \in Int /\ j \in Int
          /\ MovRow \in Int
      BY <1>1, <1>3, <2>1, <2>2, Sizes DEF WRows, WCols
    <3>. QED
      BY <2>1, <2>2, <3>1, <3>2
  <2>. QED
    BY <1>1, <1>4, <2>1, <2>3 DEF MoveInv, Waiting
<1>9. ASSUME NEW n \in Idx, n - MovRow \notin WCols
      PROVE  pi'[n] = sorted[n]
  <2>1. p - MovRow = j /\ q - MovRow = ctz_list[j]
    BY <1>3, Sizes DEF WCols
  <2>2. n # p /\ n # q
    BY <1>3, <1>9, <2>1
  <2>. QED
    BY <1>1, <1>4, <1>9, <2>2 DEF MoveInv, OutsideSame
<1>. HIDE DEF p, q
<1>10. j' - 1 = j
  BY <1>1 DEF WRows
<1>11. Got(j)'
  BY <1>1, <1>5, <1>7, <1>10 DEF Got
<1>. QED
  BY <1>1, <1>5, <1>8, <1>9, <1>11 DEF Waiting, OutsideSame

(* With every pivot in its place the mask names what is in the window. *)
LEMMA GotAll ==
  ASSUME TypeInv, PivotInv, pc = "mc_cols", Got(WIN_ROWS)
  PROVE  Recorded
<1>1. pivots = {ctz_list[a] : a \in WRows}
  BY DEF PivotInv, Ascending, WRows
<1>2. \A w \in WRows : pi[MovRow + w] = sorted[MovRow + ctz_list[w]]
  BY DEF Got, WRows
<1>. QED
  BY <1>1, <1>2 DEF Recorded

LEMMA NextMoveInv == TypeInv /\ PivotInv /\ MoveInv /\ [Next]_vars => MoveInv'
<1>. SUFFICES ASSUME TypeInv, PivotInv, MoveInv, [Next]_vars, SEMI, SEMI'
              PROVE  MoveInv'
  BY DEF MoveInv
<1>. USE Sizes DEF Goto
<1>1. CASE SortFails
  BY <1>1 DEF SortFails, MoveInv, Unmoved, Moved
<1>2. CASE Sort
  BY <1>2 DEF Sort, MoveInv, Unmoved, Moved, sorted
<1>3. CASE Matrix
  <2>1. pi' = sorted'
    BY <1>3 DEF Matrix, MoveInv, Unmoved, sorted
  <2>. QED
    BY <1>3, <2>1 DEF Matrix, MoveInv, Moved
<1>4. row \in Nat /\ MovRow \in Nat
  BY DEF TypeInv, TypeOK
<1>5. ASSUME UNCHANGED <<in, pi, pivots>>, pc' \notin {"mc_pi", "mc_cols"},
             Unmoved' => Unmoved, Moved' => Moved
      PROVE  MoveInv'
  <2>1. sorted' = sorted
    BY <1>5 DEF sorted
  <2>. QED
    BY <1>5, <2>1 DEF MoveInv, Recorded, OutsideSame
<1>6. CASE Eliminate
  <2>1. UNCHANGED <<in, pi, pivots>> /\ pc' \notin {"mc_pi", "mc_cols"}
    BY <1>6 DEF Eliminate, StartRow, AddRow, NotSystematic, PivotFound,
                ClearColumn, RowDone
  <2>2. CASE StartRow \/ RowDone
    <3>1. (Unmoved' => Unmoved) /\ (Moved' => Moved)
      BY <1>4, <2>2 DEF StartRow, RowDone, AtWindow, Unmoved, Moved
    <3>. QED
      BY <1>5, <2>1, <3>1
  <2>3. CASE AddRow \/ NotSystematic \/ PivotFound \/ ClearColumn
    <3>1. (Unmoved' => Unmoved) /\ (Moved' => Moved)
      BY <2>3 DEF AddRow, NotSystematic, PivotFound, ClearColumn, Unmoved, Moved
    <3>. QED
      BY <1>5, <2>1, <3>1
  <2>. QED
    BY <1>6, <2>2, <2>3 DEF Eliminate
<1>7. CASE Extract
  <2>1. UNCHANGED <<in, pi, pivots>> /\ pc' = "done" /\ Moved
    BY <1>4, <1>7 DEF Extract, Moved
  <2>. QED
    BY <1>5, <2>1 DEF Unmoved
<1>8. CASE McLoad \/ McNotFullRank \/ McPivot \/ McAdd \/ McAddDone \/ McClear \/ McNextRow
  <2>1. /\ UNCHANGED <<in, pi>> /\ ~ Moved'
        /\ pc' \notin {"mc_pi", "mc_cols"} /\ (Unmoved' => Unmoved)
    BY <1>4, <1>8 DEF McLoad, McNotFullRank, McPivot, McAdd, McAddDone, McClear, McNextRow,
                      AtWindow, Unmoved, Moved
  <2>2. sorted' = sorted
    BY <2>1 DEF sorted
  <2>. QED
    BY <2>1, <2>2 DEF MoveInv
<1>9. CASE McReduced
  <2>1. /\ UNCHANGED <<in, pi>> /\ pc' = "mc_pi" /\ j' = 0 /\ pi = sorted
    BY <1>9 DEF McReduced, MoveInv, Unmoved
  <2>2. pi' = sorted' /\ 0..(0 - 1) = {}
    BY <2>1 DEF sorted
  <2>. QED
    BY <2>1, <2>2 DEF MoveInv, Unmoved, Moved, Got, Waiting, OutsideSame
<1>10. CASE McSwapPi
  <2>1. pc' = "mc_pi"
    BY <1>10 DEF McSwapPi
  <2>. QED
    BY <1>10, <2>1, McSwapPiMoveInv DEF MoveInv, Unmoved, Moved
<1>11. CASE McPiDone \/ McSwapColumns
  <2>1. /\ UNCHANGED <<in, pi, ctz_list>> /\ pc' = "mc_cols"
        /\ Got(WIN_ROWS) /\ OutsideSame
    BY <1>11 DEF McPiDone, McSwapColumns, MoveInv
  <2>2. sorted' = sorted
    BY <2>1 DEF sorted
  <2>3. Got(WIN_ROWS)' /\ OutsideSame'
    BY <2>1, <2>2 DEF Got, OutsideSame
  <2>. QED
    BY <2>1, <2>3 DEF MoveInv, Unmoved, Moved
<1>12. CASE McReturn
  <2>1. /\ UNCHANGED <<in, pi, pivots, row>> /\ pc = "mc_cols" /\ pc' = "add"
        /\ row = MovRow
    BY <1>12 DEF McReturn, TypeInv, Control, McPcs
  <2>2. Recorded /\ OutsideSame
    BY <2>1, GotAll DEF MoveInv
  <2>3. sorted' = sorted
    BY <2>1 DEF sorted
  <2>4. Recorded' /\ OutsideSame'
    BY <2>1, <2>2, <2>3 DEF Recorded, OutsideSame
  <2>. QED
    BY <1>4, <2>1, <2>4 DEF MoveInv, Unmoved
<1>13. CASE UNCHANGED vars
  <2>1. UNCHANGED <<in, pi, pivots, row, ctz_list, j, pc>> /\ sorted' = sorted
    BY <1>13 DEF vars, sorted
  <2>2. /\ (Unmoved' <=> Unmoved) /\ (Moved' <=> Moved)
        /\ (OutsideSame' <=> OutsideSame) /\ (Recorded' <=> Recorded)
    BY <2>1 DEF Unmoved, Moved, OutsideSame, Recorded
  <2>3. /\ (Got(j)' <=> Got(j)) /\ (Got(WIN_ROWS)' <=> Got(WIN_ROWS))
        /\ (Waiting(j)' <=> Waiting(j))
    BY <2>1 DEF Got, Waiting
  <2>. QED
    BY <2>1, <2>2, <2>3 DEF MoveInv
<1>14. CASE MovColumns
  BY <1>8, <1>9, <1>10, <1>11, <1>12, <1>14 DEF MovColumns
<1>. QED
  BY <1>1, <1>2, <1>3, <1>6, <1>7, <1>13, <1>14 DEF Next, Returned

(***************************************************************************)
(* The pivots mask in the secret key names exactly the elements that were  *)
(* moved to the front of the window, and nothing outside the window moved  *)
(* (pk_gen.rs:104, 123-130; operations.rs:329), for every window size and  *)
(* every matrix.                                                           *)
(***************************************************************************)
THEOREM PivotsDescribePi == Spec => []PivotsRecordTheMove
<1>1. Init => MoveInv
  BY DEF Init, MoveInv, Unmoved, Moved
<1>2. Init => PivotInv
  BY DEF Init, PivotInv
<1>3. MoveInv => PivotsRecordTheMove
  BY DEF MoveInv, Moved, Recorded, OutsideSame, PivotsRecordTheMove, sorted
<1>. QED
  BY <1>1, <1>2, <1>3, InitTypeInv, NextTypeInv, NextPivotInv, NextMoveInv, PTL
  DEF Spec

-------------------------------------------------------------------------------
(* What pk_gen computes.                                                   *)

(* The matrix of the sorted permutation, and that of pi as it is now. *)
filled  == FillMatrix(in.g, sorted)
current == FillMatrix(in.g, pi)

(* The first 1 of v is in column n. *)
Leads(v, n) == n \in v /\ \A c \in 0..(n - 1) : c \notin v

-------------------------------------------------------------------------------
(* The inductive invariant.                                                *)

(* What has been decided by the values of pc and SEMI. *)
PhaseInv ==
  /\ pc \in McPcs => SEMI
  /\ pc \notin {"sort", "failed"} => IsInjective(in.perm)
  /\ ~ SEMI /\ pc \notin {"sort", "failed"} => pi = sorted

(* P is pi before the exchanges, after the first one, ..., after all of the *)
(* first n.                                                                 *)
Exchanges(P, n) ==
  /\ P \in [0..WIN_ROWS -> [Idx -> Idx]]
  /\ P[0] = sorted
  /\ \A m \in 0..(n - 1) :
       P[m + 1] = Exchanged(P[m], MovRow + m, MovRow + ctz_list[m])

(* Rows are added and columns exchanged, and no sum of rows is lost: while *)
(* mov_columns exchanges the columns of mat it repeats what it did to pi.  *)
SumsInv ==
  /\ pc \in {"row", "add", "clear", "mc_pivot", "mc_add", "mc_clear"} =>
       Sums(mat, Rows) = Sums(current, Rows)
  /\ pc = "mc_pi" =>
       /\ Sums(mat, Rows) = Sums(filled, Rows)
       /\ \E P : Exchanges(P, j) /\ P[j] = pi
  /\ pc = "mc_cols" =>
       \E P : /\ Exchanges(P, WIN_ROWS)
              /\ P[WIN_ROWS] = pi
              /\ Sums(mat, Rows) = Sums(FillMatrix(in.g, P[j]), Rows)

(* A row that has not got its pivot met only rows without one. *)
AddInv ==
  pc = "add" /\ row \notin mat[row] =>
    \A r \in Rows : row <= r /\ r < k => row \notin mat[r]

(* Every sum of the window's rows is the window's part of a sum of rows of *)
(* the matrix that is zero left of the window.                             *)
Extends(u, v) ==
  /\ \A c \in 0..(MovRow - 1) : c \notin v
  /\ \A c \in WCols : MovRow + c \in v <=> c \in u

WindowInv ==
  pc \in McPcs =>
    \A u \in Sums(buf, WRows) : \E v \in Sums(filled, Rows) : Extends(u, v)

(* The first n rows of the window have their pivot, and no earlier one. *)
Echelon(n) ==
  \A w \in 0..(n - 1) :
    /\ ctz_list[w] \in buf[w]
    /\ \A a \in 0..(w - 1) : ctz_list[a] \notin buf[w]

EchelonInv ==
  /\ pc \in {"mc_pivot", "mc_add", "mc_clear"} => Echelon(i)
  /\ pc \in {"mc_pi", "mc_cols"} => Echelon(WIN_ROWS)

(* Once the window's columns have moved each of its rows can have a pivot. *)
LeadingInv ==
  SEMI /\ Moved =>
    \A w \in WRows : \E v \in Sums(current, Rows) : Leads(v, MovRow + w)

(* What has been decided when pk_gen returns. *)
VerdictInv ==
  /\ pc = "done" => HasSystematicForm /\ RowSpace(PkMatrix) = RowSpace(current)
  /\ pc = "failed" => ~ (IsInjective(in.perm) /\ HasSystematicForm)

CodeInv ==
  /\ PhaseInv /\ SumsInv /\ AddInv /\ WindowInv /\ EchelonInv /\ LeadingInv
  /\ VerdictInv

LEMMA PermType == in \in Inputs => in.perm \in [Idx -> Nat]
BY PkGenAssumption

-------------------------------------------------------------------------------
(* Equal values of perm.                                                   *)

(* The loop that compares neighbours sees every pair of equal values.      *)
LEMMA DuplicatesAreNeighbours ==
  ASSUME NEW perm \in [Idx -> Nat]
  PROVE  HasDuplicate(perm) <=> ~ IsInjective(perm)
<1>. DEFINE s == SortedPi(perm)
<1>1. /\ s \in [Idx -> Idx] /\ IsInjective(s)
      /\ \A n \in Idx : Rank(perm, s[n]) = n
  BY SortedPiIsPermutation
<1>. HIDE DEF s
<1>2. ASSUME HasDuplicate(perm)  PROVE ~ IsInjective(perm)
  <2>1. PICK n \in Idx : n > 0 /\ perm[s[n - 1]] = perm[s[n]]
    BY <1>2 DEF HasDuplicate, s
  <2>2. n - 1 \in Idx /\ n - 1 # n
    BY <2>1, Sizes DEF Idx
  <2>3. s[n - 1] \in Idx /\ s[n] \in Idx /\ s[n - 1] # s[n]
    BY <1>1, <2>2 DEF IsInjective
  <2>. QED
    BY <2>1, <2>3 DEF IsInjective
<1>3. ASSUME ~ IsInjective(perm)  PROVE HasDuplicate(perm)
  <2>1. PICK x \in Idx, y \in Idx : perm[x] = perm[y] /\ x # y
    BY <1>3 DEF IsInjective
  <2>2. PICK a \in Idx, b \in Idx : perm[a] = perm[b] /\ a < b
    <3>1. x < y \/ y < x
      BY <2>1, Sizes DEF Idx
    <3>. QED
      BY <2>1, <3>1
  <2>. DEFINE n == Rank(perm, a) + 1
              c == s[n]
  <2>3. Rank(perm, a) < Rank(perm, b)
    BY <2>2, RankGrows DEF KeyLess
  <2>4. Rank(perm, a) \in Idx /\ Rank(perm, b) \in Idx
    BY RankInIdx
  <2>5. n \in Idx /\ n > 0 /\ n - 1 = Rank(perm, a) /\ n <= Rank(perm, b)
    <3>1. \A p, q \in Idx : p < q =>
            p + 1 \in Idx /\ p + 1 > 0 /\ (p + 1) - 1 = p /\ p + 1 <= q
      BY Sizes DEF Idx
    <3>. QED
      BY <2>3, <2>4, <3>1
  <2>6. c \in Idx /\ Rank(perm, c) = n
    BY <1>1, <2>5
  <2>. HIDE DEF n, c
  <2>7. s[n - 1] = a
    <3>1. \A z \in Idx : Rank(perm, z) = Rank(perm, a) => z = a
      <4>1. ASSUME NEW z \in Idx, Rank(perm, z) = Rank(perm, a), z # a
            PROVE  FALSE
        <5>1. KeyLess(perm, z, a) \/ KeyLess(perm, a, z)
          BY <4>1, KeyOrder
        <5>2. Rank(perm, z) < Rank(perm, a) \/ Rank(perm, a) < Rank(perm, z)
          BY <5>1, RankGrows
        <5>. QED
          BY <4>1, <2>4, <5>2, Sizes DEF Idx
      <4>. QED
        BY <4>1
    <3>2. s[n - 1] \in Idx /\ Rank(perm, s[n - 1]) = Rank(perm, a)
      BY <1>1, <2>4, <2>5
    <3>. QED
      BY <3>1, <3>2
  <2>8. perm[a] <= perm[c]
    <3>1. ~ KeyLess(perm, c, a)
      <4>1. n > Rank(perm, a)
        BY <2>4, <2>5, Sizes DEF Idx
      <4>2. KeyLess(perm, c, a) => n < Rank(perm, a)
        BY <2>6, RankGrows
      <4>. QED
        BY <4>1, <4>2, <2>4, <2>5, Sizes DEF Idx
    <3>2. a = c \/ KeyLess(perm, a, c)
      BY <2>6, <3>1, KeyOrder
    <3>. QED
      BY <2>6, <3>2 DEF KeyLess
  <2>9. perm[c] <= perm[b]
    <3>1. ~ KeyLess(perm, b, c)
      <4>1. KeyLess(perm, b, c) => Rank(perm, b) < n
        BY <2>6, RankGrows
      <4>. QED
        BY <4>1, <2>4, <2>5, Sizes DEF Idx
    <3>2. b = c \/ KeyLess(perm, c, b)
      BY <2>6, <3>1, KeyOrder
    <3>. QED
      BY <2>6, <3>2 DEF KeyLess
  <2>10. perm[c] = perm[a]
    BY <2>2, <2>6, <2>8, <2>9
  <2>. QED
    BY <2>5, <2>7, <2>10 DEF HasDuplicate, s, c
<1>. QED
  BY <1>2, <1>3

-------------------------------------------------------------------------------
(* One exchange of columns.                                                *)

(* What c is after a and b have been exchanged. *)
Swapped(c, a, b) == IF c = a THEN b ELSE IF c = b THEN a ELSE c

LEMMA SwapBitsBit ==
  ASSUME NEW r, NEW a, NEW b, NEW c
  PROVE  c \in SwapBits(r, a, b) <=> Swapped(c, a, b) \in r
BY DEF SwapBits, Swapped, SymDiff

(* A sum of rows, with two of its columns exchanged. *)
SwapSum(v, a, b) == {c \in Cols : Swapped(c, a, b) \in v}

LEMMA SwapMatrixSum ==
  ASSUME NEW m, NEW a \in Cols, NEW b \in Cols, NEW S \in SUBSET Rows
  PROVE  RowSum([r \in Rows |-> SwapBits(m[r], a, b)], S) = SwapSum(RowSum(m, S), a, b)
<1>. DEFINE m2 == [r \in Rows |-> SwapBits(m[r], a, b)]
<1>1. ASSUME NEW c \in Cols
      PROVE  {r \in S : c \in m2[r]} = {r \in S : Swapped(c, a, b) \in m[r]}
  BY SwapBitsBit
<1>2. \A c \in Cols : Swapped(c, a, b) \in Cols
  BY DEF Swapped
<1>. HIDE DEF m2
<1>3. RowSum(m2, S) = SwapSum(RowSum(m, S), a, b)
  BY <1>1, <1>2 DEF RowSum, SwapSum
<1>. QED
  BY <1>3 DEF m2

LEMMA SwapPiSum ==
  ASSUME NEW g, NEW p \in [Idx -> Idx], NEW a \in Cols, NEW b \in Cols,
         NEW S \in SUBSET Rows
  PROVE  RowSum(FillMatrix(g, Exchanged(p, a, b)), S)
           = SwapSum(RowSum(FillMatrix(g, p), S), a, b)
<1>. DEFINE q == Exchanged(p, a, b)
<1>1. ASSUME NEW c \in Cols
      PROVE  /\ Swapped(c, a, b) \in Cols
             /\ q[c] = p[Swapped(c, a, b)]
  BY ColsFinite DEF Swapped, Exchanged
<1>. HIDE DEF q
<1>2. ASSUME NEW c \in Cols
      PROVE  c \in RowSum(FillMatrix(g, q), S)
               <=> Swapped(c, a, b) \in RowSum(FillMatrix(g, p), S)
  BY <1>1, RowSumColumn
<1>3. RowSum(FillMatrix(g, q), S) \subseteq Cols
  BY DEF RowSum
<1>4. RowSum(FillMatrix(g, q), S) = SwapSum(RowSum(FillMatrix(g, p), S), a, b)
  BY <1>2, <1>3 DEF SwapSum
<1>. QED
  BY <1>4 DEF q

(* Exchanging two columns of the matrix and two elements of the support    *)
(* comes to the same.                                                      *)
LEMMA SwapSums ==
  ASSUME NEW g, NEW p \in [Idx -> Idx], NEW a \in Cols, NEW b \in Cols,
         NEW m, Sums(m, Rows) = Sums(FillMatrix(g, p), Rows)
  PROVE  Sums([r \in Rows |-> SwapBits(m[r], a, b)], Rows)
           = Sums(FillMatrix(g, Exchanged(p, a, b)), Rows)
<1>. DEFINE m2 == [r \in Rows |-> SwapBits(m[r], a, b)]
            f  == FillMatrix(g, p)
            f2 == FillMatrix(g, Exchanged(p, a, b))
<1>1. /\ \A S \in SUBSET Rows : RowSum(m2, S) = SwapSum(RowSum(m, S), a, b)
      /\ \A S \in SUBSET Rows : RowSum(f2, S) = SwapSum(RowSum(f, S), a, b)
  BY SwapMatrixSum, SwapPiSum
<1>2. Sums(m, Rows) = Sums(f, Rows)
  OBVIOUS
<1>. HIDE DEF m2, f, f2
<1>3. Sums(m2, Rows) = {SwapSum(v, a, b) : v \in Sums(m, Rows)}
  BY <1>1 DEF Sums
<1>4. Sums(f2, Rows) = {SwapSum(v, a, b) : v \in Sums(f, Rows)}
  BY <1>1 DEF Sums
<1>5. Sums(m2, Rows) = Sums(f2, Rows)
  BY <1>2, <1>3, <1>4
<1>. QED
  BY <1>5 DEF m2, f2
-------------------------------------------------------------------------------
(* Row operations.                                                         *)

LEMMA AddRowKeepsSums ==
  ASSUME TypeInv, AddRow
  PROVE  Sums(mat', Rows) = Sums(mat, Rows)
<1>1. row \in Rows /\ k \in Rows /\ row # k /\ mat \in [Rows -> SUBSET Cols]
  BY Sizes DEF AddRow, TypeInv, TypeOK, Control, Rows
<1>2. CASE mat' = mat
  BY <1>2
<1>3. CASE mat' = [mat EXCEPT ![row] = SymDiff(@, mat[k])]
  <2>1. mat'[row] = SymDiff(mat[row], mat[k])
        /\ \A q \in Rows : q # row => mat'[q] = mat[q]
    BY <1>1, <1>3
  <2>. QED
    BY <1>1, <2>1, ColsFinite, AddRowSums
<1>. QED
  BY <1>2, <1>3 DEF AddRow

LEMMA ClearColumnKeepsSums ==
  ASSUME TypeInv, ClearColumn
  PROVE  Sums(mat', Rows) = Sums(mat, Rows)
<1>1. row \in Rows /\ k \in Rows /\ mat \in [Rows -> SUBSET Cols]
  BY Sizes DEF ClearColumn, TypeInv, TypeOK, Control, Rows
<1>2. CASE mat' = mat
  BY <1>2
<1>3. CASE k # row /\ mat' = [mat EXCEPT ![k] = SymDiff(@, mat[row])]
  <2>1. mat'[k] = SymDiff(mat[k], mat[row])
        /\ \A q \in Rows : q # k => mat'[q] = mat[q]
    BY <1>1, <1>3
  <2>. QED
    BY <1>1, <1>3, <2>1, ColsFinite, AddRowSums
<1>. QED
  BY <1>2, <1>3 DEF ClearColumn, IsCleared

LEMMA WRowsFinite == IsFiniteSet(WRows)
BY Sizes, FS_Interval DEF WRows

LEMMA McAddKeepsSums ==
  ASSUME TypeInv, McAdd \/ McClear
  PROVE  Sums(buf', WRows) = Sums(buf, WRows)
<1>1. i \in WRows /\ j \in WRows /\ i # j /\ buf \in [WRows -> SUBSET WCols]
  BY Sizes DEF McAdd, McClear, TypeInv, TypeOK, Control, WRows
<1>2. CASE buf' = buf
  BY <1>2
<1>3. CASE buf' = [buf EXCEPT ![i] = SymDiff(@, buf[j])]
  <2>1. buf'[i] = SymDiff(buf[i], buf[j])
        /\ \A q \in WRows : q # i => buf'[q] = buf[q]
    BY <1>1, <1>3
  <2>. QED
    BY <1>1, <2>1, WRowsFinite, AddRowSums
<1>4. CASE buf' = [buf EXCEPT ![j] = SymDiff(@, buf[i])]
  <2>1. buf'[j] = SymDiff(buf[j], buf[i])
        /\ \A q \in WRows : q # j => buf'[q] = buf[q]
    BY <1>1, <1>4
  <2>. QED
    BY <1>1, <2>1, WRowsFinite, AddRowSums
<1>. QED
  BY <1>2, <1>3, <1>4 DEF McAdd, McClear

(* A sum that is zero left of column row has no 1 in it either, when the   *)
(* row being reduced found no pivot.                                       *)
LEMMA NoLeadingSum ==
  ASSUME TypeInv, UnitInv, AddInv, pc = "add", k = PK_NROWS, row \notin mat[row],
         NEW v \in RowSpace(mat), \A c \in 0..(row - 1) : c \notin v
  PROVE  row \notin v
<1>1. PICK S \in SUBSET Rows : v = RowSum(mat, S)
  BY DEF RowSpace
<1>2. row \in Nat /\ row < PK_NROWS /\ PK_NROWS \in Nat
  BY Sizes DEF TypeInv, TypeOK, Control
<1>3. ASSUME NEW c \in 0..(row - 1)  PROVE c \notin S
  <2>1. c \in Cols
    BY <1>2, Sizes DEF Cols
  <2>2. \A r \in S : c \in mat[r] <=> r = c
    BY DEF UnitInv, Terminal
  <2>. QED
    BY <1>1, <2>1, <2>2, UnitColumnSum
<1>4. ASSUME NEW r \in S  PROVE row \notin mat[r]
  <2>1. r \in Rows /\ row <= r /\ r < k
    BY <1>2, <1>3 DEF Rows
  <2>. QED
    BY <2>1 DEF AddInv
<1>. QED
  BY <1>1, <1>4, ZeroColumnSum

-------------------------------------------------------------------------------
(* The window.                                                             *)

(* A shift of the positions keeps the parity. *)
LEMMA OddShift ==
  ASSUME NEW A \in SUBSET Nat, IsFiniteSet(A), NEW n \in Nat,
         NEW B, B = {n + a : a \in A}
  PROVE  Odd(B) <=> Odd(A)
<1>. DEFINE f == [a \in A |-> n + a]
<1>1. f \in Bijection(A, B)
  <2>1. f \in [A -> B]
    OBVIOUS
  <2>2. \A a, b \in A : f[a] = f[b] => a = b
    <3>1. ASSUME NEW a \in A, NEW b \in A, f[a] = f[b]  PROVE a = b
      <4>1. a \in Nat /\ b \in Nat /\ n + a = n + b
        BY <3>1
      <4>. QED
        BY <4>1
    <3>. QED
      BY <3>1
  <2>3. \A b \in B : \E a \in A : f[a] = b
    OBVIOUS
  <2>. HIDE DEF f
  <2>. QED
    BY <2>1, <2>2, <2>3 DEF Bijection, Injection, Surjection, IsInjective
<1>2. ExistsBijection(A, B)
  <2>. HIDE DEF f
  <2>. QED
    BY <1>1 DEF ExistsBijection
<1>3. Cardinality(B) = Cardinality(A)
  <2>. HIDE DEF f
  <2>. QED
    BY <1>2, FS_Bijection
<1>. QED
  BY <1>3 DEF Odd

(* The window as it is copied. *)
LEMMA LoadedWindow ==
  ASSUME TypeInv, UnitInv, McLoad, NEW u \in Sums(buf', WRows)
  PROVE  \E v \in Sums(mat, Rows) : Extends(u, v)
<1>1. /\ row = MovRow /\ pc = "row"
      /\ buf' = [w \in WRows |-> {c \in WCols : MovRow + c \in mat[MovRow + w]}]
  BY DEF McLoad, AtWindow, Goto
<1>2. PICK T \in (SUBSET WRows) \ {{}} : u = RowSum(buf', T)
  BY DEF Sums
<1>. DEFINE S == {MovRow + w : w \in T}
            v == RowSum(mat, S)
<1>3. S \in (SUBSET Rows) \ {{}}
  BY <1>2, WindowInside
<1>4. v \in Sums(mat, Rows)
  BY <1>3 DEF Sums
<1>5. ASSUME NEW c \in 0..(MovRow - 1)  PROVE c \notin v
  <2>1. c \in Cols /\ c \notin S
    BY <1>2, Sizes DEF Cols, WRows
  <2>2. \A r \in S : c \in mat[r] <=> r = c
    BY <1>1, <1>3 DEF UnitInv, Terminal
  <2>. QED
    BY <2>1, <2>2, UnitColumnSum
<1>6. ASSUME NEW c \in WCols  PROVE MovRow + c \in v <=> c \in u
  <2>. DEFINE A == {w \in T : c \in buf'[w]}
  <2>1. A \in SUBSET Nat /\ IsFiniteSet(A) /\ MovRow \in Nat
    <3>1. A \in SUBSET WRows
      BY <1>2
    <3>2. IsFiniteSet(A)
      BY <3>1, WRowsFinite, FS_Subset
    <3>3. WRows \subseteq Nat
      BY DEF WRows
    <3>. QED
      BY <3>1, <3>2, <3>3, Sizes
  <2>2. {r \in S : MovRow + c \in mat[r]} = {MovRow + w : w \in A}
    BY <1>1, <1>2
  <2>. DEFINE B == {r \in S : MovRow + c \in mat[r]}
  <2>3. Odd(B) <=> Odd(A)
    <3>. HIDE DEF A, B
    <3>1. B = {MovRow + w : w \in A}
      BY <2>2 DEF B
    <3>. QED
      BY <2>1, <3>1, OddShift
  <2>4. MovRow + c \in Cols /\ c \in Cols
    BY WindowInside, Sizes DEF WCols, Cols
  <2>5. MovRow + c \in v <=> Odd({r \in S : MovRow + c \in mat[r]})
    BY <2>4 DEF RowSum
  <2>7. MovRow + c \in v <=> Odd(B)
    BY <2>5
  <2>6. c \in u <=> Odd(A)
    BY <1>2, <2>4 DEF RowSum
  <2>. QED
    BY <2>3, <2>6, <2>7 DEF Odd
<1>. HIDE DEF v
<1>. QED
  BY <1>4, <1>5, <1>6 DEF Extends

(* A window without candidates: the matrix does not have full rank in it.  *)
LEMMA NotIndependent ==
  ASSUME TypeInv, WindowInv, pc = "mc_pivot", Candidates = {}
  PROVE  ~ Independent(filled, MovRow + WIN_COLS)
<1>1. i \in WRows /\ buf \in [WRows -> SUBSET WCols] /\ WCols \subseteq Cols
  BY Sizes DEF TypeInv, TypeOK, WCols, Cols
<1>2. buf[i] = {}
  <2>1. i \in i..(WIN_ROWS - 1)
    BY <1>1, Sizes DEF WRows
  <2>. QED
    BY <2>1 DEF Candidates
<1>3. buf[i] \in Sums(buf, WRows)
  <2>1. buf \in [WRows -> SUBSET Cols]
    BY <1>1
  <2>. QED
    BY <1>1, <2>1, RowInSums
<1>4. PICK v \in Sums(filled, Rows) : Extends({}, v)
  BY <1>2, <1>3 DEF WindowInv, McPcs
<1>6. ASSUME NEW c \in 0..((MovRow + WIN_COLS) - 1)  PROVE c \notin v
  <2>1. CASE c < MovRow
    BY <2>1, <1>4, Sizes DEF Extends
  <2>2. CASE c >= MovRow
    <3>1. c - MovRow \in WCols /\ MovRow + (c - MovRow) = c
      BY <2>2, Sizes DEF WCols
    <3>. QED
      BY <3>1, <1>4 DEF Extends
  <2>. QED
    BY <2>1, <2>2, Sizes
<1>7. v \cap (0..((MovRow + WIN_COLS) - 1)) = {}
  BY <1>6
<1>. QED
  BY <1>7, IndependentSums, Zenon

(* The bits of a row that the exchanges have brought to the front.         *)
LEMMA LeadingRows ==
  ASSUME TypeInv, MoveInv, WindowInv, EchelonInv, SEMI,
         pc = "mc_cols", NEW w \in WRows
  PROVE  \E v \in Sums(current, Rows) : Leads(v, MovRow + w)
<1>1. /\ buf \in [WRows -> SUBSET WCols] /\ WCols \subseteq Cols
      /\ ctz_list \in [WRows -> WCols]
  BY Sizes DEF TypeInv, TypeOK, WCols, Cols
<1>2. Got(WIN_ROWS) /\ OutsideSame
  BY DEF MoveInv
<1>3. buf[w] \in Sums(buf, WRows)
  <2>1. buf \in [WRows -> SUBSET Cols]
    BY <1>1
  <2>. QED
    BY <2>1, RowInSums
<1>4. PICK v \in Sums(filled, Rows) : Extends(buf[w], v)
  BY <1>3 DEF WindowInv, McPcs
<1>5. PICK S \in (SUBSET Rows) \ {{}} : v = RowSum(filled, S)
  BY DEF Sums
<1>. DEFINE x == RowSum(current, S)
<1>6. x \in Sums(current, Rows)
  BY DEF Sums
<1>7. ASSUME NEW c \in 0..(MovRow - 1)  PROVE c \notin x
  <2>1. c \in Cols /\ c \in Idx /\ c - MovRow \notin WCols
    BY Sizes DEF Cols, Idx, WCols
  <2>2. pi[c] = sorted[c]
    BY <2>1, <1>2 DEF OutsideSame
  <2>3. c \in x <=> c \in v
    BY <1>5, <2>1, <2>2, RowSumColumn DEF filled, current
  <2>. QED
    BY <2>3, <1>4 DEF Extends
<1>8. ASSUME NEW a \in WRows
      PROVE  MovRow + a \in x <=> ctz_list[a] \in buf[w]
  <2>1. /\ MovRow + a \in Cols /\ MovRow + ctz_list[a] \in Cols
        /\ ctz_list[a] \in WCols
    BY <1>1, WindowInside
  <2>2. pi[MovRow + a] = sorted[MovRow + ctz_list[a]]
    BY <1>2 DEF Got, WRows
  <2>3. MovRow + a \in x <=> MovRow + ctz_list[a] \in v
    BY <1>5, <2>1, <2>2, RowSumColumn DEF filled, current
  <2>. QED
    BY <2>1, <2>3, <1>4 DEF Extends
<1>9. Echelon(WIN_ROWS)
  BY DEF EchelonInv
<1>10. ctz_list[w] \in buf[w] /\ \A a \in 0..(w - 1) : ctz_list[a] \notin buf[w]
  BY <1>9 DEF Echelon, WRows
<1>11. MovRow + w \in x
  BY <1>8, <1>10
<1>12. ASSUME NEW c \in 0..((MovRow + w) - 1)  PROVE c \notin x
  <2>1. CASE c < MovRow
    BY <2>1, <1>7, Sizes
  <2>2. CASE c >= MovRow
    <3>1. /\ c - MovRow \in 0..(w - 1) /\ c - MovRow \in WRows
          /\ MovRow + (c - MovRow) = c
      BY <2>2, Sizes DEF WRows
    <3>. QED
      BY <3>1, <1>8, <1>10
  <2>. QED
    BY <2>1, <2>2, Sizes
<1>. HIDE DEF x
<1>13. Leads(x, MovRow + w)
  BY <1>11, <1>12, Zenon DEF Leads
<1>. QED
  BY <1>6, <1>13
-------------------------------------------------------------------------------
(* What the returned key says of the parity check matrix.                  *)

(* The elements in the columns up to the end of the window are those of    *)
(* the sorted permutation, in another order.                               *)
LEMMA WindowPermuted ==
  ASSUME TypeInv, MoveInv, PiIsPermutation, SEMI, Moved,
         NEW x \in 0..((MovRow + WIN_COLS) - 1)
  PROVE  \E y \in 0..((MovRow + WIN_COLS) - 1) : pi[x] = sorted[y]
<1>1. OutsideSame /\ IsInjective(pi) /\ pi \in [Idx -> Idx]
  BY DEF MoveInv, PiIsPermutation, Moved, TypeInv, TypeOK
<1>2. in.perm \in [Idx -> Nat]
  BY PermType DEF TypeInv, TypeOK
<1>3. sorted \in [Idx -> Idx] /\ IsInjective(sorted)
  BY <1>2, SortedPiIsPermutation DEF sorted
<1>4. x \in Idx
  BY Sizes DEF Idx
<1>5. CASE x - MovRow \notin WCols
  BY <1>1, <1>4, <1>5 DEF OutsideSame
<1>6. CASE x - MovRow \in WCols
  <2>1. PICK y \in Idx : sorted[y] = pi[x]
    <3>1. \A a, b \in Idx : sorted[a] = sorted[b] => a = b
      BY <1>3 DEF IsInjective
    <3>2. pi[x] \in Idx
      BY <1>1, <1>4
    <3>. QED
      BY <1>3, <3>1, <3>2, IdxFinite, InjectionIsOnto
  <2>2. CASE y - MovRow \in WCols
    <3>1. y \in 0..((MovRow + WIN_COLS) - 1)
      BY <2>2, Sizes DEF WCols, Idx
    <3>. QED
      BY <2>1, <3>1
  <2>3. CASE y - MovRow \notin WCols
    <3>1. pi[y] = pi[x]
      BY <1>1, <2>1, <2>3 DEF OutsideSame
    <3>2. y = x
      BY <1>1, <1>4, <3>1 DEF IsInjective
    <3>. QED
      BY <2>1, <3>2
  <2>. QED
    BY <2>2, <2>3
<1>. QED
  BY <1>5, <1>6

(* A reduced row has a single 1 in the leading columns. *)
LEMMA ReducedRow ==
  ASSUME TypeInv, UnitInv, pc = "row", row = PK_NROWS,
         NEW n \in 0..PK_NROWS, NEW c \in 0..(n - 1)
  PROVE  mat[c] \cap (0..(n - 1)) = {c} /\ mat[c] \in Sums(mat, Rows)
<1>1. c \in Rows /\ mat \in [Rows -> SUBSET Cols]
  BY Sizes DEF TypeInv, TypeOK, Rows
<1>2. ASSUME NEW d \in 0..(n - 1)  PROVE d \in mat[c] <=> c = d
  <2>1. d \in 0..(row - 1)
    BY Sizes
  <2>. QED
    BY <1>1, <2>1 DEF UnitInv, Terminal
<1>. QED
  BY <1>1, <1>2, RowInSums

LEMMA DoneIsSystematic ==
  ASSUME TypeInv, UnitInv, MoveInv, PiIsPermutation, PhaseInv, SumsInv,
         pc = "row", row = PK_NROWS
  PROVE  HasSystematicForm
<1>1. /\ Sums(mat, Rows) = Sums(current, Rows)
      /\ PK_NROWS \in Nat /\ MovRow \in Nat /\ MovRow \in 0..PK_NROWS
      /\ mat \in [Rows -> SUBSET Cols]
  BY Sizes DEF SumsInv, TypeInv, TypeOK
<1>2. CASE ~ SEMI
  <2>1. current = filled
    BY <1>2 DEF PhaseInv, current, filled
  <2>2. Systematic(filled, PK_NROWS)
    <3>1. ASSUME NEW c \in 0..(PK_NROWS - 1)
          PROVE  \E v \in Sums(filled, Rows) : v \cap (0..(PK_NROWS - 1)) = {c}
      BY <1>1, <2>1, ReducedRow
    <3>. QED
      BY <1>1, <3>1, SystematicSums
  <2>. QED
    BY <1>2, <2>2 DEF HasSystematicForm, filled, sorted
<1>3. CASE SEMI
  <2>1. Moved /\ OutsideSame
    BY <1>3, Sizes DEF MoveInv, Moved
  <2>2. Systematic(filled, MovRow)
    <3>1. ASSUME NEW c \in 0..(MovRow - 1)
          PROVE  \E v \in Sums(filled, Rows) : v \cap (0..(MovRow - 1)) = {c}
      <4>1. mat[c] \cap (0..(MovRow - 1)) = {c} /\ mat[c] \in Sums(current, Rows)
        BY <1>1, ReducedRow
      <4>2. PICK S \in (SUBSET Rows) \ {{}} : mat[c] = RowSum(current, S)
        BY <4>1 DEF Sums
      <4>3. ASSUME NEW x \in 0..(MovRow - 1)
            PROVE  x \in RowSum(current, S) <=> x \in RowSum(filled, S)
        <5>1. x \in Cols /\ x \in Idx /\ x - MovRow \notin WCols
          BY Sizes DEF Cols, Idx, WCols
        <5>2. pi[x] = sorted[x]
          BY <2>1, <5>1 DEF OutsideSame
        <5>. QED
          BY <5>1, <5>2, RowSumColumn DEF filled, current
      <4>4. RowSum(filled, S) \cap (0..(MovRow - 1)) = {c}
        BY <4>1, <4>2, <4>3
      <4>5. RowSum(filled, S) \in Sums(filled, Rows)
        BY DEF Sums
      <4>. QED
        BY <4>4, <4>5
    <3>. QED
      BY <1>1, <3>1, SystematicSums
  <2>3. Independent(filled, MovRow + WIN_COLS)
    <3>. DEFINE Front == 0..((MovRow + WIN_COLS) - 1)
    <3>1. ASSUME NEW S \in (SUBSET Rows) \ {{}},
                 RowSum(filled, S) \cap Front = {}
          PROVE  FALSE
      <4>1. ASSUME NEW x \in Front  PROVE x \notin RowSum(current, S)
        <5>1. PICK y \in Front : pi[x] = sorted[y]
          BY <1>3, <2>1, WindowPermuted
        <5>2. x \in Cols /\ y \in Cols
          BY Sizes DEF Cols
        <5>3. x \in RowSum(current, S) <=> y \in RowSum(filled, S)
          BY <5>1, <5>2, RowSumColumn DEF filled, current
        <5>. QED
          BY <3>1, <5>3
      <4>2. RowSum(current, S) \in Sums(mat, Rows)
        BY <1>1 DEF Sums
      <4>3. PICK T \in (SUBSET Rows) \ {{}} : RowSum(current, S) = RowSum(mat, T)
        BY <4>2 DEF Sums
      <4>4. PICK t \in T : t \in Rows
        BY <4>3
      <4>5. t \in Front /\ t \in Cols /\ t \in 0..(row - 1)
        BY <4>4, Sizes DEF Rows, Cols
      <4>6. \A r \in T : t \in mat[r] <=> r = t
        BY <4>3, <4>5 DEF UnitInv, Terminal
      <4>7. t \in RowSum(mat, T)
        BY <4>4, <4>5, <4>6, UnitColumnSum
      <4>. QED
        BY <4>1, <4>3, <4>5, <4>7
    <3>2. ASSUME NEW v \in Sums(filled, Rows)  PROVE v \cap Front # {}
      <4>1. PICK S \in (SUBSET Rows) \ {{}} : v = RowSum(filled, S)
        BY DEF Sums
      <4>. QED
        BY <3>1, <4>1
    <3>. QED
      BY <3>2, IndependentSums, Zenon
  <2>. QED
    BY <1>3, <2>2, <2>3 DEF HasSystematicForm, filled, sorted
<1>. QED
  BY <1>2, <1>3

(* With the unit matrix put back the public key is the reduced matrix. *)
LEMMA ExtractedMatrix ==
  ASSUME TypeInv, UnitInv, Extract
  PROVE  PkMatrix' = mat
<1>1. /\ mat \in [Rows -> SUBSET Cols] /\ row = PK_NROWS /\ pc = "row"
      /\ pk' = [r \in Rows |-> KeptColumns(r)]
  BY DEF Extract, TypeInv, TypeOK, Goto
<1>2. ASSUME NEW r \in Rows
      PROVE  {r} \cup {PK_NROWS + c : c \in pk'[r]} = mat[r]
  <2>1. pk'[r] = {c \in 0..(PK_NCOLS - 1) : c + PK_NROWS \in mat[r]}
    BY <1>1 DEF KeptColumns
  <2>2. ASSUME NEW c \in 0..(PK_NROWS - 1)  PROVE c \in mat[r] <=> r = c
    BY <1>1, <2>2 DEF UnitInv, Terminal
  <2>3. /\ PK_NROWS \in Nat /\ PK_NCOLS \in Nat /\ SYS_N \in Nat
        /\ PK_NCOLS = SYS_N - PK_NROWS
        /\ r \in 0..(PK_NROWS - 1) /\ mat[r] \subseteq 0..(SYS_N - 1)
    BY <1>1, Sizes DEF Rows, Cols, PK_NCOLS
  <2>4. ASSUME NEW x \in mat[r]
        PROVE  x = r \/ \E c \in pk'[r] : x = PK_NROWS + c
    <3>1. CASE x < PK_NROWS
      BY <2>2, <2>3, <3>1
    <3>2. CASE x >= PK_NROWS
      <4>1. /\ x - PK_NROWS \in 0..(PK_NCOLS - 1)
            /\ (x - PK_NROWS) + PK_NROWS = x /\ x = PK_NROWS + (x - PK_NROWS)
        BY <2>3, <3>2
      <4>. QED
        BY <2>1, <4>1
    <3>. QED
      BY <2>3, <3>1, <3>2
  <2>5. r \in mat[r]
    BY <2>2, <2>3
  <2>6. ASSUME NEW c \in pk'[r]  PROVE PK_NROWS + c \in mat[r]
    BY <2>1, <2>3
  <2>. QED
    BY <2>4, <2>5, <2>6
<1>. QED
  BY <1>1, <1>2 DEF PkMatrix
-------------------------------------------------------------------------------
(* The invariant is kept.                                                  *)

(* The phases in which neither pi nor the inputs change. *)
LEMMA SameMatrices ==
  /\ UNCHANGED in => sorted' = sorted /\ filled' = filled
  /\ UNCHANGED <<in, pi>> => current' = current
BY DEF sorted, filled, current

LEMMA NextPhaseInv == TypeInv /\ PhaseInv /\ [Next]_vars => PhaseInv'
<1>. SUFFICES ASSUME TypeInv, PhaseInv, [Next]_vars  PROVE PhaseInv'
  OBVIOUS
<1>. USE DEF Goto
<1>1. CASE SortFails
  BY <1>1 DEF SortFails, PhaseInv, McPcs
<1>2. CASE Sort
  <2>1. IsInjective(in.perm)
    BY <1>2, PermType, DuplicatesAreNeighbours DEF Sort, TypeInv, TypeOK
  <2>. QED
    BY <1>2, <2>1 DEF Sort, PhaseInv, McPcs, sorted
<1>3. CASE Matrix \/ Eliminate \/ Extract
  <2>1. UNCHANGED <<in, pi>> /\ pc \notin {"sort", "failed"} /\ pc' \notin McPcs
    BY <1>3 DEF Matrix, Eliminate, StartRow, AddRow, NotSystematic, PivotFound,
                ClearColumn, RowDone, Extract, McPcs
  <2>. QED
    BY <2>1, SameMatrices DEF PhaseInv
<1>4. CASE MovColumns
  <2>1. SEMI
    BY <1>4 DEF MovColumns, McLoad, McNotFullRank, McPivot, McAdd, McAddDone, McClear,
                McNextRow, McReduced, McSwapPi, McPiDone, McSwapColumns, McReturn,
                AtWindow, PhaseInv, McPcs
  <2>2. UNCHANGED in /\ pc \notin {"sort", "failed"}
    BY <1>4 DEF MovColumns, McLoad, McNotFullRank, McPivot, McAdd, McAddDone, McClear,
                McNextRow, McReduced, McSwapPi, McPiDone, McSwapColumns, McReturn
  <2>. QED
    BY <2>1, <2>2 DEF PhaseInv
<1>5. CASE UNCHANGED vars
  <2>1. UNCHANGED <<in, pi, pc>>
    BY <1>5 DEF vars
  <2>. QED
    BY <2>1, SameMatrices DEF PhaseInv
<1>. QED
  BY <1>1, <1>2, <1>3, <1>4, <1>5 DEF Next, Returned

LEMMA NextSumsInv ==
  TypeInv /\ PivotInv /\ MoveInv /\ PhaseInv /\ SumsInv /\ [Next]_vars => SumsInv'
<1>. SUFFICES ASSUME TypeInv, PivotInv, MoveInv, PhaseInv, SumsInv, [Next]_vars
              PROVE  SumsInv'
  OBVIOUS
<1>. USE DEF Goto
<1>0. pi \in [Idx -> Idx] /\ WIN_ROWS \in Nat
  BY Sizes DEF TypeInv, TypeOK
<1>1. CASE pc' \in {"sort", "matrix", "done", "failed"}
  BY <1>1 DEF SumsInv
<1>2. CASE Matrix
  <2>1. /\ pc' = "row" /\ mat' = FillMatrix(in.g, pi) /\ UNCHANGED <<in, pi>>
    BY <1>2 DEF Matrix
  <2>2. mat' = current'
    BY <2>1 DEF current
  <2>. QED
    BY <2>1, <2>2 DEF SumsInv
<1>3. ASSUME UNCHANGED <<in, pi>>, Sums(mat', Rows) = Sums(mat, Rows),
             pc \in {"row", "add", "clear", "mc_pivot", "mc_add", "mc_clear"},
             pc' \in {"row", "add", "clear", "mc_pivot", "mc_add", "mc_clear"}
      PROVE  SumsInv'
  BY <1>3, SameMatrices DEF SumsInv
<1>4. CASE Eliminate
  <2>1. CASE AddRow
    BY <1>3, <2>1, AddRowKeepsSums DEF AddRow
  <2>2. CASE ClearColumn
    BY <1>3, <2>2, ClearColumnKeepsSums DEF ClearColumn
  <2>3. CASE StartRow \/ PivotFound \/ RowDone
    BY <1>3, <2>3 DEF StartRow, PivotFound, RowDone
  <2>4. CASE NotSystematic
    BY <1>1, <2>4 DEF NotSystematic
  <2>. QED
    BY <1>4, <2>1, <2>2, <2>3, <2>4 DEF Eliminate
<1>5. CASE McLoad \/ McPivot \/ McAdd \/ McAddDone \/ McClear \/ McNextRow
  BY <1>3, <1>5 DEF McLoad, McPivot, McAdd, McAddDone, McClear, McNextRow
<1>6. CASE McReduced
  <2>1. /\ UNCHANGED <<in, pi, mat, ctz_list>> /\ j' = 0
        /\ pc = "mc_clear" /\ pc' = "mc_pi" /\ SEMI
    BY <1>6 DEF McReduced, PhaseInv, McPcs
  <2>2. pi = sorted
    BY <2>1 DEF MoveInv, Unmoved
  <2>3. Sums(mat', Rows) = Sums(filled', Rows)
    BY <2>1, <2>2, SameMatrices DEF SumsInv, filled, current
  <2>4. PICK P : P \in [0..WIN_ROWS -> [Idx -> Idx]] /\ P[0] = pi
    <3>. DEFINE P == [n \in 0..WIN_ROWS |-> pi]
    <3>1. P \in [0..WIN_ROWS -> [Idx -> Idx]] /\ P[0] = pi
      BY <1>0
    <3>. QED
      BY <3>1
  <2>5. sorted' = sorted
    BY <2>1, SameMatrices
  <2>6. Exchanges(P, j)' /\ P[j'] = pi'
    <3>1. 0..(0 - 1) = {}
      OBVIOUS
    <3>. QED
      BY <2>1, <2>2, <2>4, <2>5, <3>1 DEF Exchanges
  <2>. QED
    BY <2>1, <2>3, <2>6 DEF SumsInv
<1>7. CASE McSwapPi
  <2>1. /\ UNCHANGED <<in, mat, ctz_list>> /\ j' = j + 1 /\ j \in WRows
        /\ pc = "mc_pi" /\ pc' = "mc_pi" /\ row = MovRow
        /\ ctz_list \in [WRows -> WCols]
    BY <1>7, Sizes DEF McSwapPi, TypeInv, TypeOK, Control, McPcs, WRows
  <2>2. PICK P : Exchanges(P, j) /\ P[j] = pi
    BY <2>1 DEF SumsInv
  <2>3. pi' = Exchanged(pi, MovRow + j, MovRow + ctz_list[j])
    <3>1. CASE ctz_list[j] \in RightOf(j)
      BY <1>7, <2>1, <3>1 DEF McSwapPi
    <3>2. CASE ctz_list[j] \notin RightOf(j)
      <4>1. ctz_list[j] >= j
        BY <2>1 DEF PivotInv, Ascending, WRows
      <4>2. ctz_list[j] = j
        BY <2>1, <3>2, <4>1, Sizes DEF RightOf, WRows, WCols
      <4>3. MovRow + j \in Idx
        BY <2>1, WindowInside
      <4>. QED
        BY <1>0, <1>7, <2>1, <3>2, <4>2, <4>3 DEF McSwapPi, Exchanged
    <3>. QED
      BY <3>1, <3>2
  <2>4. pi' \in [Idx -> Idx]
    BY <1>0, <2>1, <2>3, WindowInside DEF Exchanged
  <2>5. PICK Q : /\ Q \in [0..WIN_ROWS -> [Idx -> Idx]] /\ Q[j + 1] = pi'
                 /\ \A n \in 0..j : Q[n] = P[n]
    <3>. DEFINE Q == [P EXCEPT ![j + 1] = pi']
    <3>1. P \in [0..WIN_ROWS -> [Idx -> Idx]]
      BY <2>2 DEF Exchanges
    <3>2. j + 1 \in 0..WIN_ROWS /\ \A n \in 0..j : n \in 0..WIN_ROWS /\ n # j + 1
      BY <2>1, Sizes DEF WRows
    <3>3. /\ Q \in [0..WIN_ROWS -> [Idx -> Idx]] /\ Q[j + 1] = pi'
          /\ \A n \in 0..j : Q[n] = P[n]
      BY <2>4, <3>1, <3>2
    <3>. HIDE DEF Q
    <3>. QED
      BY <3>3
  <2>6. ASSUME NEW m \in 0..j
        PROVE  Q[m + 1] = Exchanged(Q[m], MovRow + m, MovRow + ctz_list[m])
    <3>1. CASE m = j
      <4>1. Q[m] = pi
        BY <2>1, <2>2, <2>5, <3>1 DEF WRows
      <4>. QED
        BY <2>3, <2>5, <3>1, <4>1
    <3>2. CASE m # j
      <4>1. m \in 0..(j - 1) /\ m + 1 \in 0..j
        BY <2>1, <3>2 DEF WRows
      <4>. QED
        BY <2>2, <2>5, <4>1 DEF Exchanges
    <3>. QED
      BY <3>1, <3>2
  <2>7. Exchanges(Q, j)' /\ Q[j'] = pi'
    <3>1. Q[0] = sorted /\ sorted' = sorted
      BY <2>1, <2>2, <2>5, SameMatrices DEF Exchanges, WRows
    <3>2. j' - 1 = j
      BY <2>1 DEF WRows
    <3>. QED
      BY <2>1, <2>5, <2>6, <3>1, <3>2 DEF Exchanges
  <2>8. Sums(mat', Rows) = Sums(filled', Rows)
    BY <2>1, SameMatrices DEF SumsInv
  <2>. QED
    BY <2>1, <2>7, <2>8 DEF SumsInv
<1>8. CASE McPiDone
  <2>1. /\ UNCHANGED <<in, pi, mat, ctz_list>> /\ j = WIN_ROWS /\ j' = 0
        /\ pc = "mc_pi" /\ pc' = "mc_cols"
    BY <1>8 DEF McPiDone
  <2>2. PICK P : Exchanges(P, WIN_ROWS) /\ P[WIN_ROWS] = pi
    BY <2>1 DEF SumsInv
  <2>3. Sums(mat, Rows) = Sums(FillMatrix(in.g, P[0]), Rows)
    BY <2>1, <2>2 DEF SumsInv, Exchanges, filled
  <2>4. Exchanges(P, WIN_ROWS)'
    BY <2>1, <2>2, SameMatrices DEF Exchanges
  <2>. QED
    BY <2>1, <2>2, <2>3, <2>4 DEF SumsInv
<1>9. CASE McSwapColumns
  <2>1. /\ UNCHANGED <<in, pi, ctz_list>> /\ j' = j + 1 /\ j \in WRows
        /\ pc = "mc_cols" /\ pc' = "mc_cols" /\ row = MovRow
        /\ ctz_list \in [WRows -> WCols]
    BY <1>9, Sizes DEF McSwapColumns, TypeInv, TypeOK, Control, McPcs, WRows
  <2>2. PICK P : /\ Exchanges(P, WIN_ROWS) /\ P[WIN_ROWS] = pi
                 /\ Sums(mat, Rows) = Sums(FillMatrix(in.g, P[j]), Rows)
    BY <2>1 DEF SumsInv
  <2>3. P[j] \in [Idx -> Idx]
    BY <2>1, <2>2, Sizes DEF Exchanges, WRows
  <2>4. MovRow + j \in Cols /\ MovRow + ctz_list[j] \in Cols
    BY <2>1, WindowInside
  <2>5. mat' = [r \in Rows |-> SwapBits(mat[r], MovRow + j, MovRow + ctz_list[j])]
    BY <1>9, <2>1 DEF McSwapColumns
  <2>6. P[j + 1] = Exchanged(P[j], MovRow + j, MovRow + ctz_list[j])
    BY <2>1, <2>2 DEF Exchanges, WRows
  <2>7. Sums(mat', Rows) = Sums(FillMatrix(in.g, P[j + 1]), Rows)
    BY <2>2, <2>3, <2>4, <2>5, <2>6, SwapSums
  <2>8. Exchanges(P, WIN_ROWS)'
    BY <2>1, <2>2, SameMatrices DEF Exchanges
  <2>. QED
    BY <2>1, <2>2, <2>7, <2>8 DEF SumsInv
<1>10. CASE McReturn
  <2>1. /\ UNCHANGED <<in, pi, mat>> /\ j = WIN_ROWS
        /\ pc = "mc_cols" /\ pc' = "add"
    BY <1>10 DEF McReturn
  <2>2. Sums(mat, Rows) = Sums(current, Rows)
    BY <2>1 DEF SumsInv, current
  <2>. QED
    BY <2>1, <2>2, SameMatrices DEF SumsInv
<1>11. CASE UNCHANGED vars
  <2>1. UNCHANGED <<in, pi, mat, ctz_list, j, pc>>
    BY <1>11 DEF vars
  <2>2. \A P : /\ Exchanges(P, j)' <=> Exchanges(P, j)
               /\ Exchanges(P, WIN_ROWS)' <=> Exchanges(P, WIN_ROWS)
    BY <2>1, SameMatrices DEF Exchanges
  <2>. QED
    BY <2>1, <2>2, SameMatrices DEF SumsInv
<1>12. CASE SortFails \/ Sort \/ Extract \/ McNotFullRank
  BY <1>1, <1>12 DEF SortFails, Sort, Extract, McNotFullRank
<1>. QED
  BY <1>2, <1>4, <1>5, <1>6, <1>7, <1>8, <1>9, <1>10, <1>11, <1>12
  DEF Next, MovColumns, Returned
LEMMA NextAddInv == TypeInv /\ AddInv /\ [Next]_vars => AddInv'
<1>. SUFFICES ASSUME TypeInv, AddInv, [Next]_vars  PROVE AddInv'
  OBVIOUS
<1>. USE DEF Goto
<1>0. row \in Nat /\ k \in Nat /\ mat \in [Rows -> SUBSET Cols]
  BY Sizes DEF TypeInv, TypeOK
<1>1. CASE pc' # "add"
  BY <1>1 DEF AddInv
<1>2. CASE StartRow \/ McReturn
  <2>1. UNCHANGED <<mat, row>> /\ k' = row + 1
    BY <1>2 DEF StartRow, McReturn
  <2>2. ASSUME NEW r \in Rows, row <= r, r < row + 1  PROVE r = row
    BY <1>0, <2>2 DEF Rows
  <2>. QED
    BY <2>1, <2>2 DEF AddInv
<1>3. CASE AddRow
  <2>1. /\ row \in Rows /\ k \in Rows /\ row # k /\ k' = k + 1 /\ row' = row
        /\ pc = "add"
    BY <1>0, <1>3, Sizes DEF AddRow, TypeInv, Control, Rows
  <2>2. /\ \A r \in Rows : r # row => mat'[r] = mat[r]
        /\ mat'[row] = IF (row \in mat[row]) # (row \in mat[k])
                       THEN SymDiff(mat[row], mat[k]) ELSE mat[row]
    BY <1>0, <1>3, <2>1 DEF AddRow
  <2>3. row \in mat'[row] <=> row \in mat[row] \/ row \in mat[k]
    BY <2>2, SymDiffBit
  <2>4. ASSUME row \notin mat'[row], NEW r \in Rows, row <= r, r < k + 1
        PROVE  row \notin mat'[r]
    <3>1. CASE r = row
      BY <2>4, <3>1
    <3>2. CASE r = k
      BY <2>1, <2>2, <2>3, <2>4, <3>2
    <3>3. CASE r # row /\ r # k
      <4>1. r < k
        BY <1>0, <2>4, <3>3 DEF Rows
      <4>. QED
        BY <2>1, <2>2, <2>3, <2>4, <3>3, <4>1 DEF AddInv
    <3>. QED
      BY <3>1, <3>2, <3>3
  <2>. QED
    BY <2>1, <2>4 DEF AddInv
<1>4. CASE UNCHANGED vars
  <2>1. UNCHANGED <<mat, row, k, pc>>
    BY <1>4 DEF vars
  <2>. QED
    BY <2>1 DEF AddInv
<1>5. CASE SortFails \/ Sort \/ Matrix \/ Extract \/ NotSystematic \/ PivotFound
           \/ ClearColumn \/ RowDone
  BY <1>1, <1>5 DEF SortFails, Sort, Matrix, Extract, NotSystematic, PivotFound,
                    ClearColumn, RowDone
<1>6. CASE MovColumns /\ ~ McReturn
  BY <1>1, <1>6 DEF MovColumns, McLoad, McNotFullRank, McPivot, McAdd, McAddDone,
                    McClear, McNextRow, McReduced, McSwapPi, McPiDone, McSwapColumns
<1>. QED
  BY <1>2, <1>3, <1>4, <1>5, <1>6 DEF Next, Eliminate, Returned

LEMMA NextWindowInv ==
  TypeInv /\ UnitInv /\ MoveInv /\ SumsInv /\ WindowInv /\ [Next]_vars => WindowInv'
<1>. SUFFICES ASSUME TypeInv, UnitInv, MoveInv, SumsInv, WindowInv, [Next]_vars
              PROVE  WindowInv'
  OBVIOUS
<1>. USE DEF Goto
<1>1. CASE pc' \notin McPcs
  BY <1>1 DEF WindowInv
<1>2. CASE McLoad
  <2>1. UNCHANGED <<in, pi, mat>> /\ pc = "row" /\ row = MovRow /\ SEMI
    BY <1>2 DEF McLoad, AtWindow
  <2>2. pi = sorted
    BY <2>1, Sizes DEF MoveInv, Unmoved
  <2>3. Sums(mat, Rows) = Sums(filled, Rows) /\ filled' = filled
    BY <2>1, <2>2, SameMatrices DEF SumsInv, current, filled
  <2>4. \A u \in Sums(buf', WRows) : \E v \in Sums(filled', Rows) : Extends(u, v)
    BY <1>2, <2>3, LoadedWindow
  <2>. QED
    BY <2>4 DEF WindowInv
<1>3. ASSUME UNCHANGED in, Sums(buf', WRows) = Sums(buf, WRows), pc \in McPcs
      PROVE  WindowInv'
  BY <1>3, SameMatrices DEF WindowInv
<1>4. CASE McAdd \/ McClear
  BY <1>3, <1>4, McAddKeepsSums DEF McAdd, McClear, McPcs
<1>5. CASE McPivot \/ McAddDone \/ McNextRow \/ McReduced
  BY <1>3, <1>5 DEF McPivot, McAddDone, McNextRow, McReduced, McPcs
<1>6. CASE McSwapPi \/ McPiDone \/ McSwapColumns
  BY <1>3, <1>6 DEF McSwapPi, McPiDone, McSwapColumns, McPcs
<1>7. CASE UNCHANGED vars
  <2>1. UNCHANGED <<in, buf, pc>>
    BY <1>7 DEF vars
  <2>. QED
    BY <2>1, SameMatrices DEF WindowInv
<1>8. CASE SortFails \/ Sort \/ Matrix \/ Eliminate \/ Extract
  BY <1>1, <1>8 DEF SortFails, Sort, Matrix, Eliminate, StartRow, AddRow,
                    NotSystematic, PivotFound, ClearColumn, RowDone, Extract, McPcs
<1>9. CASE McNotFullRank \/ McReturn
  BY <1>1, <1>9 DEF McNotFullRank, McReturn, McPcs
<1>. QED
  BY <1>2, <1>4, <1>5, <1>6, <1>7, <1>8, <1>9 DEF Next, MovColumns, Returned

LEMMA NextEchelonInv ==
  TypeInv /\ PivotInv /\ EchelonInv /\ [Next]_vars => EchelonInv'
<1>. SUFFICES ASSUME TypeInv, PivotInv, EchelonInv, [Next]_vars  PROVE EchelonInv'
  OBVIOUS
<1>. USE DEF Goto
<1>0. /\ i \in WRows /\ i \in Nat /\ j \in Nat /\ i < WIN_ROWS /\ WIN_ROWS \in Nat
      /\ buf \in [WRows -> SUBSET WCols] /\ ctz_list \in [WRows -> WCols]
      /\ \A w \in 0..(i - 1) : w \in WRows /\ w < i
  BY Sizes DEF TypeInv, TypeOK, WRows
<1>1. CASE pc' \notin McPcs
  BY <1>1 DEF EchelonInv, McPcs
<1>2. CASE McLoad
  <2>1. pc' = "mc_pivot" /\ i' = 0 /\ 0..(0 - 1) = {}
    BY <1>2 DEF McLoad
  <2>. QED
    BY <2>1 DEF EchelonInv, Echelon
<1>3. ASSUME \A w \in 0..(i - 1) : buf'[w] = buf[w] /\ ctz_list'[w] = ctz_list[w],
             pc \in {"mc_pivot", "mc_add", "mc_clear"}, i' = i,
             pc' \in {"mc_pivot", "mc_add", "mc_clear"}
      PROVE  EchelonInv'
  <2>1. ASSUME NEW w \in 0..(i - 1), NEW a \in 0..(w - 1)  PROVE a \in 0..(i - 1)
    BY <1>0
  <2>2. Echelon(i)'
    BY <1>3, <2>1 DEF EchelonInv, Echelon
  <2>. QED
    BY <1>3, <2>2 DEF EchelonInv
<1>4. CASE McPivot
  <2>1. \A w \in 0..(i - 1) : ctz_list'[w] = ctz_list[w]
    BY <1>0, <1>4 DEF McPivot
  <2>. QED
    BY <1>3, <1>4, <2>1 DEF McPivot
<1>5. CASE McAdd
  <2>1. \A w \in 0..(i - 1) : buf'[w] = buf[w]
    BY <1>0, <1>5 DEF McAdd
  <2>. QED
    BY <1>3, <1>5, <2>1 DEF McAdd
<1>6. CASE McAddDone
  BY <1>3, <1>6 DEF McAddDone
<1>7. CASE McClear
  <2>1. \A w \in 0..(i - 1) : w # j
    BY <1>0, <1>7 DEF McClear, TypeInv, Control
  <2>2. \A w \in 0..(i - 1) : buf'[w] = buf[w]
    BY <1>0, <1>7, <2>1 DEF McClear
  <2>. QED
    BY <1>3, <1>7, <2>2 DEF McClear
<1>8. CASE McNextRow \/ McReduced
  <2>1. /\ UNCHANGED <<buf, ctz_list>> /\ pc = "mc_clear"
        /\ \/ pc' = "mc_pivot" /\ i' = i + 1
           \/ pc' = "mc_pi" /\ WIN_ROWS = i + 1
    BY <1>8 DEF McNextRow, McReduced
  <2>2. ASSUME NEW w \in 0..i
        PROVE  /\ ctz_list[w] \in buf[w]
               /\ \A a \in 0..(w - 1) : ctz_list[a] \notin buf[w]
    <3>1. CASE w = i
      <4>1. ctz_list[i] \in buf[i] /\ Cleared(i)
        BY <2>1 DEF PivotInv
      <4>2. ASSUME NEW a \in 0..(i - 1)  PROVE ctz_list[a] \notin buf[i]
        <5>1. i \in i..(WIN_ROWS - 1) /\ ctz_list[a] \in Int
          BY <1>0 DEF WCols
        <5>2. \A c \in buf[i] : ctz_list[a] < c
          BY <4>1, <5>1 DEF Cleared
        <5>. QED
          BY <5>1, <5>2
      <4>. QED
        BY <3>1, <4>1, <4>2
    <3>2. CASE w # i
      <4>1. w \in 0..(i - 1) /\ Echelon(i)
        BY <1>0, <2>1, <3>2 DEF EchelonInv
      <4>. QED
        BY <4>1 DEF Echelon
    <3>. QED
      BY <3>1, <3>2
  <2>3. Echelon(i + 1)
    <3>1. \A w \in 0..((i + 1) - 1) : w \in 0..i
      BY <1>0
    <3>. QED
      BY <2>2, <3>1 DEF Echelon
  <2>. QED
    BY <2>1, <2>3 DEF EchelonInv, Echelon
<1>9. CASE McSwapPi \/ McPiDone \/ McSwapColumns
  <2>1. /\ UNCHANGED <<buf, ctz_list>>
        /\ pc \in {"mc_pi", "mc_cols"} /\ pc' \in {"mc_pi", "mc_cols"}
    BY <1>9 DEF McSwapPi, McPiDone, McSwapColumns
  <2>. QED
    BY <2>1 DEF EchelonInv, Echelon
<1>10. CASE UNCHANGED vars
  <2>1. UNCHANGED <<buf, ctz_list, i, pc>>
    BY <1>10 DEF vars
  <2>. QED
    BY <2>1 DEF EchelonInv, Echelon
<1>11. CASE SortFails \/ Sort \/ Matrix \/ Eliminate \/ Extract
  BY <1>1, <1>11 DEF SortFails, Sort, Matrix, Eliminate, StartRow, AddRow,
                     NotSystematic, PivotFound, ClearColumn, RowDone, Extract, McPcs
<1>12. CASE McNotFullRank \/ McReturn
  BY <1>1, <1>12 DEF McNotFullRank, McReturn, McPcs
<1>. QED
  BY <1>2, <1>4, <1>5, <1>6, <1>7, <1>8, <1>9, <1>10, <1>11, <1>12
  DEF Next, MovColumns, Returned
LEMMA NextLeadingInv ==
  /\ TypeInv /\ MoveInv /\ WindowInv /\ EchelonInv /\ LeadingInv
  /\ [Next]_vars
  => LeadingInv'
<1>. SUFFICES ASSUME TypeInv, MoveInv, WindowInv, EchelonInv, LeadingInv,
                     [Next]_vars, SEMI
              PROVE  LeadingInv'
  BY DEF LeadingInv
<1>. USE DEF Goto
<1>0. row \in Nat /\ MovRow \in Nat /\ PK_NROWS \in Nat /\ MovRow < PK_NROWS
  BY Sizes DEF TypeInv, TypeOK
<1>1. CASE ~ Moved'
  BY <1>1 DEF LeadingInv
<1>2. CASE McReturn
  <2>1. UNCHANGED <<in, pi>> /\ pc = "mc_cols"
    BY <1>2 DEF McReturn
  <2>. QED
    BY <2>1, LeadingRows, SameMatrices DEF LeadingInv
<1>3. ASSUME UNCHANGED <<in, pi>>, Moved' => Moved
      PROVE  LeadingInv'
  BY <1>3, SameMatrices DEF LeadingInv
<1>4. CASE StartRow \/ RowDone
  <2>1. Moved' => Moved
    BY <1>0, <1>4 DEF StartRow, RowDone, AtWindow, Moved
  <2>. QED
    BY <1>3, <1>4, <2>1 DEF StartRow, RowDone
<1>5. CASE AddRow \/ NotSystematic \/ PivotFound \/ ClearColumn
  <2>1. Moved' => Moved
    BY <1>5 DEF AddRow, NotSystematic, PivotFound, ClearColumn, Moved
  <2>. QED
    BY <1>3, <1>5, <2>1 DEF AddRow, NotSystematic, PivotFound, ClearColumn
<1>6. CASE Extract
  <2>1. Moved
    BY <1>0, <1>6 DEF Extract, Moved
  <2>. QED
    BY <1>3, <1>6, <2>1 DEF Extract
<1>7. CASE SortFails \/ Sort \/ Matrix
  BY <1>0, <1>1, <1>7 DEF SortFails, Sort, Matrix, Moved
<1>8. CASE MovColumns /\ ~ McReturn
  BY <1>1, <1>8 DEF MovColumns, McLoad, McNotFullRank, McPivot, McAdd, McAddDone,
                    McClear, McNextRow, McReduced, McSwapPi, McPiDone,
                    McSwapColumns, Moved
<1>9. CASE UNCHANGED vars
  <2>1. UNCHANGED <<in, pi, row, pc>>
    BY <1>9 DEF vars
  <2>. QED
    BY <1>3, <2>1 DEF Moved
<1>. QED
  BY <1>2, <1>4, <1>5, <1>6, <1>7, <1>8, <1>9 DEF Next, Eliminate, Returned

(* After the window the elimination finds every pivot. *)
LEMMA PivotAfterWindow ==
  ASSUME TypeInv, UnitInv, SumsInv, AddInv, LeadingInv,
         SEMI, row >= MovRow, pc = "add", k = PK_NROWS
  PROVE  row \in mat[row]
<1>1. row \in Nat /\ row - MovRow \in WRows /\ MovRow + (row - MovRow) = row
  BY Sizes DEF TypeInv, TypeOK, Control, WRows
<1>2. Moved
  BY DEF Moved
<1>3. PICK v \in Sums(current, Rows) : Leads(v, row)
  BY <1>1, <1>2 DEF LeadingInv
<1>4. v \in RowSpace(mat)
  BY <1>3, RowSpaceOfSums DEF SumsInv
<1>. QED
  BY <1>3, <1>4, NoLeadingSum DEF Leads

LEMMA NotSystematicVerdict ==
  ASSUME TypeInv, UnitInv, MoveInv, PhaseInv, SumsInv, AddInv, LeadingInv,
         pc = "add", k = PK_NROWS, row \notin mat[row]
  PROVE  ~ HasSystematicForm
<1>. DEFINE n == IF SEMI THEN MovRow ELSE PK_NROWS
<1>1. row \in Nat /\ row < PK_NROWS /\ n \in Nat /\ MovRow \in Nat
  BY Sizes DEF TypeInv, TypeOK, Control
<1>2. row < n
  BY <1>1, PivotAfterWindow
<1>3. pi = sorted
  BY <1>2 DEF MoveInv, Unmoved, PhaseInv
<1>4. Sums(mat, Rows) = Sums(filled, Rows)
  BY <1>3 DEF SumsInv, current, filled
<1>. HIDE DEF n
<1>5. SUFFICES ASSUME Systematic(filled, n)  PROVE FALSE
  BY DEF HasSystematicForm, filled, sorted, n
<1>6. PICK v \in Sums(filled, Rows) : v \cap (0..(n - 1)) = {row}
  <2>1. row \in 0..(n - 1)
    BY <1>1, <1>2
  <2>. QED
    BY <1>1, <1>5, <2>1, SystematicSums
<1>7. row \in v /\ \A c \in 0..(row - 1) : c \notin v
  BY <1>1, <1>2, <1>6
<1>8. v \in RowSpace(mat)
  BY <1>4, <1>6, RowSpaceOfSums
<1>. QED
  BY <1>7, <1>8, NoLeadingSum

LEMMA NextVerdictInv ==
  /\ TypeInv /\ UnitInv /\ MoveInv /\ PiIsPermutation /\ CodeInv
  /\ [Next]_vars
  => VerdictInv'
<1>. SUFFICES ASSUME TypeInv, UnitInv, MoveInv, PiIsPermutation, CodeInv, [Next]_vars
              PROVE  VerdictInv'
  OBVIOUS
<1>. USE DEF Goto, CodeInv
<1>0. UNCHANGED in => (HasSystematicForm' <=> HasSystematicForm)
  BY DEF HasSystematicForm
<1>1. CASE pc' \notin Terminal
  BY <1>1 DEF VerdictInv, Terminal
<1>2. CASE SortFails
  <2>1. ~ IsInjective(in.perm)
    BY <1>2, PermType, DuplicatesAreNeighbours DEF SortFails, TypeInv, TypeOK
  <2>. QED
    BY <1>2, <2>1 DEF SortFails, VerdictInv
<1>3. CASE NotSystematic
  BY <1>0, <1>3, NotSystematicVerdict DEF NotSystematic, VerdictInv
<1>4. CASE McNotFullRank
  <2>1. SEMI /\ pc = "mc_pivot" /\ Candidates = {}
    BY <1>4 DEF McNotFullRank, PhaseInv, McPcs
  <2>2. ~ HasSystematicForm
    BY <2>1, NotIndependent DEF HasSystematicForm, filled, sorted
  <2>. QED
    BY <1>0, <1>4, <2>2 DEF McNotFullRank, VerdictInv
<1>5. CASE Extract
  <2>1. /\ UNCHANGED <<in, pi>> /\ pc = "row" /\ row = PK_NROWS /\ pc' = "done"
    BY <1>5 DEF Extract
  <2>2. HasSystematicForm
    BY <2>1, DoneIsSystematic
  <2>3. RowSpace(PkMatrix') = RowSpace(current)
    <3>1. RowSpace(PkMatrix') = RowSpace(mat)
      BY <1>5, ExtractedMatrix
    <3>2. Sums(mat, Rows) = Sums(current, Rows)
      BY <2>1 DEF SumsInv
    <3>. QED
      BY <3>1, <3>2, RowSpaceOfSums
  <2>. QED
    BY <1>0, <2>1, <2>2, <2>3, SameMatrices DEF VerdictInv
<1>6. CASE UNCHANGED vars
  <2>1. UNCHANGED <<in, pi, pk, pc>>
    BY <1>6 DEF vars
  <2>2. PkMatrix' = PkMatrix
    BY <2>1 DEF PkMatrix
  <2>. QED
    BY <1>0, <2>1, <2>2, SameMatrices DEF VerdictInv
<1>7. CASE Sort \/ Matrix \/ StartRow \/ AddRow \/ PivotFound \/ ClearColumn \/ RowDone
  BY <1>1, <1>7 DEF Sort, Matrix, StartRow, AddRow, PivotFound, ClearColumn, RowDone,
                    Terminal
<1>8. CASE MovColumns /\ ~ McNotFullRank
  BY <1>1, <1>8 DEF MovColumns, McLoad, McPivot, McAdd, McAddDone, McClear, McNextRow,
                    McReduced, McSwapPi, McPiDone, McSwapColumns, McReturn, Terminal
<1>. QED
  BY <1>2, <1>3, <1>4, <1>5, <1>6, <1>7, <1>8 DEF Next, Eliminate, Returned

(* Everything at once: the invariant that the theorems below rest on. *)
IInv == TypeInv /\ UnitInv /\ PivotInv /\ MoveInv /\ PiIsPermutation /\ CodeInv

LEMMA IInvIsInvariant == Spec => []IInv
<1>1. Init => IInv
  <2>. SUFFICES ASSUME Init  PROVE IInv
    OBVIOUS
  <2>1. TypeInv
    BY InitTypeInv
  <2>2. UnitInv /\ PivotInv /\ MoveInv /\ PiIsPermutation
    BY DEF Init, UnitInv, PivotInv, MoveInv, Unmoved, Moved, PiIsPermutation
  <2>3. pc = "sort"
    BY DEF Init
  <2>4. CodeInv
    BY <2>3 DEF CodeInv, PhaseInv, SumsInv, AddInv, WindowInv, EchelonInv,
                LeadingInv, VerdictInv, McPcs, Moved
  <2>. QED
    BY <2>1, <2>2, <2>4 DEF IInv
<1>2. IInv /\ [Next]_vars => IInv'
  <2>. SUFFICES ASSUME IInv, [Next]_vars  PROVE IInv'
    OBVIOUS
  <2>1. TypeInv' /\ UnitInv' /\ PivotInv' /\ MoveInv' /\ PiIsPermutation'
    BY NextTypeInv, NextUnitInv, NextPivotInv, NextMoveInv, NextPiIsPermutation
    DEF IInv
  <2>2. PhaseInv' /\ SumsInv' /\ AddInv' /\ WindowInv'
    BY NextPhaseInv, NextSumsInv, NextAddInv, NextWindowInv DEF IInv, CodeInv
  <2>3. EchelonInv' /\ LeadingInv' /\ VerdictInv'
    BY NextEchelonInv, NextLeadingInv, NextVerdictInv DEF IInv, CodeInv
  <2>. QED
    BY <2>1, <2>2, <2>3 DEF IInv, CodeInv
<1>. QED
  BY <1>1, <1>2, PTL DEF Spec

-------------------------------------------------------------------------------

(***************************************************************************)
(* Between rows the matrix has the row space of the parity check matrix of *)
(* the support pi lists (pk_gen.rs:245-344 and mov_columns, 57-180), for   *)
(* every field, every matrix and every window.                             *)
(***************************************************************************)
THEOREM EliminationFollowsPi == Spec => []RowSpaceFollowsPi
<1>1. IInv => RowSpaceFollowsPi
  BY RowSpaceOfSums DEF IInv, CodeInv, SumsInv, RowSpaceFollowsPi, current
<1>. QED
  BY <1>1, IInvIsInvariant, PTL

(***************************************************************************)
(* The public key, with the unit matrix put back, generates the row space  *)
(* of the parity check matrix of the secret polynomial and of the pi that  *)
(* is returned with it (pk_gen.rs:351-364).                                *)
(***************************************************************************)
THEOREM PublicKeyIsOfTheSecretCode == Spec => []PublicKeyMatchesSupport
<1>1. IInv => PublicKeyMatchesSupport
  BY DEF IInv, CodeInv, VerdictInv, PublicKeyMatchesSupport, current
<1>. QED
  BY <1>1, IInvIsInvariant, PTL

(***************************************************************************)
(* pk_gen returns a key exactly when perm has no equal values and the      *)
(* matrix has a (semi-)systematic form (pk_gen.rs:101, 233, 327): it       *)
(* neither rejects a usable matrix nor accepts a singular one.             *)
(***************************************************************************)
THEOREM FailsOnlyWhenItMust == Spec => []FailsExactlyWhenSingular
<1>1. IInv => FailsExactlyWhenSingular
  BY DEF IInv, CodeInv, VerdictInv, PhaseInv, FailsExactlyWhenSingular, Terminal
<1>. QED
  BY <1>1, IInvIsInvariant, PTL

(***************************************************************************)
(* Once mov_columns has returned 0 no row is left without a pivot: the     *)
(* elimination cannot fail any more (pk_gen.rs:297-344).                   *)
(***************************************************************************)
THEOREM WindowSuffices == Spec => NoFailureAfterWindow
<1>1. IInv /\ [Next]_vars => [SEMI /\ row >= MovRow /\ pc = "add" => pc' # "failed"]_vars
  <2>. SUFFICES ASSUME IInv, Next, SEMI, row >= MovRow, pc = "add", pc' = "failed"
                PROVE  FALSE
    OBVIOUS
  <2>1. NotSystematic
    BY DEF Next, Eliminate, MovColumns, Returned, vars, SortFails, Sort, Matrix,
           StartRow, AddRow, PivotFound, ClearColumn, RowDone, Extract,
           McLoad, McNotFullRank, McPivot, McAdd, McAddDone, McClear, McNextRow,
           McReduced, McSwapPi, McPiDone, McSwapColumns, McReturn, Goto
  <2>. QED
    BY <2>1, PivotAfterWindow DEF NotSystematic, Goto, IInv, CodeInv
<1>. QED
  BY <1>1, IInvIsInvariant, PTL DEF Spec, NoFailureAfterWindow
===============================================================================
