----------------------------- MODULE MatrixGrid -----------------------------
(***************************************************************************)
(* The matrix of the reports (features/eea/components/matrix-grid): levels  *)
(* by demographic columns, with computed rows and a computed column.        *)
(*                                                                         *)
(* A cell of the code has one or two figures; a matrix of such cells is a   *)
(* record of grids here, one grid per figure, and adapter.add, which adds   *)
(* figure by figure, is the addition of each grid.                          *)
(***************************************************************************)
EXTENDS Integers, Sequences, FiniteSetsExt, Functions

CONSTANTS
    PermanentRows,  \* the levels, in visual order
    TemporaryRow,   \* the row of the temporary employees, below them
    DemoCols        \* the demographic columns, in visual order

EditableRows == Append(PermanentRows, TemporaryRow)

Permanent == Range(PermanentRows)
Editable  == Range(EditableRows)
Demo      == Range(DemoCols)

ASSUME RowsAssumption ==
    /\ PermanentRows \in Seq(STRING) /\ TemporaryRow \in STRING /\ DemoCols \in Seq(STRING)
    /\ Editable \cap {"totalPermanent", "grandTotal"} = {} /\ "total" \notin Demo
    /\ TemporaryRow \notin Permanent

Rows == Editable \cup {"totalPermanent", "grandTotal"}
Cols == Demo \cup {"total"}

Grid == [Rows -> [Cols -> Nat]]

ZeroGrid == [r \in Rows |-> [c \in Cols |-> 0]]

----------------------------------------------------------------------------
(* Totals *)

WithRowTotal(row) == [row EXCEPT !["total"] = SumFunctionOnSet(row, Demo)]

SumRows(g, rows) ==
    WithRowTotal([c \in Cols |-> SumFunction([r \in rows |-> g[r][c]])])

\* The rows of data that nobody edits are replaced, whatever they held.
ComputeGridTotals(data) ==
    LET permanent == SumRows(data, Permanent)
        summed    == [r \in {"totalPermanent", TemporaryRow} |->
                         IF r = TemporaryRow THEN data[r] ELSE permanent]
    IN [r \in Rows |-> CASE r \in Editable -> WithRowTotal(data[r])
                         [] r = "totalPermanent" -> permanent
                         [] r = "grandTotal" -> SumRows(summed, DOMAIN summed)]

\* What a grid must be to add up, said of its editable cells alone.
AddsUp(g) ==
    LET Of(rows, cols) == SumFunction([rc \in rows \X cols |-> g[rc[1]][rc[2]]])
    IN /\ \A r \in Editable : g[r]["total"] = Of({r}, Demo)
       /\ \A c \in Cols : LET cols == IF c = "total" THEN Demo ELSE {c}
                          IN /\ g["totalPermanent"][c] = Of(Permanent, cols)
                             /\ g["grandTotal"][c] = Of(Editable, cols)

----------------------------------------------------------------------------
(* Pasting *)

PosIn(s, e) == CHOOSE i \in DOMAIN s : s[i] = e

\* The figures of a TSV block, pasted at a cell: block[i][j] goes i - 1 rows down
\* and j - 1 columns right, and what falls off the editable cells is dropped.
PasteAt(data, r, c, block) ==
    LET i0 == PosIn(EditableRows, r)  j0 == PosIn(DemoCols, c)
        Hit(row, col) ==
            /\ row \in Editable /\ col \in Demo
            /\ PosIn(EditableRows, row) - i0 + 1 \in DOMAIN block
            /\ PosIn(DemoCols, col) - j0 + 1 \in
                  DOMAIN block[PosIn(EditableRows, row) - i0 + 1]
    IN [row \in Rows |-> [col \in Cols |->
          IF Hit(row, col)
          THEN block[PosIn(EditableRows, row) - i0 + 1][PosIn(DemoCols, col) - j0 + 1]
          ELSE data[row][col]]]
=============================================================================
