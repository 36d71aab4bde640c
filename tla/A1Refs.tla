------------------------------- MODULE A1Refs -------------------------------
(***************************************************************************)
(* The arithmetic of A1 references: how tools/fork.rs moves a reference    *)
(* when rows or columns are inserted or deleted, how the impact preview of *)
(* tools/structure_impact.rs predicts the same thing, and how              *)
(* formula/pattern.rs shifts a formula that is copied.                     *)
(*                                                                         *)
(* A segment is the record [col, row, colAbs, rowAbs]; None stands for the *)
(* missing coordinate of a whole-column ("A") or whole-row ("5") segment.  *)
(* A piece is a sequence of one segment ("A5") or of two ("A2:A5"), and an *)
(* area is a sequence of pieces (a union).  The empty area is "#REF!".     *)
(***************************************************************************)
EXTENDS Naturals, Integers, Sequences, SequencesExt, FiniteSetsExt

CONSTANTS MaxRow, MaxCol   \* 1_048_576 and 16_384 in the code

ASSUME GridAssumption == MaxRow \in Nat \ {0} /\ MaxCol \in Nat \ {0}

None == 0
RefError == <<>>
Limit(axis) == IF axis = "row" THEN MaxRow ELSE MaxCol

(***************************************************************************)
(* The rewriter of tools/fork.rs.  An edit is [kind, at, count].           *)
(***************************************************************************)
DeletedEnd(edit) == edit.at + edit.count - 1

adjust_insert_bounded(v, edit, axis) ==
    LET moved == IF v >= edit.at THEN v + edit.count ELSE v
    IN  IF moved <= Limit(axis) THEN moved ELSE Limit(axis)

adjust_delete(v, edit) ==
    CASE v \in edit.at .. DeletedEnd(edit) -> None
      [] v > DeletedEnd(edit)              -> v - edit.count
      [] OTHER                             -> v

transform_a1_scalar(v, axis, edit) ==
    CASE v = None              -> None
      [] edit.kind = "insert"  -> adjust_insert_bounded(v, edit, axis)
      [] OTHER                 -> adjust_delete(v, edit)

\* <<None, None>> when nothing of the interval is left.
transform_a1_interval(first, last, axis, edit) ==
    IF edit.kind = "insert"
    THEN << adjust_insert_bounded(first, edit, axis), adjust_insert_bounded(last, edit, axis) >>
    ELSE LET before == first < edit.at
             after  == last > DeletedEnd(edit)
         IN  CASE last < edit.at              -> <<first, last>>
               [] first > DeletedEnd(edit)    -> <<first - edit.count, last - edit.count>>
               [] before /\ after             -> <<first, last - edit.count>>
               [] before /\ ~after            -> <<first, edit.at - 1>>
               [] ~before /\ after            -> <<edit.at, last - edit.count>>
               [] OTHER                       -> <<None, None>>

(* A piece becomes a sequence of at most one piece.  A lone segment is     *)
(* dropped only when BOTH its coordinates are gone: "A5" with row 5        *)
(* deleted keeps its column and becomes "A".                               *)
transform_a1_range_piece(piece, axis, edit) ==
    IF Len(piece) = 1
    THEN LET seg == [piece[1] EXCEPT ![axis] = transform_a1_scalar(@, axis, edit)]
         IN  IF seg.col = None /\ seg.row = None THEN <<>> ELSE << <<seg>> >>
    ELSE LET first == piece[1][axis]
             last  == piece[2][axis]
             ends  == CASE first = None /\ last = None -> <<None, None>>
                        [] first # None /\ last # None /\ first <= last ->
                               transform_a1_interval(first, last, axis, edit)
                        [] OTHER -> << transform_a1_scalar(first, axis, edit),
                                       transform_a1_scalar(last, axis, edit) >>
             gone  == ~(first = None /\ last = None) /\ None \in {ends[1], ends[2]}
         IN  IF gone THEN <<>>
             ELSE << << [piece[1] EXCEPT ![axis] = ends[1]],
                        [piece[2] EXCEPT ![axis] = ends[2]] >> >>

transform_a1_range(area, axis, edit) ==
    FlattenSeq([i \in 1..Len(area) |-> transform_a1_range_piece(area[i], axis, edit)])

(***************************************************************************)
(* The clamp of rows beyond the last one, applied to plain defined names.  *)
(***************************************************************************)
ClampSegment(seg) == [seg EXCEPT !.row = IF @ > MaxRow THEN MaxRow ELSE @]
clamp_coord_part_max_row(area) ==
    [i \in 1..Len(area) |-> [j \in 1..Len(area[i]) |-> ClampSegment(area[i][j])]]

(***************************************************************************)
(* The prediction of tools/structure_impact.rs: each end of a range on its *)
(* own, and no bound.                                                      *)
(***************************************************************************)

simulate_adjust_segment(seg, axis, edit) ==
    [seg EXCEPT ![axis] = CASE @ = None             -> None
                            [] edit.kind = "insert" -> IF @ >= edit.at THEN @ + edit.count ELSE @
                            [] OTHER                -> adjust_delete(@, edit)]

simulate_adjust_coord(area, axis, edit) ==
    IF area = RefError THEN RefError
    ELSE LET piece == [j \in 1..Len(area[1]) |-> simulate_adjust_segment(area[1][j], axis, edit)]
         IN  IF \E j \in 1..Len(piece) : piece[j].col = None /\ piece[j].row = None
             THEN RefError ELSE <<piece>>

ref_touches_zone(area, axis, edit) ==
    area # RefError /\ \E j \in 1..Len(area[1]) : area[1][j][axis] # None /\ area[1][j][axis] >= edit.at

(***************************************************************************)
(* Copying a formula: relative coordinates move with it, absolute ones do  *)
(* not, and a coordinate that would leave the grid at the top or at the    *)
(* left makes the shift fail.  The mode may force an axis absolute.        *)
(***************************************************************************)
ModeAbs(seg, mode) ==
    [seg EXCEPT !.colAbs = @ \/ (mode = "abs_cols" /\ seg.col # None),
                !.rowAbs = @ \/ (mode = "abs_rows" /\ seg.row # None)]

shift_u32(v, abs, delta) == IF v = None \/ abs THEN v ELSE v + delta

ShiftSegment(seg, dc, dr, mode) ==
    LET s == ModeAbs(seg, mode)
    IN  [s EXCEPT !.col = shift_u32(@, s.colAbs, dc), !.row = shift_u32(@, s.rowAbs, dr)]

ShiftPossible(area, dc, dr, mode) ==
    \A i \in 1..Len(area) : \A j \in 1..Len(area[i]) :
        LET s == ModeAbs(area[i][j], mode)
        IN  /\ s.col = None \/ s.colAbs \/ s.col + dc >= 1
            /\ s.row = None \/ s.rowAbs \/ s.row + dr >= 1

shift_formula_ast(area, dc, dr, mode) ==
    [i \in 1..Len(area) |-> [j \in 1..Len(area[i]) |-> ShiftSegment(area[i][j], dc, dr, mode)]]

(***************************************************************************)
(* What a piece names: a set of <<column, row>> positions.  A lone segment *)
(* without a row or a column, and a range with one end cut short, name no  *)
(* cell.                                                                   *)
(***************************************************************************)
Span(a, b, axis) ==
    CASE a = None /\ b = None -> 1 .. Limit(axis)
      [] a = None \/ b = None -> {}
      [] OTHER                -> Min({a, b}) .. Max({a, b})

PieceCells(piece) ==
    IF Len(piece) = 1
    THEN IF None \in {piece[1].col, piece[1].row} THEN {} ELSE {<<piece[1].col, piece[1].row>>}
    ELSE Span(piece[1].col, piece[2].col, "col") \X Span(piece[1].row, piece[2].row, "row")

AreaCells(area) == UNION {PieceCells(area[i]) : i \in 1..Len(area)}
=============================================================================
