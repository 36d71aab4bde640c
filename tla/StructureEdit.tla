---------------------------- MODULE StructureEdit ----------------------------
(***************************************************************************)
(* Structure batches (tools/fork.rs): rows and columns inserted, deleted   *)
(* and cloned, sheets renamed, created and deleted, ranges copied, moved,  *)
(* merged and filled, each with the rewriting of formulas, defined names   *)
(* and data validations that follows it in the same call.                  *)
(*                                                                         *)
(* A batch works on an in-memory workbook read from the file; the first    *)
(* operation that is refused ends it and the file stays as it was; the     *)
(* last one is followed by the clamp of defined names and the write.       *)
(* Cell styles are left out, and a cell's value is a token.                *)
(***************************************************************************)
EXTENDS A1Refs

CONSTANTS Works,       \* the kinds of work a behaviour may do; for each of them:
          InitBooks,   \* the workbooks the file may hold at first
          Ops,         \* the operations a batch may ask for
          MaxOps,      \* bound: operations applied in one behaviour
          Policies     \* subset of {"warn", "fail", "off"}

VARIABLES work, file, book, policy, status, last, done

vars == <<work, file, book, policy, status, last, done>>

Blank == "blank"
NoFormula == [kind |-> "none", sheet |-> "", area |-> RefError]
NoOp == [kind |-> "none"]

Present(b) == Range(b.order)
CellAt(b, s, p) == b.cells[s][p]
Has(b, s, p) == s \in Present(b) /\ p \in DOMAIN b.cells[s]

\* A formula the tokenizer accepts: "ref" is a bare reference, "sum" is SUM(..).
Parsed(f) == f.kind \in {"ref", "sum"}

(***************************************************************************)
(* The worksheet library moves cells, and merged ranges, with their rows   *)
(* or columns; it leaves the text of the moved formulas alone.             *)
(***************************************************************************)
Axis(p, axis) == IF axis = "row" THEN p[2] ELSE p[1]
Move(p, axis, d) == IF axis = "row" THEN <<p[1], p[2] + d>> ELSE <<p[1] + d, p[2]>>

Deleted(p, axis, edit) == edit.kind = "delete" /\ Axis(p, axis) \in edit.at .. DeletedEnd(edit)
NewPos(p, axis, edit) ==
    IF Axis(p, axis) < edit.at THEN p
    ELSE Move(p, axis, IF edit.kind = "insert" THEN edit.count ELSE -edit.count)

ShiftCells(cs, axis, edit) ==
    LET kept == {p \in DOMAIN cs : ~Deleted(p, axis, edit)}
    IN  [q \in {NewPos(p, axis, edit) : p \in kept} |->
            cs[CHOOSE p \in kept : NewPos(p, axis, edit) = q]]

ShiftAreas(areas, axis, edit) ==
    {a \in {transform_a1_range(m, axis, edit) : m \in areas} : a # RefError}

(***************************************************************************)
(* Formulas of the OTHER sheets whose reference names the edited sheet,    *)
(* and defined names that look like formulas, follow the edit; a rewritten *)
(* formula loses its cached value.                                         *)
(***************************************************************************)
Unparsable(b, ss) == \E s \in ss : \E p \in DOMAIN b.cells[s] : b.cells[s][p].f.kind = "bad"
NameUnparsable(b) == \E n \in DOMAIN b.names : b.names[n].formula /\ b.names[n].f.kind = "bad"

MapFormula(cell, Hit(_), New(_)) ==
    IF Parsed(cell.f) /\ Hit(cell.f) THEN [v |-> Blank, f |-> New(cell.f)] ELSE cell

\* Mutant: references are moved as if the edit began one row later.
RewriteOneLate(b, s, axis, edit) ==
    LET New(f) == [f EXCEPT !.area = transform_a1_range(@, axis, [edit EXCEPT !.at = @ + 1])]
        Hit(f) == f.sheet = s
    IN  IF policy = "off" THEN b
        ELSE [b EXCEPT !.cells = [t \in DOMAIN @ |->
                 IF t = s THEN @[t] ELSE [p \in DOMAIN @[t] |-> MapFormula(@[t][p], Hit, New)]]]

rewrite_formulas_for_sheet_structure_change(b, s, axis, edit) ==
    LET New(f) == [f EXCEPT !.area = transform_a1_range(@, axis, edit)]
        Hit(f) == f.sheet = s
    IN  IF policy = "off" THEN b
        ELSE [b EXCEPT !.cells = [t \in DOMAIN @ |->
                 IF t = s THEN @[t] ELSE [p \in DOMAIN @[t] |-> MapFormula(@[t][p], Hit, New)]]]

\* A plain address (looks like no formula) is not touched here.
rewrite_defined_name_formulas_for_sheet_structure_change(b, s, axis, edit) ==
    IF policy = "off" THEN b
    ELSE [b EXCEPT !.names = [n \in DOMAIN @ |->
             IF @[n].formula /\ Parsed(@[n].f) /\ @[n].f.sheet = s
             THEN [@[n] EXCEPT !.f.area = transform_a1_range(@, axis, edit)] ELSE @[n]]]

\* Renaming rewrites every parsed formula and so drops every cached value.
rewrite_formulas_for_sheet_rename(b, old, new) ==
    LET New(f) == [f EXCEPT !.sheet = IF @ = old THEN new ELSE @]
        Hit(f) == TRUE
    IN  IF policy = "off" THEN b
        ELSE [b EXCEPT !.cells = [t \in DOMAIN @ |->
                 [p \in DOMAIN @[t] |-> MapFormula(@[t][p], Hit, New)]]]

rewrite_defined_name_formulas_for_sheet_rename(b, old, new) ==
    IF policy = "off" THEN b
    ELSE [b EXCEPT !.names = [n \in DOMAIN @ |->
             IF @[n].formula /\ Parsed(@[n].f) /\ @[n].f.sheet = old
             THEN [@[n] EXCEPT !.f.sheet = new] ELSE @[n]]]

RewriteRefused(b, ss) == policy = "fail" /\ (Unparsable(b, ss) \/ NameUnparsable(b))

\* A validation is its set of ranges; one that loses them all is dropped.
transform_data_validations_for_structure_change(dvs, axis, edit) ==
    {ShiftAreas(dv, axis, edit) : dv \in dvs} \ {{}}

\* Only row edits carry the data validations along.
EditSheet(b, s, axis, edit) ==
    LET moved == [b EXCEPT !.cells[s] = ShiftCells(@, axis, edit),
                           !.merges[s] = ShiftAreas(@, axis, edit),
                           !.dvs[s] = IF axis = "row"
                                      THEN transform_data_validations_for_structure_change(@, axis, edit)
                                      ELSE @]
    IN  rewrite_defined_name_formulas_for_sheet_structure_change(
            rewrite_formulas_for_sheet_structure_change(moved, s, axis, edit), s, axis, edit)

EditRefused(b, op) ==
    \/ op.at = 0 \/ op.count = 0
    \/ op.sheet \notin Present(b)
    \/ RewriteRefused(b, Present(b) \ {op.sheet})

(***************************************************************************)
(* SUM formulas in the row just below the inserted band whose range ended  *)
(* just above it are extended over the band.                               *)
(***************************************************************************)
SimpleSum(f) ==
    /\ f.kind = "sum" /\ f.sheet = "" /\ Len(f.area) = 1 /\ Len(f.area[1]) = 2
    /\ LET a == f.area[1][1]  z == f.area[1][2]
       IN  /\ None \notin {a.col, a.row, z.col, z.row}
           /\ ~(a.colAbs \/ a.rowAbs \/ z.colAbs \/ z.rowAbs)

Adjacent(f, at) ==
    LET a == f.area[1][1]  z == f.area[1][2]
    IN  a.col = z.col /\ z.row + 1 = at /\ a.row <= z.row

expand_adjacent_sum_formulas(b, s, at, count) ==
    LET row == at + count
        Grow(cell) == [v |-> Blank, f |-> [cell.f EXCEPT !.area[1][2].row = row - 1]]
    IN  [b EXCEPT !.cells[s] = [p \in DOMAIN @ |->
            IF p[2] = row /\ SimpleSum(@[p].f) /\ Adjacent(@[p].f, at) THEN Grow(@[p]) ELSE @[p]]]

ExpandIf(b, op) == IF op.expand THEN expand_adjacent_sum_formulas(b, op.sheet, op.at, op.count) ELSE b

(***************************************************************************)
(* The operations: the workbook after each, when it is not refused.        *)
(***************************************************************************)
Insertion(op) == [kind |-> "insert", at |-> op.at, count |-> op.count]
Deletion(op) == [kind |-> "delete", at |-> op.at, count |-> op.count]

\* A formula carried over a distance; one that cannot be shifted is copied as it is.
Carried(f, dc, dr, mode) ==
    IF Parsed(f) /\ ShiftPossible(f.area, dc, dr, mode)
    THEN [f EXCEPT !.area = shift_formula_ast(@, dc, dr, mode)] ELSE f

\* Mutant: every copy is shifted as far as the first one.
StampAlike(b, s, template, source, at, count) ==
    LET rows == at .. at + count - 1
        Stamp(c, r) == LET cell == template[c]
                       IN  IF cell.f = NoFormula THEN cell
                           ELSE [v |-> Blank, f |-> Carried(cell.f, 0, at - source, "excel")]
    IN  [b EXCEPT !.cells[s] = [p \in DOMAIN @ \cup ((DOMAIN template) \X rows) |->
            IF p \in (DOMAIN template) \X rows THEN Stamp(p[1], p[2]) ELSE @[p]]]

\* The template row is captured before the rows are inserted.
capture_row_template(b, s, row) ==
    [c \in {p[1] : p \in {q \in DOMAIN b.cells[s] : q[2] = row}} |-> b.cells[s][<<c, row>>]]

stamp_template_rows(b, s, template, source, at, count) ==
    LET rows == at .. at + count - 1
        Stamp(c, r) == LET cell == template[c]
                       IN  IF cell.f = NoFormula THEN cell
                           ELSE [v |-> Blank, f |-> Carried(cell.f, 0, r - source, "excel")]
    IN  [b EXCEPT !.cells[s] = [p \in DOMAIN @ \cup ((DOMAIN template) \X rows) |->
            IF p \in (DOMAIN template) \X rows THEN Stamp(p[1], p[2]) ELSE @[p]]]

InsertRows(b, op) == ExpandIf(EditSheet(b, op.sheet, "row", Insertion(op)), op)
DeleteRows(b, op) == EditSheet(b, op.sheet, "row", Deletion(op))
InsertCols(b, op) == EditSheet(b, op.sheet, "col", Insertion(op))
DeleteCols(b, op) == EditSheet(b, op.sheet, "col", Deletion(op))

CloneRow(b, op) ==
    ExpandIf(stamp_template_rows(EditSheet(b, op.sheet, "row", Insertion(op)), op.sheet,
                                 capture_row_template(b, op.sheet, op.source),
                                 op.source, op.at, op.count), op)

\* The library refuses a name that is already used, so its sheets keep distinct names.
SetSheetName(b, old, new) ==
    LET Named(f) == [s \in (DOMAIN f \ {old}) \cup {new} |-> IF s = new THEN f[old] ELSE f[s]]
    IN  [b EXCEPT !.order = [i \in DOMAIN @ |-> IF @[i] = old THEN new ELSE @[i]],
                  !.cells = Named(@), !.merges = Named(@), !.dvs = Named(@)]

RenameSheet(b, op) ==
    rewrite_defined_name_formulas_for_sheet_rename(
        rewrite_formulas_for_sheet_rename(SetSheetName(b, op.sheet, op.new), op.sheet, op.new),
        op.sheet, op.new)

RenameRefused(b, op) ==
    op.sheet \notin Present(b) \/ op.new \in Present(b) \/ RewriteRefused(b, Present(b))

\* Appended, or rotated to the requested position (counted from 0).
CreateSheet(b, op) ==
    LET Grown(f, e) == [s \in DOMAIN f \cup {op.new} |-> IF s = op.new THEN e ELSE f[s]]
        n == Len(b.order)
    IN  [b EXCEPT !.order = InsertAt(@, IF op.position < n THEN op.position + 1 ELSE n + 1, op.new),
                  !.cells = Grown(@, [p \in {} |-> NoFormula]), !.merges = Grown(@, {}), !.dvs = Grown(@, {})]

\* References to the sheet are left as they are.
DeleteSheet(b, op) ==
    LET Without(f) == [s \in DOMAIN f \ {op.sheet} |-> f[s]]
    IN  [b EXCEPT !.order = SelectSeq(@, LAMBDA s : s # op.sheet),
                  !.cells = Without(@), !.merges = Without(@), !.dvs = Without(@)]
DeleteRefused(b, op) == Len(b.order) <= 1 \/ op.sheet \notin Present(b)

Block(lo, hi) == (lo[1]..hi[1]) \X (lo[2]..hi[2])
Displaced(p, d) == <<p[1] + d[1], p[2] + d[2]>>

ranges_intersect(lo, hi, d) == \E p \in Block(lo, hi) : Displaced(p, d) \in Block(lo, hi)

\* What a copied cell becomes; without formulas its cached value.
CopiedCell(cell, d, formulas) ==
    IF cell.f = NoFormula \/ ~formulas THEN [v |-> cell.v, f |-> NoFormula]
    ELSE [v |-> Blank, f |-> IF policy = "off" THEN cell.f ELSE Carried(cell.f, d[1], d[2], "excel")]

CopyRefused(b, op) ==
    \/ op.sheet = op.dest /\ ranges_intersect(op.lo, op.hi, op.d)
    \/ ~({op.sheet, op.dest} \subseteq Present(b))
    \/ /\ policy = "fail" /\ op.formulas
       /\ \E p \in Block(op.lo, op.hi) : /\ Has(b, op.sheet, p)
                                         /\ LET f == CellAt(b, op.sheet, p).f
                                            IN  f # NoFormula /\ ~(Parsed(f) /\ ShiftPossible(f.area, op.d[1], op.d[2], "excel"))

copy_or_move_range(b, op, clear) ==
    LET src  == Block(op.lo, op.hi)
        dst  == {Displaced(p, op.d) : p \in src}
        From(q) == Displaced(q, <<-op.d[1], -op.d[2]>>)
        held == {q \in dst : From(q) \in DOMAIN b.cells[op.sheet]}
        Put(cs) == [p \in (DOMAIN cs \ dst) \cup held |->
                       IF p \in held THEN CopiedCell(b.cells[op.sheet][From(p)], op.d, op.formulas) ELSE cs[p]]
        written == [b EXCEPT !.cells[op.dest] = Put(@)]
    IN  IF clear THEN [written EXCEPT !.cells[op.sheet] = [p \in DOMAIN @ \ src |-> @[p]]] ELSE written

MergeCells(b, op) == [b EXCEPT !.merges[op.sheet] = @ \cup {op.area}]
\* Every merge that meets the target goes.
UnmergeCells(b, op) ==
    [b EXCEPT !.merges[op.sheet] = {m \in @ : AreaCells(m) \cap AreaCells(op.area) = {}}]

\* A base formula filled over a range from its anchor, the top left cell.
validate_formula_pattern_bounds(op) ==
    CASE op.direction = "down"  -> op.lo[1] = op.hi[1]
      [] op.direction = "right" -> op.lo[2] = op.hi[2]
      [] OTHER                  -> TRUE
PatternRefused(b, op) ==
    \/ op.sheet \notin Present(b) \/ ~Parsed(op.f) \/ ~validate_formula_pattern_bounds(op)
    \/ \E p \in Block(op.lo, op.hi) : ~ShiftPossible(op.f.area, p[1] - op.lo[1], p[2] - op.lo[2], op.mode)
apply_formula_pattern_to_workbook(b, op) ==
    [b EXCEPT !.cells[op.sheet] = [p \in DOMAIN @ \cup Block(op.lo, op.hi) |->
        IF p \in Block(op.lo, op.hi)
        THEN [v |-> Blank, f |-> [op.f EXCEPT !.area = shift_formula_ast(@, p[1] - op.lo[1], p[2] - op.lo[2], op.mode)]]
        ELSE @[p]]]

\* Plain address names are clamped to the last row.
clamp_out_of_bounds_defined_name_rows(b) ==
    [b EXCEPT !.names = [n \in DOMAIN @ |->
        IF @[n].formula THEN @[n] ELSE [@[n] EXCEPT !.f.area = clamp_coord_part_max_row(@)]]]

(***************************************************************************)
(* The impact preview: the area it says a formula of sheet s will have.    *)
(* Unqualified references belong to the formula's own sheet.               *)
(***************************************************************************)
EditKinds == {"insert_rows", "delete_rows", "insert_cols", "delete_cols", "clone_row"}
AxisOf(op) == IF op.kind \in {"insert_cols", "delete_cols"} THEN "col" ELSE "row"
EditOf(op) == IF op.kind \in {"delete_rows", "delete_cols"} THEN Deletion(op) ELSE Insertion(op)

RefSheet(f, s) == IF f.sheet = "" THEN s ELSE f.sheet
build_shifted_spans(op) == IF op.kind \in EditKinds \ {"clone_row"} THEN {op} ELSE {}

simulate_formula_after(f, s, op) ==
    IF op \in build_shifted_spans(op) /\ RefSheet(f, s) = op.sheet
    THEN simulate_adjust_coord(f.area, AxisOf(op), EditOf(op)) ELSE f.area

\* A delta is shown only for a formula with a reference that meets the zone.
Predicted(f, s, op) ==
    IF RefSheet(f, s) = op.sheet /\ ref_touches_zone(f.area, AxisOf(op), EditOf(op))
    THEN simulate_formula_after(f, s, op) ELSE f.area

(***************************************************************************)
(* The batch.                                                              *)
(***************************************************************************)
Init ==
    /\ work \in Works /\ file \in InitBooks[work] /\ book = file
    /\ policy \in Policies
    /\ status = "open" /\ last = NoOp /\ done = 0

\* One operation of the running batch.
Apply(op, refused, result) ==
    /\ status = "open" /\ done < MaxOps[work]
    /\ last' = op /\ done' = done + 1
    /\ IF refused THEN status' = "failed" /\ UNCHANGED book
       ELSE book' = result /\ UNCHANGED status
    /\ UNCHANGED <<work, file, policy>>

OpsOf(kind) == {op \in Ops[work] : op.kind = kind}

ApplyInsertRows == \E op \in OpsOf("insert_rows") : Apply(op, EditRefused(book, op), InsertRows(book, op))
ApplyDeleteRows == \E op \in OpsOf("delete_rows") : Apply(op, EditRefused(book, op), DeleteRows(book, op))
ApplyInsertCols == \E op \in OpsOf("insert_cols") : Apply(op, EditRefused(book, op), InsertCols(book, op))
ApplyDeleteCols == \E op \in OpsOf("delete_cols") : Apply(op, EditRefused(book, op), DeleteCols(book, op))
ApplyCloneRow   == \E op \in OpsOf("clone_row") :
    Apply(op, op.source = 0 \/ EditRefused(book, op), CloneRow(book, op))
ApplyRename == \E op \in OpsOf("rename_sheet") : Apply(op, RenameRefused(book, op), RenameSheet(book, op))
ApplyCreate == \E op \in OpsOf("create_sheet") : Apply(op, op.new \in Present(book), CreateSheet(book, op))
ApplyDelete == \E op \in OpsOf("delete_sheet") : Apply(op, DeleteRefused(book, op), DeleteSheet(book, op))
ApplyCopy   == \E op \in OpsOf("copy_range") :
    Apply(op, CopyRefused(book, op), copy_or_move_range(book, op, FALSE))
ApplyMove   == \E op \in OpsOf("move_range") :
    Apply(op, CopyRefused(book, op), copy_or_move_range(book, op, TRUE))
ApplyMerge   == \E op \in OpsOf("merge_cells") :
    Apply(op, op.sheet \notin Present(book), MergeCells(book, op))
ApplyUnmerge == \E op \in OpsOf("unmerge_cells") :
    Apply(op, op.sheet \notin Present(book), UnmergeCells(book, op))
ApplyPattern == \E op \in OpsOf("formula_pattern") :
    Apply(op, PatternRefused(book, op), apply_formula_pattern_to_workbook(book, op))

\* The batch ends: clamp, then write the file.
Finish ==
    /\ status = "open" /\ done > 0
    /\ book' = clamp_out_of_bounds_defined_name_rows(book) /\ file' = book'
    /\ status' = "saved" /\ last' = NoOp /\ UNCHANGED <<work, policy, done>>

\* The next batch reads the file again; what a failed batch did is gone.
NextBatch ==
    /\ status \in {"saved", "failed"} /\ done < MaxOps[work]
    /\ book' = file /\ status' = "open" /\ last' = NoOp /\ UNCHANGED <<work, file, policy, done>>

Next ==
    \/ ApplyInsertRows \/ ApplyDeleteRows \/ ApplyInsertCols \/ ApplyDeleteCols \/ ApplyCloneRow
    \/ ApplyRename \/ ApplyCreate \/ ApplyDelete \/ ApplyCopy \/ ApplyMove
    \/ ApplyMerge \/ ApplyUnmerge \/ ApplyPattern \/ Finish \/ NextBatch

Spec == Init /\ [][Next]_vars

(***************************************************************************)
(* Properties.                                                             *)
(***************************************************************************)
Applied == done' = done + 1 /\ status' = "open"

Grid == (1..MaxCol) \X (1..MaxRow)
Image(cs, axis, edit) == {NewPos(p, axis, edit) : p \in {q \in cs : ~Deleted(q, axis, edit)}}
\* The rectangle spanned by a set of positions.
Hull(cs) ==
    IF cs = {} THEN {}
    ELSE Block(<<Min({p[1] : p \in cs}), Min({p[2] : p \in cs})>>,
               <<Max({p[1] : p \in cs}), Max({p[2] : p \in cs})>>)

\* A range written from its first to its last row (or column).
Ordered(piece, axis) ==
    Len(piece) = 2 /\ piece[1][axis] # None /\ piece[2][axis] # None /\ piece[1][axis] <= piece[2][axis]

\* The new area names what became of the cells the old piece named.
Follows(piece, new, axis, edit) ==
    LET image == Image(PieceCells(piece), axis, edit)
    IN  /\ image = {} => new = RefError
        /\ image \cap Grid # {} => AreaCells(new) = Hull(image) \cap Grid

(* A range held by another sheet or by a defined name is, after rows or    *)
(* columns are inserted or deleted, exactly the rectangle its surviving    *)
(* cells moved to, and #REF! when none survives; a cell reference follows  *)
(* every insertion.                                                        *)
RefsFollowCells ==
    Applied /\ last'.kind \in EditKinds /\ policy # "off" =>
      LET axis == AxisOf(last')  edit == EditOf(last')
          before == UNION {{<<book.cells[t][p].f, book'.cells[t][p].f>> : p \in DOMAIN book.cells[t]} :
                               t \in Present(book) \ {last'.sheet}}
          named  == {<<book.names[n].f, book'.names[n].f>> : n \in {m \in DOMAIN book.names : book.names[m].formula}}
      IN  \A pair \in before \cup named :
              LET f == pair[1]
              IN  /\ Parsed(f) /\ f.sheet = last'.sheet /\ AreaCells(f.area) # {}
                  /\ Ordered(f.area[1], axis) \/ (edit.kind = "insert" /\ Len(f.area[1]) = 1)
                  => Follows(f.area[1], pair[2].area, axis, edit)

(* Data validations go with the rows they were put on, and a validation    *)
(* none of whose rows is left is dropped: none is ever left without rows.  *)
ValidationsFollowRows ==
    Applied /\ last'.kind \in EditKinds /\ AxisOf(last') = "row" =>
      LET edit == EditOf(last')
          Covered(b) == UNION {AreaCells(a) : a \in UNION b.dvs[last'.sheet]}
      IN  /\ {} \notin book'.dvs[last'.sheet]
          /\ Image(Covered(book), "row", edit) \cap Grid \subseteq Covered(book')
          /\ edit.kind = "delete" => Covered(book') = Image(Covered(book), "row", edit)

(* A formula of the template row that reads its own row is cloned into     *)
(* formulas that each read their own row, wherever the copies go.          *)
ReadsOwnRow(cell, row) ==
    /\ Parsed(cell.f) /\ cell.f.sheet = "" /\ cell.f.area # RefError
    /\ \A j \in 1..Len(cell.f.area[1]) : cell.f.area[1][j].row = row /\ ~cell.f.area[1][j].rowAbs
ClonesReadTheirOwnRow ==
    Applied /\ last'.kind = "clone_row" =>
      \A c \in 1..MaxCol :
          /\ <<c, last'.source>> \in DOMAIN book.cells[last'.sheet]
          /\ ReadsOwnRow(book.cells[last'.sheet][<<c, last'.source>>], last'.source)
          => \A r \in last'.at .. last'.at + last'.count - 1 :
                 ReadsOwnRow(book'.cells[last'.sheet][<<c, r>>], r)

(* With expand_adjacent_sums a subtotal that covered the rows down to the  *)
(* insertion covers the inserted rows too, and stays clear of itself.      *)
SubtotalsCoverInsertedRows ==
    Applied /\ last'.kind \in {"insert_rows", "clone_row"} /\ last'.expand =>
      \A c \in 1..MaxCol :
          /\ <<c, last'.at>> \in DOMAIN book.cells[last'.sheet]
          /\ LET f == book.cells[last'.sheet][<<c, last'.at>>].f
             IN  SimpleSum(f) /\ Adjacent(f, last'.at)
          => LET old == AreaCells(book.cells[last'.sheet][<<c, last'.at>>].f.area)
                 row == last'.at + last'.count
                 new == AreaCells(book'.cells[last'.sheet][<<c, row>>].f.area)
             IN  new = old \cup {<<p[1], r>> : p \in old, r \in last'.at .. row - 1}

(* Whatever is renamed, copied, filled or shifted, a formula the tokenizer *)
(* accepts names a sheet of the workbook, or one that a batch may delete.  *)
NoDanglingSheet ==
    policy # "off" =>
        \A s \in Present(book) : \A p \in DOMAIN book.cells[s] :
            LET f == book.cells[s][p].f
            IN  Parsed(f) /\ f.sheet # "" => f.sheet \in Present(book) \cup {op.sheet : op \in OpsOf("delete_sheet")}

(* A moved block arrives whole and leaves nothing behind: every value of   *)
(* the source is at its displaced position, and the source is empty.       *)
MovesKeepTheBlock ==
    Applied /\ last'.kind = "move_range" =>
      \A p \in Block(last'.lo, last'.hi) :
          LET q == Displaced(p, last'.d)
          IN  /\ ~Has(book', last'.sheet, p)
              /\ Has(book, last'.sheet, p) <=> Has(book', last'.dest, q)
              /\ Has(book, last'.sheet, p) /\ CellAt(book, last'.sheet, p).f = NoFormula
                     => CellAt(book', last'.dest, q) = CellAt(book, last'.sheet, p)

(* The formula delta of the impact preview: what it says a formula of      *)
(* another sheet will read after an insertion is what the batch writes, as *)
(* long as nothing is pushed past the last row or column.                  *)
InGrid(area) == \A i \in 1..Len(area) : \A j \in 1..Len(area[i]) : area[i][j].row <= MaxRow /\ area[i][j].col <= MaxCol
PreviewAgreesOnInsertions ==
    Applied /\ last'.kind \in {"insert_rows", "insert_cols"} /\ policy # "off" =>
      \A s \in Present(book) \ {last'.sheet} : \A p \in DOMAIN book.cells[s] :
          LET f == book.cells[s][p].f
          IN  Parsed(f) /\ InGrid(Predicted(f, s, last')) =>
                  book'.cells[s][p].f.area = Predicted(f, s, last')

(* References go where their cells go: every range another sheet, a name   *)
(* or a validation holds follows the rows and columns it was put on, the   *)
(* impact preview says so beforehand, and no formula is left naming a      *)
(* sheet that a rename took away.                                          *)
ReferencesFollowTheEdit ==
    [][RefsFollowCells /\ ValidationsFollowRows /\ PreviewAgreesOnInsertions /\ NoDanglingSheet']_vars

(* What is copied means the same where it arrives: a cloned row reads its  *)
(* own row, a subtotal takes the new rows in, a moved block arrives whole. *)
CopiesKeepTheirMeaning ==
    [][ClonesReadTheirOwnRow /\ SubtotalsCoverInsertedRows /\ MovesKeepTheBlock]_vars
=============================================================================
