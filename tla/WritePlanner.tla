---------------------------- MODULE WritePlanner ----------------------------
(***************************************************************************)
(* The planned row operations of core/write_planner.rs: rows appended to a *)
(* detected region or to a table, a template row cloned, a band of rows    *)
(* cloned.  Each builds a plan from the workbook, which a dry run prints,  *)
(* and applies it with a structure edit (StructureEdit) followed by what   *)
(* the edit does not do: the values, the merges and validations of the     *)
(* copies, the end of the table.                                           *)
(*                                                                         *)
(* A workbook here has `tables`, from a name to [sheet, lo, hi].  The      *)
(* region detector is not modelled: a request carries the bounds it found. *)
(* Row heights and styles are left out.                                    *)
(***************************************************************************)
EXTENDS StructureEdit

CONSTANTS FooterLabels,   \* values that look like a footer label
          Numerals        \* values that read as numbers

NullCell == [v |-> "null", f |-> NoFormula]
RowCells(b, s, row) == {p \in DOMAIN b.cells[s] : p[2] = row}
IsFormula(cell) == cell.f # NoFormula

(***************************************************************************)
(* Appending rows.  A request is [kind, sheet, region, table, footer,      *)
(* rows]: region is <<>> or <<[lo, hi]>>, table is <<>> or <<[exact,       *)
(* within]>>, the name asked for and the names that contain it, and a row  *)
(* is a sequence of cells.                                                 *)
(***************************************************************************)
looks_like_footer_label(v) == v \in FooterLabels

\* A label with a formula, or formulas and no other text.
footer_reason_for_row(b, s, lo, hi, row) ==
    LET cells   == {b.cells[s][p] : p \in {q \in RowCells(b, s, row) : q[1] \in lo[1]..hi[1]}}
        formula == \E cell \in cells : IsFormula(cell)
        texts   == {cell.v : cell \in {c \in cells : ~IsFormula(c) /\ c.v # Blank}}
    IN  /\ formula
        /\ \/ \E v \in texts : looks_like_footer_label(v)
           \/ texts = {}

\* The last row of the region, or the row below it; 0 when neither is a footer.
detect_append_footer_on_workbook(b, s, lo, hi) ==
    LET rows == {r \in {hi[2], hi[2] + 1} : footer_reason_for_row(b, s, lo, hi, r)}
    IN  IF rows = {} THEN 0 ELSE Min(rows)

footer_formula_targets_for_row(b, s, lo, hi, row) ==
    {p \in RowCells(b, s, row) : p[1] \in lo[1]..hi[1] /\ IsFormula(b.cells[s][p])}

\* The tables a name stands for: the one of that name, else all that contain it.
resolve_append_table_target(b, op) ==
    LET here == {t \in DOMAIN b.tables : b.tables[t].sheet = op.sheet}
        exact == here \cap {op.table[1].exact}
    IN  IF exact # {} THEN exact ELSE here \cap op.table[1].within

TargetRefused(b, op) ==
    \/ (op.region = <<>>) <=> (op.table = <<>>)
    \/ op.table # <<>> /\ Cardinality(resolve_append_table_target(b, op)) # 1

resolve_append_region_target(b, op) ==
    IF op.table = <<>>
    THEN [table |-> <<>>, lo |-> op.region[1].lo, hi |-> op.region[1].hi]
    ELSE LET t == CHOOSE t \in resolve_append_table_target(b, op) : TRUE
         IN  [table |-> <<t>>, lo |-> b.tables[t].lo, hi |-> b.tables[t].hi]

ColumnsWritten(rows) == Max({Len(rows[i]) : i \in 1..Len(rows)})

AppendRefused(b, op) ==
    \/ op.rows = <<>>
    \/ op.sheet \notin Present(b)
    \/ TargetRefused(b, op)
    \/ ColumnsWritten(op.rows) = 0
    \/ LET target == resolve_append_region_target(b, op)
       IN  \/ ColumnsWritten(op.rows) > target.hi[1] - target.lo[1] + 1
           \/ /\ op.footer = "before_footer"
              /\ detect_append_footer_on_workbook(b, op.sheet, target.lo, target.hi) = 0

build_append_region_plan_from_workbooks(b, op) ==
    LET target == resolve_append_region_target(b, op)
        footer == detect_append_footer_on_workbook(b, op.sheet, target.lo, target.hi)
        at     == IF op.footer = "append_at_end" \/ footer = 0 THEN target.hi[2] + 1 ELSE footer
    IN  [sheet |-> op.sheet, table |-> target.table, lo |-> target.lo, hi |-> target.hi,
         footer |-> footer, at |-> at, count |-> Len(op.rows), rows |-> op.rows,
         targets |-> IF footer = 0 THEN {}
                     ELSE footer_formula_targets_for_row(b, op.sheet, target.lo, target.hi, footer)]

\* The cells of the plan's rows; a null leaves its cell alone.
Appended(plan) ==
    LET Cell(p) == plan.rows[p[2] - plan.at + 1][p[1] - plan.lo[1] + 1]
        places  == {p \in Block(<<plan.lo[1], plan.at>>, <<plan.hi[1], plan.at + plan.count - 1>>) :
                       p[1] - plan.lo[1] + 1 <= Len(plan.rows[p[2] - plan.at + 1])}
    IN  [p \in {q \in places : Cell(q) # NullCell} |-> Cell(p)]

WriteCells(b, s, new) == [b EXCEPT !.cells[s] = [p \in DOMAIN @ \cup DOMAIN new |-> IF p \in DOMAIN new THEN new[p] ELSE @[p]]]

\* The library leaves the table where it was; its end moves by the rows appended.
expand_table_target_on_workbook(b, plan) ==
    IF plan.table = <<>> THEN b ELSE [b EXCEPT !.tables[plan.table[1]].hi[2] = @ + plan.count]

StructureStep(b) == clamp_out_of_bounds_defined_name_rows(b)

apply_append_region_plan_to_workbook(b, plan) ==
    LET inserted == StructureStep(InsertRows(b, [sheet |-> plan.sheet, at |-> plan.at, count |-> plan.count, expand |-> TRUE]))
    IN  expand_table_target_on_workbook(WriteCells(inserted, plan.sheet, Appended(plan)), plan)

(***************************************************************************)
(* Cloning.  A request is [kind, sheet, lo, hi, anchor, repeat, expand,    *)
(* patch, strict]; a template row has lo = hi.  The anchor is a function   *)
(* from the options given, of before, after and insert_at, to a row.       *)
(***************************************************************************)
AnchorRefused(anchor) == Cardinality(DOMAIN anchor) # 1 \/ \E k \in DOMAIN anchor : anchor[k] = 0
resolve_clone_anchor(anchor) ==
    LET k == CHOOSE k \in DOMAIN anchor : TRUE IN IF k = "after" THEN anchor[k] + 1 ELSE anchor[k]

\* Ranges with rows and columns at both ends; others are passed over.
Bounded(area) == Len(area) = 1 /\ \A j \in 1..Len(area[1]) : None \notin {area[1][j].col, area[1][j].row}
FirstRow(area) == area[1][1].row
LastRow(area) == area[1][Len(area[1])].row
Meets(area, lo, hi) == Bounded(area) /\ ~(LastRow(area) < lo \/ FirstRow(area) > hi)
Within(area, lo, hi) == Bounded(area) /\ FirstRow(area) >= lo /\ LastRow(area) <= hi
ShiftArea(area, d) == <<[j \in 1..Len(area[1]) |-> [area[1][j] EXCEPT !.row = @ + d]]>>

inspect_clone_row_merges(b, s, row) ==
    [contained |-> {m \in b.merges[s] : Bounded(m) /\ FirstRow(m) = row /\ LastRow(m) = row},
     crossing  |-> {m \in b.merges[s] : Bounded(m) /\ row \in FirstRow(m)..LastRow(m)
                                        /\ ~(FirstRow(m) = row /\ LastRow(m) = row)}]
inspect_clone_band_merges(b, s, lo, hi) ==
    [contained |-> {m \in b.merges[s] : Within(m, lo, hi)},
     crossing  |-> {m \in b.merges[s] : Meets(m, lo, hi) /\ ~Within(m, lo, hi)}]
\* Every range of a validation counts on its own.
inspect_clone_row_validations(b, s, row) ==
    {a \in UNION b.dvs[s] : Bounded(a) /\ FirstRow(a) = row /\ LastRow(a) = row}
inspect_clone_band_validations(b, s, lo, hi) == {a \in UNION b.dvs[s] : Within(a, lo, hi)}

\* The cells of the source, captured before anything is inserted.
inspect_template_row_cells(b, s, row) == [p \in RowCells(b, s, row) |-> b.cells[s][p]]
inspect_clone_band_rows(b, s, lo, hi) ==
    [p \in UNION {RowCells(b, s, row) : row \in lo..hi} |-> b.cells[s][p]]

\* The first rows of the copies.
build_clone_inserted_blocks(at, n, repeat) == {at + i * n : i \in 0 .. repeat - 1}
Down(p, d) == <<p[1], p[2] + d>>

build_clone_formula_targets(cells, at, count) ==
    {<<p[1], row>> : p \in {q \in DOMAIN cells : IsFormula(cells[q])}, row \in at .. at + count - 1}
build_clone_band_formula_targets(cells, lo, blocks) ==
    {Down(p, start - lo) : p \in {q \in DOMAIN cells : IsFormula(cells[q])}, start \in blocks}

\* The columns of a source row a user is likely to fill in.
get_likely_input_cols_for_row(cells, validations, row, patch) ==
    LET plain == {p \in DOMAIN cells : p[2] = row /\ ~IsFormula(cells[p])}
        ruled == {p \in UNION {AreaCells(a) : a \in validations} : p[2] = row}
    IN  {p[1] : p \in CASE patch = "none"            -> {}
                        [] patch = "all_non_formula" -> plain
                        [] OTHER -> {q \in plain : ~looks_like_footer_label(cells[q].v) /\ cells[q].v \in Numerals} \cup ruled}

build_clone_patch_targets(cells, validations, row, at, count, patch) ==
    get_likely_input_cols_for_row(cells, validations, row, patch) \X (at .. at + count - 1)
build_clone_band_patch_targets(cells, validations, lo, hi, blocks, patch) ==
    UNION {{<<c, start + row - lo>> : c \in get_likely_input_cols_for_row(cells, validations, row, patch), start \in blocks} :
               row \in lo..hi}

\* Where the sums to be extended will be; the order of the range's rows is not looked at.
preview_adjacent_sum_targets(b, s, at, count) ==
    {<<p[1], at + count>> : p \in {q \in RowCells(b, s, at) :
        LET f == b.cells[s][q].f
        IN  SimpleSum(f) /\ f.area[1][1].col = f.area[1][2].col /\ f.area[1][2].row + 1 = at}}

CloneRefused(b, op, merges) ==
    \/ op.repeat = 0 \/ op.lo = 0 \/ op.lo > op.hi
    \/ AnchorRefused(op.anchor)
    \/ op.sheet \notin Present(b)
    \/ op.strict /\ merges.crossing # {}

build_clone_template_row_plan_from_workbook(b, op) ==
    LET at     == resolve_clone_anchor(op.anchor)
        cells  == inspect_template_row_cells(b, op.sheet, op.lo)
        ranges == inspect_clone_row_validations(b, op.sheet, op.lo)
    IN  [sheet |-> op.sheet, lo |-> op.lo, hi |-> op.lo, at |-> at, count |-> op.repeat, expand |-> op.expand,
         cells |-> cells, blocks |-> at .. at + op.repeat - 1,
         merges |-> inspect_clone_row_merges(b, op.sheet, op.lo).contained, validations |-> ranges,
         formulas |-> build_clone_formula_targets(cells, at, op.repeat),
         patches |-> build_clone_patch_targets(cells, ranges, op.lo, at, op.repeat, op.patch),
         sums |-> IF op.expand THEN preview_adjacent_sum_targets(b, op.sheet, at, op.repeat) ELSE {}]

build_clone_row_band_plan_from_workbook(b, op) ==
    LET at     == resolve_clone_anchor(op.anchor)
        n      == op.hi - op.lo + 1
        cells  == inspect_clone_band_rows(b, op.sheet, op.lo, op.hi)
        ranges == inspect_clone_band_validations(b, op.sheet, op.lo, op.hi)
        blocks == build_clone_inserted_blocks(at, n, op.repeat)
    IN  [sheet |-> op.sheet, lo |-> op.lo, hi |-> op.hi, at |-> at, count |-> n * op.repeat, expand |-> op.expand,
         cells |-> cells, blocks |-> blocks,
         merges |-> inspect_clone_band_merges(b, op.sheet, op.lo, op.hi).contained, validations |-> ranges,
         formulas |-> build_clone_band_formula_targets(cells, op.lo, blocks),
         patches |-> build_clone_band_patch_targets(cells, ranges, op.lo, op.hi, blocks, op.patch),
         sums |-> IF op.expand THEN preview_adjacent_sum_targets(b, op.sheet, at, n * op.repeat) ELSE {}]

\* The merges and validations of the source, once for each copy.
Ranges(areas, plan) == {ShiftArea(a, start - plan.lo) : a \in areas, start \in plan.blocks}
apply_clone_template_row_postprocess(b, plan) ==
    [b EXCEPT !.merges[plan.sheet] = @ \cup Ranges(plan.merges, plan),
              !.dvs[plan.sheet] = @ \cup {{a} : a \in Ranges(plan.validations, plan)}]

StampBand(b, plan, D(_)) ==
    LET Start(p) == CHOOSE start \in plan.blocks : p[2] \in start .. start + plan.hi - plan.lo
        From(p)  == Down(p, plan.lo - Start(p))
        Stamp(p) == LET cell == plan.cells[From(p)]
                    IN  IF IsFormula(cell) THEN [v |-> Blank, f |-> Carried(cell.f, 0, D(Start(p)), "excel")] ELSE cell
        places   == {Down(p, start - plan.lo) : p \in DOMAIN plan.cells, start \in plan.blocks}
    IN  apply_clone_template_row_postprocess(WriteCells(b, plan.sheet, [p \in places |-> Stamp(p)]), plan)

\* Mutant: the formulas of every copy are shifted as far as those of the first.
StampAsFirstBlock(b, plan) ==
    LET Distance(start) == plan.at - plan.lo IN StampBand(b, plan, Distance)

apply_clone_row_band_postprocess(b, plan) ==
    LET Distance(start) == start - plan.lo IN StampBand(b, plan, Distance)

apply_clone_template_row_plan_to_workbook(b, plan) ==
    apply_clone_template_row_postprocess(
        StructureStep(CloneRow(b, [sheet |-> plan.sheet, source |-> plan.lo, at |-> plan.at,
                                   count |-> plan.count, expand |-> plan.expand])), plan)
apply_clone_row_band_plan_to_workbook(b, plan) ==
    apply_clone_row_band_postprocess(
        StructureStep(InsertRows(b, [sheet |-> plan.sheet, at |-> plan.at, count |-> plan.count, expand |-> plan.expand])), plan)

(***************************************************************************)
(* The actions.  The planner always rewrites formulas under "warn".        *)
(***************************************************************************)
AppendRegion == policy = "warn" /\ \E op \in OpsOf("append_region") :
    Apply(op, AppendRefused(book, op),
          apply_append_region_plan_to_workbook(book, build_append_region_plan_from_workbooks(book, op)))
CloneTemplateRow == policy = "warn" /\ \E op \in OpsOf("clone_template_row") :
    Apply(op, CloneRefused(book, op, inspect_clone_row_merges(book, op.sheet, op.lo)),
          apply_clone_template_row_plan_to_workbook(book, build_clone_template_row_plan_from_workbook(book, op)))
CloneRowBand == policy = "warn" /\ \E op \in OpsOf("clone_row_band") :
    Apply(op, CloneRefused(book, op, inspect_clone_band_merges(book, op.sheet, op.lo, op.hi)),
          apply_clone_row_band_plan_to_workbook(book, build_clone_row_band_plan_from_workbook(book, op)))

PlannerNext == AppendRegion \/ CloneTemplateRow \/ CloneRowBand

(***************************************************************************)
(* Properties.                                                             *)
(***************************************************************************)
\* What was on the sheet is still there, below the inserted rows or above them.
OldCellsKept(plan, expanded) ==
    \A p \in DOMAIN book.cells[plan.sheet] :
        LET q == NewPos(p, "row", [kind |-> "insert", at |-> plan.at, count |-> plan.count])
        IN  Has(book', plan.sheet, q) /\ (q \notin expanded => CellAt(book', plan.sheet, q) = CellAt(book, plan.sheet, p))

NewRows(plan) == plan.at .. plan.at + plan.count - 1
NewCells(plan) == {p \in DOMAIN book'.cells[plan.sheet] : p[2] \in NewRows(plan)}

AppendedAsPlanned(plan) ==
    LET sums == preview_adjacent_sum_targets(book, plan.sheet, plan.at, plan.count)
    IN  /\ OldCellsKept(plan, sums)
        /\ NewCells(plan) = DOMAIN Appended(plan)
        /\ \A p \in NewCells(plan) : CellAt(book', plan.sheet, p) = Appended(plan)[p]
        \* the footer is just below the new rows, and its sums take them in
        /\ plan.at = plan.footer => \A p \in plan.targets :
               LET f == CellAt(book, plan.sheet, p).f
               IN  SimpleSum(f) /\ Adjacent(f, plan.at) =>
                       AreaCells(CellAt(book', plan.sheet, Down(p, plan.count)).f.area)
                           = AreaCells(f.area) \cup ({f.area[1][1].col} \X NewRows(plan))
        /\ plan.table # <<>> =>
               LET t == book'.tables[plan.table[1]]
               IN  DOMAIN Appended(plan) \subseteq Block(t.lo, t.hi) /\ t.lo = plan.lo

\* A formula that reads only rows of its own band.
ReadsOwnBand(f, lo, hi) ==
    /\ Parsed(f) /\ f.sheet = "" /\ f.area # RefError
    /\ \A j \in 1..Len(f.area[1]) : f.area[1][j].row \in lo..hi /\ ~f.area[1][j].rowAbs

ClonedAsPlanned(plan, patch) ==
    /\ OldCellsKept(plan, plan.sums)
    /\ plan.formulas = {p \in NewCells(plan) : IsFormula(CellAt(book', plan.sheet, p))}
    /\ patch = "all_non_formula" => plan.patches = NewCells(plan) \ plan.formulas
    /\ plan.patches \subseteq (1..MaxCol) \X NewRows(plan)
    \* the sums announced are the ones that grew, when their rows are in order
    /\ \A q \in plan.sums :
           LET f == CellAt(book, plan.sheet, <<q[1], plan.at>>).f
           IN  FirstRow(f.area) <= LastRow(f.area) =>
                   AreaCells(CellAt(book', plan.sheet, q).f.area)
                       = AreaCells(f.area) \cup ({f.area[1][1].col} \X NewRows(plan))
    \* every copy has the source's merges and validations, and reads itself
    /\ \A start \in plan.blocks :
           LET d == start - plan.lo
           IN  /\ {m \in book'.merges[plan.sheet] : Within(m, start, start + plan.hi - plan.lo)}
                      = {ShiftArea(m, d) : m \in plan.merges}
               /\ \A a \in plan.validations : {ShiftArea(a, d)} \in book'.dvs[plan.sheet]
               /\ \A p \in DOMAIN plan.cells :
                      ReadsOwnBand(plan.cells[p].f, plan.lo, plan.hi) =>
                          AreaCells(CellAt(book', plan.sheet, Down(p, d)).f.area)
                              = {Down(q, d) : q \in AreaCells(plan.cells[p].f.area)}

(* What the dry run of an append or a clone prints is what the operation   *)
(* does: the appended values stand between the region and its footer,      *)
(* whose sums take them in, and inside the table; every copy has the       *)
(* formulas, merges and validations of its source and reads its own rows;  *)
(* and everything else on the sheet is still there.                        *)
PlanIsWhatHappens ==
    [][ Applied =>
          CASE last'.kind = "append_region" -> AppendedAsPlanned(build_append_region_plan_from_workbooks(book, last'))
            [] last'.kind = "clone_template_row" -> ClonedAsPlanned(build_clone_template_row_plan_from_workbook(book, last'), last'.patch)
            [] last'.kind = "clone_row_band" -> ClonedAsPlanned(build_clone_row_band_plan_from_workbook(book, last'), last'.patch)
            [] OTHER -> TRUE ]_vars
=============================================================================
