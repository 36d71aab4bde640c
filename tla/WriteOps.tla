------------------------------ MODULE WriteOps ------------------------------
(***************************************************************************)
(* The operations of a canonical write on a workbook document, as the      *)
(* function each one computes (canonical_write.rs, tools/fork.rs,          *)
(* tools/rules_batch.rs, tools/sheet_layout.rs, core/session.rs,           *)
(* styles.rs).  Row, column and sheet operations are in StructureEdit,     *)
(* appended and cloned rows in WritePlanner.                               *)
(*                                                                         *)
(* An operation works in place and may fail half way: its outcome is       *)
(* [ok, doc], where doc is the document as far as it was changed.          *)
(* Values and formulas are tokens; "" is an empty value or no formula.     *)
(***************************************************************************)
EXTENDS Integers, FiniteSets, Sequences, SequencesExt

CONSTANTS MaxWriteOps, MaxWriteCells   \* bounds of one request

Ok(d) == [ok |-> TRUE, doc |-> d]
Err(d) == [ok |-> FALSE, doc |-> d]
Then(o, Op(_)) == IF o.ok THEN Op(o.doc) ELSE o

Sheets(d) == DOMAIN d.cells
RowMajor(p, q) == p[2] < q[2] \/ (p[2] = q[2] /\ p[1] < q[1])
At(anchor, offset) == <<anchor[1] + offset[1], anchor[2] + offset[2]>>
Unparsable == {"bad"}

(***************************************************************************)
(* Styles: each group (font, fill, ...) holds the leaves that are set.     *)
(***************************************************************************)
Groups == {"font", "fill", "borders", "alignment", "number_format"}
Unset == "unset"
NoLeaves == [l \in {} |-> Unset]
NoStyle == [g \in Groups |-> NoLeaves]
\* A fill is a pattern or a gradient, never both.
OtherFill(leaves) ==
    IF "pattern" \in DOMAIN leaves THEN {"gradient"}
    ELSE IF "gradient" \in DOMAIN leaves THEN {"pattern"} ELSE {}

\* A leaf set to null, or to the value that means the default, is unset.
PatchLeaves(old, new) ==
    LET kept == (DOMAIN old \ OtherFill(new)) \ DOMAIN new
        set  == {l \in DOMAIN new : new[l] # Unset}
    IN  [l \in kept \cup set |-> IF l \in set THEN new[l] ELSE old[l]]

merge_style_patch(st, patch) ==
    [g \in Groups |-> IF g \notin DOMAIN patch THEN st[g]
                      ELSE IF patch[g].null THEN NoLeaves
                      ELSE PatchLeaves(st[g], patch[g].leaves)]

apply_style_patch(st, patch, mode) ==
    CASE mode = "clear" -> NoStyle
      [] mode = "set"   -> merge_style_patch(NoStyle, patch)
      [] mode = "merge" -> merge_style_patch(st, patch)

NoCell == [v |-> "", f |-> "", st |-> NoStyle]
CellAt(d, s, p) == IF p \in DOMAIN d.cells[s] THEN d.cells[s][p] ELSE NoCell

(***************************************************************************)
(* Cell contents.  A matrix is the contents it has, by position; a null    *)
(* value empties its cell, a missing one leaves it alone.                  *)
(***************************************************************************)
Written(cell, c) == [cell EXCEPT !.v = IF c.f # "" THEN "" ELSE c.v, !.f = c.f]

write_matrix(d, s, m, overwrite) ==
    [d EXCEPT !.cells[s] = [p \in DOMAIN @ \cup DOMAIN m |->
        IF p \in DOMAIN m /\ (overwrite \/ CellAt(d, s, p).f = "")
        THEN Written(CellAt(d, s, p), m[p]) ELSE CellAt(d, s, p)]]

\* Only cells that exist are cleared; formulas are kept unless asked for.
clear_range(d, s, target, values, formulas) ==
    LET Cleared(cell) ==
            LET f == IF formulas THEN "" ELSE cell.f
                v == IF values /\ (cell.f = "" \/ formulas) THEN "" ELSE cell.v
            IN  [cell EXCEPT !.f = f, !.v = v]
    IN  [d EXCEPT !.cells[s] = [p \in DOMAIN @ |-> IF p \in target THEN Cleared(@[p]) ELSE @[p]]]

\* A formula fill replaces anything, a value fill keeps formulas unless told to overwrite.
fill_range(d, s, target, c, overwrite) ==
    write_matrix(d, s, [p \in target |-> c], overwrite \/ c.f # "")

\* Formula text is searched only on request; a changed formula loses its cached value.
replace_in_range(d, s, op) ==
    LET Replaced(cell) ==
            IF cell.f # ""
            THEN IF op.formulas /\ cell.f \in op.find THEN Written(cell, [v |-> "", f |-> op.replace]) ELSE cell
            ELSE IF cell.v # "" /\ cell.v \in op.find THEN [cell EXCEPT !.v = op.replace] ELSE cell
    IN  [d EXCEPT !.cells[s] = [p \in DOMAIN @ |-> IF p \in op.target THEN Replaced(@[p]) ELSE @[p]]]
ReplaceRefused(op) == op.contains /\ ~op.case

\* Row by row; with policy "fail" the first replacement that does not parse stops it.
replace_in_formulas(d, s, op, policy) ==
    LET hits  == {p \in DOMAIN d.cells[s] : (op.target = {} \/ p \in op.target) /\ d.cells[s][p].f \in op.find}
        stops == IF op.replace \in Unparsable /\ policy = "fail" THEN hits ELSE {}
        done  == IF op.replace \in Unparsable /\ policy # "off" THEN {}
                 ELSE {p \in hits : \A q \in stops : RowMajor(p, q)}
        next  == [d EXCEPT !.cells[s] = [p \in DOMAIN @ |->
                     IF p \in done THEN Written(@[p], [v |-> "", f |-> op.replace]) ELSE @[p]]]
    IN  IF stops = {} THEN Ok(next) ELSE Err(next)

\* Styling a cell creates it.
style(d, s, target, patch, mode) ==
    [d EXCEPT !.cells[s] = [p \in DOMAIN @ \cup target |->
        IF p \in target THEN [CellAt(d, s, p) EXCEPT !.st = apply_style_patch(@, patch, mode)] ELSE @[p]]]

\* The library measures a column; the result is clamped.
calculation_auto_width(d, s, c) ==
    Cardinality({p \in DOMAIN d.cells[s] : p[1] = c /\ d.cells[s][p].v # ""})
AutoWidth(size, w) == IF w < size.min THEN size.min ELSE IF w > size.max THEN size.max ELSE w
column_size(d, s, cols, size) ==
    [d EXCEPT !.width[s] = [c \in DOMAIN @ \cup cols |->
        IF c \notin cols THEN @[c]
        ELSE IF size.auto THEN AutoWidth(size, calculation_auto_width(d, s, c)) ELSE size.width]]

(***************************************************************************)
(* Sheet layout: what each operation sets, and when it is refused.         *)
(***************************************************************************)
Set1(k, v) == [x \in {k} |-> v]
apply_freeze_panes(op) ==
    LET corner == IF op.corner = <<>> THEN At(<<1, 1>>, <<op.cols, op.rows>>) ELSE op.corner
        pane   == IF op.rows > 0 /\ op.cols = 0 THEN "bottom_left" ELSE "bottom_right"
    IN  [k \in {"split", "pane", "selection", "topLeft"} |->
            CASE k = "split" -> <<op.cols, op.rows>> [] k = "pane" -> <<pane, corner>>
              [] k = "selection" -> <<pane, corner>> [] OTHER -> ""]
LayoutSets(op) ==
    CASE op.kind = "freeze_panes"     -> apply_freeze_panes(op)
      [] op.kind = "set_zoom"         -> [k \in {"zoom", "zoomNormal"} |-> op.percent]
      [] op.kind = "set_gridlines"    -> Set1("gridlines", op.show)
      [] op.kind = "set_page_margins" -> op.given
      [] op.kind = "set_page_setup"   -> op.given
      [] op.kind = "set_page_breaks"  -> [k \in {"rowBreaks", "colBreaks"} |-> op[k]]
LayoutRefused(op) ==
    CASE op.kind = "freeze_panes"     -> op.rows = 0 /\ op.cols = 0
      [] op.kind = "set_zoom"         -> op.percent \notin 10..400
      [] op.kind = "set_page_setup"   -> \E k \in DOMAIN op.given \ {"orientation"} : op.given[k] < 1
      [] OTHER -> FALSE
LayoutKinds == {"freeze_panes", "set_zoom", "set_gridlines", "set_page_margins", "set_page_setup", "set_page_breaks"}
sheet_layout(d, op) ==
    [d EXCEPT !.view[op.sheet] = [k \in DOMAIN @ \cup DOMAIN LayoutSets(op) |->
        IF k \in DOMAIN LayoutSets(op) THEN LayoutSets(op)[k] ELSE @[k]]]

\* The library's set_address adds an address to the ones the name has.
PrintArea == "Print_Area"
set_print_area_defined_name(d, s, range) ==
    LET own == SelectSeq(d.locals[s], LAMBDA n : n.name = PrintArea)
    IN  [d EXCEPT !.locals[s] =
            IF own = <<>> THEN Append(@, [name |-> PrintArea, ref |-> <<range>>])
            ELSE SelectSeq(@, LAMBDA n : n.name # PrintArea)
                 \o <<[own[1] EXCEPT !.ref = Append(@, range)]>>]

(***************************************************************************)
(* Validations and conditional formats, each for one range of cells.       *)
(***************************************************************************)
Off(list, range) == SelectSeq(list, LAMBDA r : r.range # range)
On(list, range) == SelectSeq(list, LAMBDA r : r.range = range)

set_data_validation(list, range, spec) == Append(Off(list, range), [range |-> range, rule |-> spec])
add_conditional_format(list, range, rule, look) ==
    IF \E r \in ToSet(On(list, range)) : r.rule = rule THEN list
    ELSE Append(list, [range |-> range, rule |-> rule, look |-> look])
set_conditional_format(list, range, rule, look) ==
    LET new == [range |-> range, rule |-> rule, look |-> look]
    IN  IF On(list, range) = <<new>> THEN list ELSE Append(Off(list, range), new)
clear_conditional_formats(list, range) == Off(list, range)

\* An unparsable rule formula fails the operation or, with "warn", drops it.
RulesKinds == {"set_data_validation", "add_conditional_format", "set_conditional_format", "clear_conditional_formats"}
RuleDropped(op, policy) == op.kind # "clear_conditional_formats" /\ policy # "off" /\ op.rule \in Unparsable
rules(d, op) ==
    CASE op.kind = "set_data_validation"       -> [d EXCEPT !.dvs[op.sheet] = set_data_validation(@, op.range, op.rule)]
      [] op.kind = "add_conditional_format"    -> [d EXCEPT !.cfs[op.sheet] = add_conditional_format(@, op.range, op.rule, op.look)]
      [] op.kind = "set_conditional_format"    -> [d EXCEPT !.cfs[op.sheet] = set_conditional_format(@, op.range, op.rule, op.look)]
      [] op.kind = "clear_conditional_formats" -> [d EXCEPT !.cfs[op.sheet] = clear_conditional_formats(@, op.range)]

(***************************************************************************)
(* Defined names: a list for the workbook, and one for each sheet.         *)
(***************************************************************************)
Named(list, name) == SelectSeq(list, LAMBDA n : n.name = name)
Unnamed(list, name) == SelectSeq(list, LAMBDA n : n.name # name)
\* The first sheet, in the workbook's order, whose list has the name.
SheetWith(d, name, only) ==
    SelectSeq(d.order, LAMBDA s : (only = "" \/ s = only) /\ Named(d.locals[s], name) # <<>>)

\* A definition is added to the list, whether or not the name is there already.
define_name(d, op) ==
    LET entry == [name |-> op.name, ref |-> <<op.ref>>]
    IN  IF op.scope # "sheet" THEN Ok([d EXCEPT !.names = Append(@, entry)])
        ELSE IF op.sheet \notin Sheets(d) THEN Err(d)
        ELSE Ok([d EXCEPT !.locals[op.sheet] = Append(@, entry)])

\* Without a new reference nothing changes; with one the entries of the name become one.
update_name(d, op) ==
    LET entry == [name |-> op.name, ref |-> <<op.ref>>]
        where == SheetWith(d, op.name, op.sheet)
        Redefined(list) == IF op.ref = "" THEN list ELSE Append(Unnamed(list, op.name), entry)
    IN  IF op.scope # "sheet" /\ Named(d.names, op.name) # <<>> THEN Ok([d EXCEPT !.names = Redefined(@)])
        ELSE IF op.scope # "workbook" /\ where # <<>> THEN Ok([d EXCEPT !.locals[where[1]] = Redefined(@)])
        ELSE Err(d)

delete_name(d, op) ==
    LET where == SheetWith(d, op.name, op.sheet)
    IN  IF op.scope # "sheet" /\ Named(d.names, op.name) # <<>> THEN Ok([d EXCEPT !.names = Unnamed(@, op.name)])
        ELSE IF op.scope # "workbook" /\ where # <<>> THEN Ok([d EXCEPT !.locals[where[1]] = Unnamed(@, op.name)])
        ELSE Err(d)

(***************************************************************************)
(* Imports.  A grid is cells by offset, each with a content and a style,   *)
(* merges relative to its own anchor, and column widths.                   *)
(***************************************************************************)
ClearStyles == [g \in Groups |-> [null |-> TRUE, leaves |-> NoLeaves]]
Footprint(anchor, offsets) ==
    LET far == {At(anchor, o) : o \in offsets} \cup {anchor}
    IN  {<<c, r>> \in (1..8) \X (1..8) :
            /\ c >= anchor[1] /\ r >= anchor[2]
            /\ (\E p \in far : c <= p[1]) /\ (\E p \in far : r <= p[2])}

\* Everything under the footprint goes: merges, values, formulas and styles.
ClearTarget(d, s, area) ==
    style(clear_range([d EXCEPT !.merges[s] = {m \in @ : m \cap area = {}}], s, area, TRUE, TRUE),
          s, area, ClearStyles, "merge")

apply_grid_to_workbook(d, op) ==
    LET s == op.sheet
        area    == Footprint(op.anchor, DOMAIN op.grid.cells)
        cleared == IF op.clear THEN ClearTarget(d, s, area) ELSE d
        misplaced == \E m \in op.grid.merges : \E p \in m : p[1] < op.grid.anchor[1] \/ p[2] < op.grid.anchor[2]
        moved(m) == {At(op.anchor, <<p[1] - op.grid.anchor[1], p[2] - op.grid.anchor[2]>>) : p \in m}
        merged  == [cleared EXCEPT !.merges[s] = @ \cup {moved(m) : m \in op.grid.merges}]
        sized   == [merged EXCEPT !.width[s] = [c \in DOMAIN @ \cup DOMAIN op.grid.widths |->
                       IF c \in DOMAIN op.grid.widths THEN op.grid.widths[c] ELSE @[c]]]
        put     == {o \in DOMAIN op.grid.cells : op.grid.cells[o].has}
        matrix  == [p \in {At(op.anchor, o) : o \in put} |->
                       op.grid.cells[<<p[1] - op.anchor[1], p[2] - op.anchor[2]>>].content]
        Styled(doc) == [doc EXCEPT !.cells[s] = [p \in DOMAIN @ \cup {At(op.anchor, o) : o \in DOMAIN op.grid.cells} |->
            LET o == <<p[1] - op.anchor[1], p[2] - op.anchor[2]>>
            IN  IF o \in DOMAIN op.grid.cells /\ DOMAIN op.grid.cells[o].patch # {}
                THEN [CellAt(doc, s, p) EXCEPT !.st = apply_style_patch(@, op.grid.cells[o].patch, "merge")]
                ELSE CellAt(doc, s, p)]]
    IN  IF misplaced THEN Err(cleared) ELSE Ok(Styled(write_matrix(sized, s, matrix, TRUE)))

\* The header line is dropped; an empty field writes nothing.
import_csv(d, op) ==
    LET records == IF op.header /\ op.rows # <<>> THEN Tail(op.rows) ELSE op.rows
        at      == {<<c, r>> \in (0..8) \X (0..8) : r < Len(records) /\ c < Len(records[r + 1])}
        filled  == {o \in at : records[o[2] + 1][o[1] + 1] # ""}
        matrix  == [p \in {At(op.anchor, o) : o \in filled} |->
                       [v |-> records[p[2] - op.anchor[2] + 1][p[1] - op.anchor[1] + 1], f |-> ""]]
        cleared == IF op.clear /\ at # {} THEN clear_range(d, op.sheet, Footprint(op.anchor, at), TRUE, TRUE) ELSE d
    IN  Ok(write_matrix(cleared, op.sheet, matrix, TRUE))

(***************************************************************************)
(* One operation of a request.                                             *)
(***************************************************************************)
NameKinds == {"define_name", "update_name", "delete_name"}

apply_write_op_to_workbook(d, op, policy) ==
    CASE op.kind = "define_name" -> define_name(d, op)
      [] op.kind = "update_name" -> update_name(d, op)
      [] op.kind = "delete_name" -> delete_name(d, op)
      [] op.kind \in RulesKinds /\ RuleDropped(op, policy) -> IF policy = "fail" THEN Err(d) ELSE Ok(d)
      [] op.kind \in LayoutKinds /\ LayoutRefused(op) -> Err(d)
      [] op.kind \notin NameKinds /\ op.sheet \notin Sheets(d) -> Err(d)
      [] op.kind \in {"set_cells", "write_matrix"} -> Ok(write_matrix(d, op.sheet, op.matrix, op.overwrite))
      [] op.kind = "clear_range"      -> Ok(clear_range(d, op.sheet, op.target, op.values, op.formulas))
      [] op.kind = "fill_range"       -> Ok(fill_range(d, op.sheet, op.target, op.content, op.overwrite))
      [] op.kind = "replace_in_range" -> IF ReplaceRefused(op) THEN Err(d) ELSE Ok(replace_in_range(d, op.sheet, op))
      [] op.kind = "replace_in_formulas" -> replace_in_formulas(d, op.sheet, op, policy)
      [] op.kind = "style"            -> Ok(style(d, op.sheet, op.target, op.patch, op.mode))
      [] op.kind = "column_size"      -> Ok(column_size(d, op.sheet, op.cols, op.size))
      [] op.kind = "set_print_area"   -> Ok(set_print_area_defined_name(d, op.sheet, op.range))
      [] op.kind \in LayoutKinds      -> Ok(sheet_layout(d, op))
      [] op.kind \in RulesKinds       -> Ok(rules(d, op))
      [] op.kind = "import_grid"      -> apply_grid_to_workbook(d, op)
      [] op.kind = "import_csv"       -> import_csv(d, op)

(***************************************************************************)
(* What is refused before anything is read.                                *)
(***************************************************************************)
CellCount(op) ==
    CASE op.kind \in {"set_cells", "write_matrix"} -> Cardinality(DOMAIN op.matrix)
      [] op.kind = "import_grid" -> Cardinality(DOMAIN op.grid.cells)
      [] op.kind = "import_csv"  -> Len(FlattenSeq(op.rows))
      [] OTHER -> 0
Width(w) == w \in 0..255
validate_layout(op) ==
    CASE op.kind = "set_zoom"         -> op.percent \in 10..400
      [] op.kind = "set_page_margins" -> \A k \in DOMAIN op.given : op.given[k] >= 0
      [] op.kind = "set_page_setup"   -> \A k \in DOMAIN op.given \ {"orientation"} : op.given[k] >= 1
      [] op.kind = "set_page_breaks"  -> 0 \notin op.rowBreaks \cup op.colBreaks
      [] OTHER -> TRUE
validate_op(op) ==
    CASE op.kind \in {"set_cells", "write_matrix"} ->
           DOMAIN op.matrix # {} /\ \A p \in DOMAIN op.matrix : op.matrix[p].f \notin Unparsable
      [] op.kind = "fill_range"       -> op.target # {} /\ op.content.f \notin Unparsable
      [] op.kind \in {"clear_range", "style"} -> op.target # {}
      [] op.kind = "replace_in_range" -> op.target # {} /\ op.find # {}
      [] op.kind = "replace_in_formulas" -> op.find # {}
      [] op.kind = "column_size" ->
           IF op.size.auto THEN Width(op.size.min) /\ Width(op.size.max) /\ op.size.min <= op.size.max ELSE Width(op.size.width)
      [] op.kind \in LayoutKinds      -> validate_layout(op)
      [] op.kind = "import_grid"      -> \A c \in DOMAIN op.grid.widths : Width(op.grid.widths[c])
      [] op.kind \in NameKinds        -> op.scope = "sheet" => op.sheet # ""
      [] OTHER -> TRUE
validate_request(request) ==
    LET count[i \in 0..Len(request.ops)] == IF i = 0 THEN 0 ELSE count[i - 1] + CellCount(request.ops[i])
    IN  /\ Len(request.ops) \in 1..MaxWriteOps
        /\ request.mode = "stage" => request.atomic
        /\ \A i \in 1..Len(request.ops) : validate_op(request.ops[i])
        /\ count[Len(request.ops)] <= MaxWriteCells
=============================================================================
