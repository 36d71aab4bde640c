------------------------------ MODULE MCWrites ------------------------------
(***************************************************************************)
(* The ways a workbook is written, each with a workload of its own: row,   *)
(* column and sheet edits in batches (StructureEdit), planned row          *)
(* operations (WritePlanner), and write requests of the canonical surface  *)
(* (WriteTransaction, with WriteOps and WorkbookDiff).  A behaviour does   *)
(* one of them.                                                            *)
(***************************************************************************)
EXTENDS WritePlanner, TLC

VARIABLES wDoc, wRev, wBase, wLast, wAnswer, wWrites

wVars == <<wDoc, wRev, wBase, wLast, wAnswer, wWrites>>

(***************************************************************************)
(* A data sheet S with a subtotal and a formula that reads its own row,    *)
(* and a sheet T whose formula refers to S.                                *)
(***************************************************************************)
Seg(c, r) == [col |-> c, row |-> r, colAbs |-> FALSE, rowAbs |-> FALSE]
AbsSeg(c, r) == [col |-> c, row |-> r, colAbs |-> TRUE, rowAbs |-> TRUE]
Val(v) == [v |-> v, f |-> NoFormula]
Formula(k, s, piece) == [v |-> Blank, f |-> [kind |-> k, sheet |-> s, area |-> <<piece>>]]
Bad == [v |-> Blank, f |-> [kind |-> "bad", sheet |-> "", area |-> RefError]]

SCells == (<<1, 1>> :> Val("a")) @@ (<<1, 2>> :> Val("b")) @@ (<<1, 3>> :> Val("c"))
          @@ (<<2, 2>> :> Formula("ref", "", <<Seg(1, 2)>>))
          @@ (<<1, 4>> :> Formula("sum", "", <<Seg(1, 1), Seg(1, 3)>>))
Names(piece) == ("n" :> [formula |-> TRUE, f |-> [kind |-> "ref", sheet |-> "S", area |-> <<piece>>]])
                @@ ("m" :> [formula |-> FALSE, f |-> [kind |-> "ref", sheet |-> "S", area |-> <<<<Seg(1, MaxRow + 1)>>>>]])
Book(tcells, piece, dvs) ==
    [order |-> <<"S", "T">>, cells |-> ("S" :> SCells) @@ ("T" :> tcells),
     merges |-> ("S" :> {<<<<Seg(1, 1), Seg(2, 1)>>>>}) @@ ("T" :> {}),
     dvs |-> ("S" :> dvs) @@ ("T" :> {}), names |-> Names(piece)]

\* The first and the last row of the grid, and two neighbours.
RefRows == {1, 3, 4, MaxRow}
Pieces ==
    {<<Seg(1, r)>> : r \in RefRows} \cup {<<AbsSeg(2, 3)>>}
    \cup {<<Seg(1, i), Seg(c, j)>> : i \in RefRows, j \in RefRows, c \in {1}}
    \cup {<<Seg(1, 2), Seg(2, j)>> : j \in RefRows \ {1}}
    \cup {<<Seg(1, None), Seg(2, None)>>, <<Seg(None, 2), Seg(None, 4)>>}

Dvs(i, j) == {{<<<<Seg(1, i), Seg(1, j)>>>>, <<<<Seg(2, 2)>>>>}, {<<<<Seg(2, i), Seg(2, i)>>>>}}

EditBooks == {Book(<<1, 1>> :> Formula("ref", "S", piece), piece, Dvs(1, 2)) : piece \in Pieces}
             \cup {Book((<<1, 1>> :> Formula("ref", "S", <<Seg(1, 2)>>)) @@ (<<2, 1>> :> Bad), <<Seg(1, 2)>>, Dvs(2, 3))}

RowOps ==
    {[kind |-> "insert_rows", sheet |-> "S", at |-> a, count |-> n, expand |-> a # 2] : a \in 0..4, n \in 1..2}
    \cup {[kind |-> "delete_rows", sheet |-> "S", at |-> a, count |-> n] : a \in 1..4, n \in 1..2}
    \cup {[kind |-> "clone_row", sheet |-> "S", source |-> r, at |-> a, count |-> n, expand |-> TRUE] :
            r \in 2..3, a \in {1, 3, 4}, n \in 1..2}
ColOps ==
    {[kind |-> k, sheet |-> "S", at |-> a, count |-> 1] : k \in {"insert_cols", "delete_cols"}, a \in 1..2}

EditOps == RowOps \cup ColOps

SheetBooks == {Book(<<1, 1>> :> Formula("ref", "S", <<Seg(1, 2), Seg(1, 3)>>), <<Seg(1, 2)>>, {})}
\* One operation of each row and column kind, and all the others.
SheetOps ==
    {[kind |-> "rename_sheet", sheet |-> s, new |-> t] : s \in {"S", "T"}, t \in {"N", "T"}}
    \cup {[kind |-> "rename_sheet", sheet |-> "N", new |-> "S"]}
    \cup {[kind |-> "create_sheet", new |-> "N", position |-> i] : i \in {0, 7}}
    \cup {[kind |-> "delete_sheet", sheet |-> "N"]}
    \cup {[kind |-> k, sheet |-> ends[1], dest |-> ends[2], lo |-> <<1, 2>>, hi |-> <<2, 3>>, d |-> d, formulas |-> f] :
            k \in {"copy_range", "move_range"}, ends \in {<<"S", "S">>, <<"N", "T">>}, d \in {<<0, 1>>, <<0, 2>>}, f \in BOOLEAN}
    \cup {[kind |-> "copy_range", sheet |-> "S", dest |-> "T", lo |-> <<1, 2>>, hi |-> <<2, 3>>, d |-> <<-1, -1>>, formulas |-> TRUE]}
    \cup {[kind |-> "insert_rows", sheet |-> "S", at |-> 2, count |-> 1, expand |-> FALSE],
          [kind |-> "delete_cols", sheet |-> "S", at |-> 1, count |-> 1]}
    \cup {[kind |-> k, sheet |-> "S", area |-> <<<<Seg(1, 1), Seg(1, 2)>>>>] : k \in {"merge_cells", "unmerge_cells"}}
    \cup {[kind |-> "formula_pattern", sheet |-> "T", lo |-> <<2, 2>>, hi |-> h, direction |-> "down", mode |-> m,
           f |-> [kind |-> "ref", sheet |-> "", area |-> <<<<Seg(1, 2)>>>>]] :
            h \in {<<2, 3>>, <<3, 3>>}, m \in {"excel", "abs_rows"}}

\* A region with a header and a footer, and a table; merges and validations
\* inside a row, over two rows, and over the whole region.
Total == Formula("sum", "", <<Seg(2, 2), Seg(2, 3)>>)
PlanCells(label, sum) ==
    (<<1, 1>> :> Val("head")) @@ (<<2, 1>> :> Val("head"))
    @@ (<<1, 2>> :> Val("1")) @@ (<<2, 2>> :> Formula("ref", "", <<Seg(1, 2)>>))
    @@ (<<1, 3>> :> Val("x")) @@ (<<2, 3>> :> Formula("ref", "", <<Seg(1, 2), Seg(1, 3)>>))
    @@ (<<1, 4>> :> Val(label)) @@ (<<2, 4>> :> sum)
PlanBook(label, sum, end, merges, dvs) ==
    [order |-> <<"S", "T">>, cells |-> ("S" :> PlanCells(label, sum)) @@ ("T" :> (<<1, 1>> :> Formula("ref", "S", <<Seg(1, 2), Seg(1, 3)>>))),
     merges |-> ("S" :> merges) @@ ("T" :> {}), dvs |-> ("S" :> dvs) @@ ("T" :> {}), names |-> Names(<<Seg(1, 2)>>),
     tables |-> [t \in {"tab", "tab2"} |-> [sheet |-> IF t = "tab" THEN "S" ELSE "T", lo |-> <<1, 1>>, hi |-> <<2, end>>]]]
RowSpan(c, z, i, j) == <<<<Seg(c, i), Seg(z, j)>>>>
PlanBooks ==
    {PlanBook(label, sum, end, merges, {{RowSpan(1, 1, 2, 2), RowSpan(1, 1, 2, 3)}}) :
        label \in {"total", "x"}, sum \in {Total, Val("9"), Formula("sum", "", <<Seg(2, 3), Seg(2, 2)>>)}, end \in 3..4,
        merges \in {{RowSpan(1, 2, 2, 2)}, {RowSpan(3, 3, 2, 3), RowSpan(1, 2, 3, 3)}}}

Asked(t, within) == <<[exact |-> t, within |-> within]>>
PlanRows == {<<>>, <<<<>>>>, <<<<Val("2"), NullCell>>, <<NullCell, Val("y")>>>>, <<<<Val("2"), Val("2"), Val("2")>>>>}
Anchors == {(k :> r) : k \in {"before", "after", "insert_at"}, r \in {0, 2, 3, 4}} \cup {("before" :> 2) @@ ("after" :> 2)}
PlanOps ==
    {[kind |-> "append_region", sheet |-> s, region |-> IF t = <<>> THEN <<[lo |-> <<1, 1>>, hi |-> <<2, end>>]>> ELSE <<>>,
      table |-> t, footer |-> f, rows |-> rows] :
        s \in {"S"}, t \in {<<>>, Asked("tab", {"tab", "tab2"}), Asked("ab2", {"tab2"})}, end \in 3..4,
        f \in {"auto", "before_footer", "append_at_end"}, rows \in PlanRows}
    \cup {[kind |-> "append_region", sheet |-> "S", region |-> <<>>, table |-> <<>>, footer |-> "auto", rows |-> <<<<Val("2")>>>>]}
    \cup {[kind |-> "clone_template_row", sheet |-> s, lo |-> r, hi |-> r, anchor |-> a, repeat |-> n, expand |-> TRUE, patch |-> p, strict |-> t] :
            s \in {"S"}, r \in 2..3, a \in Anchors, n \in 0..2, p \in {"likely_inputs", "all_non_formula"}, t \in BOOLEAN}
    \cup {[kind |-> "clone_template_row", sheet |-> "N", lo |-> 2, hi |-> 2, anchor |-> "before" :> 2, repeat |-> 1, expand |-> TRUE,
           patch |-> "likely_inputs", strict |-> TRUE]}
    \cup {[kind |-> "clone_row_band", sheet |-> "S", lo |-> 2, hi |-> h, anchor |-> a, repeat |-> n, expand |-> e, patch |-> "all_non_formula", strict |-> FALSE] :
            h \in 1..3, a \in Anchors, n \in 0..2, e \in BOOLEAN}

WorkNames == {"edits", "sheets", "plans"}
WorkBooks == [w \in WorkNames |-> CASE w = "edits" -> EditBooks [] w = "sheets" -> SheetBooks [] OTHER -> PlanBooks]
WorkOps == [w \in WorkNames |-> CASE w = "edits" -> EditOps [] w = "sheets" -> SheetOps [] OTHER -> PlanOps]
WorkMax == [w \in WorkNames |-> CASE w = "sheets" -> 3 [] w = "edits" -> 2 [] OTHER -> 1]

(***************************************************************************)
(* Documents and requests of the canonical write: two sheets, a formula    *)
(* that reads a cell, a text shared by the sheets, names and a table.      *)
(***************************************************************************)
Pos(c, r) == <<c, r>>
Txt(v) == [v |-> v, f |-> ""]
Fml(f) == [v |-> "", f |-> f]
NoLeaves == [l \in {} |-> ""]
Plain == [g \in {"font", "fill", "borders", "alignment", "number_format"} |-> NoLeaves]
Cell(v, f) == [v |-> v, f |-> f, st |-> Plain]
Doc(order, s, t, names, locals, tables) ==
    [order |-> order,
     cells |-> [x \in ToSet(order) |-> IF x = "S" THEN s ELSE t],
     names |-> names, locals |-> [x \in ToSet(order) |-> IF x = "S" THEN locals ELSE << >>],
     width |-> [x \in ToSet(order) |-> [c \in {} |-> 0]], view |-> [x \in ToSet(order) |-> [k \in {} |-> 0]],
     dvs |-> [x \in ToSet(order) |-> << >>], cfs |-> [x \in ToSet(order) |-> << >>],
     merges |-> [x \in ToSet(order) |-> IF x = "S" THEN {{Pos(1, 1), Pos(2, 1)}} ELSE {}], tables |-> tables]

SData(text) == (Pos(1, 1) :> Cell("1", "")) @@ (Pos(2, 1) :> Cell("1", "A1")) @@ (Pos(1, 2) :> Cell(text, ""))
TData == (Pos(1, 1) :> Cell("", "1/A1")) @@ (Pos(2, 1) :> Cell("x", ""))
Name(n, r) == [name |-> n, ref |-> <<r>>]
OneTable == ("tab" :> [sheet |-> "S", range |-> {Pos(1, 1), Pos(1, 2)}])
NoTable == [t \in {} |-> [sheet |-> "S", range |-> {}]]
\* Equal parts with other texts; a name defined twice; a hidden name, an error as a
\* constant, a sheet less.
WorkDocs ==
    {Doc(<<"S", "T">>, SData("x"), TData, <<Name("n", "S!A1")>>, << >>, OneTable),
     Doc(<<"S", "T">>, SData("y"), TData, <<Name("n", "S!A1"), Name("n", "5")>>, <<Name("Print_Area", "S!A1")>>, OneTable),
     Doc(<<"S">>, SData("1.0") @@ (Pos(3, 2) :> Cell("#DIV/0!", "")), TData, <<Name("_hidden", "S!A1")>>, <<Name("n", "S!A2")>>, NoTable)}

S1 == {Pos(1, 1), Pos(2, 1)}
Bold(v) == [null |-> FALSE, leaves |-> "bold" :> v]
CellOps ==
    {[kind |-> "set_cells", sheet |-> s, matrix |-> m, overwrite |-> TRUE] :
        s \in {"S", "N"}, m \in {(Pos(1, 1) :> Txt("1.0")), (Pos(1, 1) :> Txt("")), (Pos(3, 1) :> Txt("")),
                                 (Pos(1, 2) :> Fml("A1")) @@ (Pos(3, 3) :> Txt("y"))}}
    \cup {[kind |-> "write_matrix", sheet |-> "S", matrix |-> [p \in S1 |-> Txt("z")], overwrite |-> o] : o \in BOOLEAN}
    \cup {[kind |-> "write_matrix", sheet |-> "S", matrix |-> [p \in {} |-> Txt("z")], overwrite |-> TRUE],
          [kind |-> "write_matrix", sheet |-> "S", matrix |-> (Pos(2, 1) :> Fml("bad")) @@ (Pos(1, 2) :> Txt("z")), overwrite |-> TRUE]}
RangeOps ==
    {[kind |-> "clear_range", sheet |-> "S", target |-> S1, values |-> v, formulas |-> f] : v \in BOOLEAN, f \in BOOLEAN}
    \cup {[kind |-> "fill_range", sheet |-> "S", target |-> S1, content |-> c, overwrite |-> FALSE] : c \in {Txt("y"), Fml("bad")}}
    \cup {[kind |-> "replace_in_range", sheet |-> "S", target |-> S1 \cup {Pos(1, 2)}, find |-> {"1", "x", "A1"}, replace |-> "y",
           contains |-> c, case |-> FALSE, formulas |-> f] : c \in BOOLEAN, f \in BOOLEAN}
    \cup {[kind |-> "replace_in_formulas", sheet |-> "S", target |-> {}, find |-> {"A1"}, replace |-> r] : r \in {"1/A1", "bad"}}
LookOps ==
    {[kind |-> "style", sheet |-> "S", target |-> {Pos(1, 1), Pos(3, 3)}, patch |-> "font" :> Bold(v), mode |-> m] :
        v \in {"yes", "unset"}, m \in {"merge", "set", "clear"}}
    \cup {[kind |-> "style", sheet |-> "S", target |-> {Pos(1, 1)}, mode |-> "merge",
           patch |-> "fill" :> [null |-> FALSE, leaves |-> l :> "grey"]] : l \in {"pattern", "gradient"}}
    \cup {[kind |-> "column_size", sheet |-> "S", cols |-> {1, 2}, size |-> z] :
            z \in {[auto |-> FALSE, width |-> 9], [auto |-> TRUE, min |-> 1, max |-> 1]}}
    \cup {[kind |-> "freeze_panes", sheet |-> "S", rows |-> r, cols |-> c, corner |-> << >>] : r \in 0..1, c \in 0..1}
    \cup {[kind |-> "set_zoom", sheet |-> "S", percent |-> z] : z \in {9, 100}}
    \cup {[kind |-> "set_gridlines", sheet |-> "S", show |-> FALSE],
          [kind |-> "set_page_margins", sheet |-> "S", given |-> "left" :> 1],
          [kind |-> "set_page_setup", sheet |-> "S", given |-> ("fit" :> 0)],
          [kind |-> "set_page_breaks", sheet |-> "S", rowBreaks |-> {2}, colBreaks |-> {}],
          [kind |-> "set_print_area", sheet |-> "S", range |-> "S!A2"]}
RuleOps ==
    {[kind |-> k, sheet |-> "S", range |-> S1, rule |-> r, look |-> "red"] :
        k \in {"set_data_validation", "add_conditional_format", "set_conditional_format", "clear_conditional_formats"},
        r \in {"list", "bad"}}
NameOps ==
    {[kind |-> k, name |-> "n", ref |-> "S!A2", scope |-> c, sheet |-> IF c = "sheet" THEN "S" ELSE ""] :
        k \in {"define_name", "update_name", "delete_name"}, c \in {"workbook", "sheet", "any"}}
ImportOps ==
    {[kind |-> "import_grid", sheet |-> "S", anchor |-> Pos(1, 1), clear |-> c,
      grid |-> [anchor |-> Pos(2, 2), merges |-> m, widths |-> 1 :> 5,
                cells |-> (<<0, 0>> :> [has |-> TRUE, content |-> Txt("y"), patch |-> "font" :> Bold("yes")])
                          @@ (<<1, 1>> :> [has |-> FALSE, content |-> Txt(""), patch |-> [g \in {} |-> Bold("yes")]])]] :
        c \in BOOLEAN, m \in {{{Pos(2, 2), Pos(3, 2)}}, {{Pos(1, 1)}}}}
    \cup {[kind |-> "import_csv", sheet |-> "S", anchor |-> Pos(1, 2), rows |-> <<<<"h">>, <<"y", "">>, <<"", "z">>>>,
           header |-> h, clear |-> c] : h \in BOOLEAN, c \in BOOLEAN}
AllOps == CellOps \cup RangeOps \cup LookOps \cup RuleOps \cup NameOps \cup ImportOps

Req(ops, m, a, p) == [ops |-> ops, mode |-> m, atomic |-> a, policy |-> p]
Sample ==
    {op \in CellOps : op.sheet = "N" \/ DOMAIN op.matrix = S1}
    \cup {op \in RangeOps : op.kind = "replace_in_formulas" \/ (op.kind = "clear_range" /\ op.formulas /\ op.values)}
    \cup {op \in LookOps : op.kind \in {"set_zoom", "set_print_area"} \/ (op.kind = "style" /\ op.mode = "set")}
    \cup {op \in RuleOps : op.kind = "add_conditional_format"}
    \cup {op \in NameOps : op.scope = "any"} \cup {op \in ImportOps : op.clear}
\* Of each way an operation can depend on the one before it, or fail after it.
Following ==
    {op \in Sample : op.kind \in {"set_cells", "replace_in_formulas", "set_zoom", "add_conditional_format", "delete_name", "import_grid"}}
\* A formula that does not parse, with an operation of its group or of another,
\* which succeeds or fails.
BadOps == {op \in CellOps \cup RangeOps :
              \/ op.kind = "fill_range" /\ op.content.f = "bad"
              \/ op.kind = "write_matrix" /\ \E p \in DOMAIN op.matrix : op.matrix[p].f = "bad"}
Besides == {op \in AllOps : op.kind \in {"clear_range", "replace_in_range", "set_zoom"}} \cup BadOps
WorkRequests ==
    {Req(<<op>>, m, TRUE, p) : op \in AllOps, m \in {"apply"}, p \in {"warn", "fail", "off"}}
    \cup {Req(<<op>>, m, a, "warn") : op \in Sample, m \in {"preview", "stage"}, a \in BOOLEAN}
    \cup {Req(<<op, next>>, "apply", a, "fail") : op \in Sample, next \in Following, a \in BOOLEAN}
    \cup {Req(<<op, next>>, m, TRUE, "fail") : op \in Sample, next \in {o \in Sample : o.kind \in {"set_cells", "import_grid"}}, m \in {"preview", "stage"}}
    \cup {Req(<<op, next>>, "apply", FALSE, "off") : op \in CellOps, next \in CellOps}
    \cup {Req(ops, m, TRUE, p) : ops \in (BadOps \X Besides) \cup (Besides \X BadOps), m \in {"apply", "preview"}, p \in {"warn", "off"}}
    \cup {Req(<< >>, "apply", TRUE, "off")}
Few == {Req(<<op>>, "apply", TRUE, "warn") : op \in {o \in Sample : o.kind \in {"set_cells", "write_matrix", "style", "set_print_area", "import_grid"}}}

W == INSTANCE WriteTransaction WITH
        MaxWriteOps <- 2, MaxWriteCells <- 4, MaxTouched <- 3, MaxWrites <- 2,
        WriteDocs <- WorkDocs, Requests <- WorkRequests,
        doc <- wDoc, rev <- wRev, base <- wBase, last <- wLast, answer <- wAnswer, writes <- wWrites

\* No batch: the request workload.
NoBook == [order |-> <<"S">>]

WritesInit == work = "requests" /\ file = NoBook /\ book = NoBook /\ policy = "off" /\ status = "saved" /\ last = NoOp /\ done = 0
StructureInit == Init /\ wDoc = NoBook /\ wRev = 0 /\ wBase = NoBook /\ wLast = NoOp /\ wAnswer = NoOp /\ wWrites = 0

\* Any request, and a second one of a few.
Requesting ==
    /\ work = "requests" /\ UNCHANGED vars
    /\ IF wWrites = 0 THEN W!Next
       ELSE wLast.request \in Few /\ \E request \in Few : W!ExecuteWrite(request) \/ W!PrepareResident(request)
Structuring == work # "requests" /\ UNCHANGED wVars /\ (Next \/ PlannerNext)

MCInit == (WritesInit /\ W!Init) \/ StructureInit
MCNext == Requesting \/ Structuring

OnRequests(P) == work = "requests" => P

\* The path a request takes (general, touched cells of a resident session, staging,
\* batch tool, session) is not seen in what it does, as far as the canonical write
\* accepts it (prepare_common_transaction, mutate_batch).
PathsAgree == OnRequests(W!PathsAgree)

\* An answer explains the document: what it calls applied is all that happened, but for
\* the formulas that mutate_batch's diagnostics name and an error does not
\* (canonical_response_from_prepared, transform_batch), and a request that calls itself presentation
\* only leaves every value and name alone (calculation_effect_for_ops).
AnswerExplainsDocument == OnRequests(W!AnswerExplainsDocument /\ W!PresentationKeepsCalculation)

\* The change set of two workbooks is exactly what differs (calculate_changeset_archives).
DiffIsExact == OnRequests(W!DiffIsExact)

\* A comparison that says "proved" is one (compare_workbooks_with_coverage).
ProvedMeansSame == OnRequests(W!ProvedMeansSame)
=============================================================================
