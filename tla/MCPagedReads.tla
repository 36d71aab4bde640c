---------------------------- MODULE MCPagedReads ----------------------------
(* Two sheets of at most three and two rows, requests of every read. *)
EXTENDS PagedReads, TLC

A == [w |-> 1, hit |-> "hit", g |-> 1]
B == [w |-> 2, hit |-> "bare", g |-> 2]
C == [w |-> 0, hit |-> "no", g |-> 0]
D == [w |-> 1, hit |-> "hit", g |-> 3]

First == {<<A, B, A>>, <<A, A, D>>, <<B, C, A>>, <<C, C, B>>, <<D, B, A>>, <<A, D, A, B>>, << >>, <<C>>}
Second == {<< >>, <<A>>, <<B, A, A>>}
Chain == [n \in 1..6 |-> CASE n = 1 -> {2, 3} [] n = 2 -> {4, 5, 6} [] n = 3 -> {5} [] n = 4 -> {1} [] OTHER -> {}]
Fan == [n \in 1..6 |-> CASE n = 1 -> {2} [] n = 2 -> {3, 4, 5} [] OTHER -> {}]
Doc(a, b, p) == [sheets |-> <<a, b>>, prec |-> p]
Documents == {Doc(a, b, Chain) : a \in First, b \in Second} \cup {Doc(a, <<A>>, Fan) : a \in First}

\* A row is appended, or the first one deleted
EditsOf ==
    [d \in Documents |->
        {[d EXCEPT !.sheets[1] = s] : s \in {t \in First : t = Append(d.sheets[1], B) \/ t = Append(d.sheets[1], A)
                                                        \/ (d.sheets[1] # << >> /\ t = Tail(d.sheets[1]))}}
        \cup {[d EXCEPT !.sheets[1] = <<A, A, D>>]}]

R(op, limit, cells, bytes) ==
    [op |-> op, limit |-> limit, maxCells |-> cells, maxBytes |-> bytes, first |-> 1, last |-> 4, count |-> 5,
     ranges |-> <<<<1, 3>>, <<2, 2>>, <<3, 4>>>>, filter |-> FALSE, mode |-> "first", label |-> FALSE,
     groups |-> FALSE, sort |-> "address", depth |-> 3, include_empty |-> FALSE, scope |-> "sheet", scan |-> 9]

Wide == {R(op, n, 99, 99) : op \in {"list_workbooks", "list_sheets", "operation_history_page", "get_changeset",
                                    "session_sheet_page", "session_read_table", "session_find_value",
                                    "export_grid", "find_value", "find_formula", "search_formulas", "formula_map",
                                    "sheet_formula_map", "formula_trace", "formula_trace_layers",
                                    "vba_project_summary", "vba_module_source"}, n \in {1, 2}}
Budgeted == {R(op, n, c, b) : op \in {"sheet_page", "range_values", "read_cells_range", "read_cells_rows",
                                      "read_table", "scan_volatiles", "formula_map"}, n \in {1, 3}, c \in {2, 9}, b \in {1, 2, 3}}
Special ==
    {[R("read_cells_range", 2, 9, 9) EXCEPT !.ranges = <<<<2, 4>>>>],
     [R("find_value", 1, 99, 99) EXCEPT !.label = TRUE], [R("find_value", 2, 99, 99) EXCEPT !.label = TRUE],
     [R("search_formulas", 1, 99, 99) EXCEPT !.groups = TRUE], [R("formula_map", 1, 99, 99) EXCEPT !.sort = "complexity"],
     R("inspect_cells", 4, 99, 99), [R("inspect_cells", 3, 99, 99) EXCEPT !.ranges = << >>], [R("formula_trace", 2, 99, 99) EXCEPT !.depth = 1],
     R("list_sheets", 0, 99, 99), R("sheet_page", 0, 99, 99), R("session_sheet_page", 0, 99, 99), R("range_values", 0, 99, 99),
     R("vba_project_summary", 0, 99, 99), R("vba_module_source", 9, 99, 99), R("sheet_overview", 1, 99, 99),
     R("sheet_overview", 0, 99, 99), R("layout_page", 1, 99, 99), [R("layout_page", 1, 99, 99) EXCEPT !.last = 2]}
    \cup {[R("read_table", 2, 99, 99) EXCEPT !.mode = m] : m \in {"last", "distributed"}}
    \cup {[R("read_table", 1, 99, 99) EXCEPT !.filter = TRUE]}
    \cup {[R("profile_table", n, 99, 99) EXCEPT !.mode = "distributed"] : n \in 1..3}
Styles ==
    {[R("analyze_styles", n, 99, 99) EXCEPT !.scope = s, !.scan = k] :
        n \in {1, 9}, s \in {"sheet", "workbook"}, k \in {1, 9}}
Inspections ==
    {[R(op, n, c, b) EXCEPT !.ranges = <<<<2, 3>>, <<3, 4>>>>] :
        op \in {"inspect_cells", "inspect_details"}, n \in {1, 3}, c \in {2, 9}, b \in {1, 2, 9}}
AllRequests == Wide \cup Budgeted \cup Special \cup Styles \cup Inspections
=============================================================================
