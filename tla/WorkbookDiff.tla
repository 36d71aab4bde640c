---------------------------- MODULE WorkbookDiff ----------------------------
(***************************************************************************)
(* Comparing two workbooks: the changes between two saved files (diff/),   *)
(* their grouping for a reader (cli/commands/diff.rs) and the verdict on a *)
(* baseline and a current workbook (verification.rs).  Documents are those *)
(* of WriteOps, with their tables: [name -> [sheet, range]].               *)
(***************************************************************************)
EXTENDS WriteOps

Sorted(positions) == SetToSortSeq(positions, RowMajor)

(***************************************************************************)
(* A saved file: texts are numbers of the shared table, which lists them   *)
(* in the order they are met; a cell with neither value nor formula is an  *)
(* empty element, which no reader below sees.                              *)
(***************************************************************************)
Errors == {"#DIV/0!", "#NAME?"}    \* error values; a text that reads like one is another value
InTable(c) == c.f = "" /\ c.v \notin Errors
Stored(d, s) == {p \in DOMAIN d.cells[s] : d.cells[s][p].v # "" \/ d.cells[s][p].f # ""}
Texts(d, s) ==
    LET at == Sorted({p \in Stored(d, s) : InTable(d.cells[s][p])})
    IN  [i \in 1..Len(at) |-> d.cells[s][at[i]].v]
Distinct(seq) == SelectSeq([i \in 1..Len(seq) |-> IF \E j \in 1..(i - 1) : seq[j] = seq[i] THEN "" ELSE seq[i]],
                           LAMBDA t : t # "")
SharedStrings(d) == Distinct(FlattenSeq([i \in 1..Len(d.order) |-> Texts(d, d.order[i])]))
Part(d, s, sst) ==
    LET at == Sorted(Stored(d, s))
    IN  [i \in 1..Len(at) |->
            LET c == d.cells[s][at[i]]
            IN  [at |-> at[i], f |-> c.f, st |-> c.st,
                 idx |-> IF InTable(c) THEN CHOOSE k \in 1..Len(sst) : sst[k] = c.v ELSE 0,
                 v |-> IF InTable(c) THEN "" ELSE c.v]]
NameList(d) ==
    LET Scoped(list, scope) == [i \in 1..Len(list) |-> [name |-> list[i].name, scope |-> scope, ref |-> list[i].ref]]
    IN  Scoped(d.names, 0) \o FlattenSeq([i \in 1..Len(d.order) |-> Scoped(d.locals[d.order[i]], i)])
Saved(d) ==
    LET sst == SharedStrings(d)
    IN  [sst |-> sst, order |-> d.order, parts |-> [s \in Sheets(d) |-> Part(d, s, sst)],
         names |-> NameList(d), tables |-> d.tables]

(***************************************************************************)
(* Reading it back and comparing.                                          *)
(***************************************************************************)
parse_cell(raw, sst) ==
    [at |-> raw.at, v |-> IF raw.idx \in 1..Len(sst) THEN sst[raw.idx] ELSE raw.v, f |-> raw.f, st |-> raw.st]
CellIterator(file, s) ==
    IF s \notin DOMAIN file.parts THEN << >>
    ELSE [i \in 1..Len(file.parts[s]) |-> parse_cell(file.parts[s][i], file.sst)]

\* Two texts of one number are equal.
OneNumber == {"1", "1.0"}
values_equal(a, b) == a = b \/ {a, b} \subseteq OneNumber

Change(type, sub, c, old, new) ==
    [kind |-> "cell", type |-> type, sub |-> sub, at |-> c.at, old |-> old.v, oldf |-> old.f, new |-> new.v, newf |-> new.f]
Deleted(b) == Change("deleted", "", b, [b EXCEPT !.f = ""], [v |-> "", f |-> ""])
Added(f) == Change("added", "", f, [v |-> "", f |-> ""], f)
compare_cells(b, f) ==
    LET value == ~values_equal(b.v, f.v)
        sub   == IF b.f # f.f THEN "formula_edit"
                 ELSE IF ~value THEN "style_edit"
                 ELSE IF f.f # "" THEN "recalc_result" ELSE "value_edit"
    IN  IF b.f = f.f /\ ~value /\ b.st = f.st THEN << >> ELSE <<Change("modified", sub, f, b, f)>>

\* Both streams are in row order; the one that is behind moves on.
diff_streams(base, fork) ==
    LET merge[i \in 1..(Len(base) + 1), j \in 1..(Len(fork) + 1)] ==
            IF i > Len(base) /\ j > Len(fork) THEN << >>
            ELSE IF j > Len(fork) \/ (i <= Len(base) /\ RowMajor(base[i].at, fork[j].at))
            THEN <<Deleted(base[i])>> \o merge[i + 1, j]
            ELSE IF i > Len(base) \/ RowMajor(fork[j].at, base[i].at)
            THEN <<Added(fork[j])>> \o merge[i, j + 1]
            ELSE compare_cells(base[i], fork[j]) \o merge[i + 1, j + 1]
    IN  merge[1, 1]

\* One entry for each name and scope: the last.
parse_defined_names(file) ==
    LET keys == {<<n.name, n.scope>> : n \in ToSet(file.names)}
        last(k) == CHOOSE i \in 1..Len(file.names) :
                       /\ <<file.names[i].name, file.names[i].scope>> = k
                       /\ \A j \in (i + 1)..Len(file.names) : <<file.names[j].name, file.names[j].scope>> # k
    IN  [k \in keys |-> file.names[last(k)].ref]
HiddenNames == {"_hidden"}
Ref(map, k) == IF k \in DOMAIN map THEN map[k] ELSE << >>
\* How an entry of two maps changed: "" is not at all.
Fate(base, fork, k) ==
    CASE k \notin DOMAIN base -> "added" [] k \notin DOMAIN fork -> "deleted"
      [] base[k] # fork[k] -> "modified" [] OTHER -> ""

\* Scopes are positions of sheets; they are given the base's sheet names.
diff_names(base, fork) ==
    LET b == parse_defined_names(base)
        f == parse_defined_names(fork)
    IN  {[kind |-> "name", type |-> Fate(b, f, k), item |-> k[1], sheet |-> IF k[2] \in 1..Len(base.order) THEN base.order[k[2]] ELSE "",
          old |-> Ref(b, k), new |-> Ref(f, k)] :
            k \in {k \in DOMAIN b \cup DOMAIN f : k[1] \notin HiddenNames /\ Fate(b, f, k) # ""}}

\* A table that moved to another sheet with its range is no change.
diff_tables(base, fork) ==
    LET b == [t \in DOMAIN base.tables |-> base.tables[t].range]
        f == [t \in DOMAIN fork.tables |-> fork.tables[t].range]
    IN  {[kind |-> "table", type |-> Fate(b, f, t), item |-> t,
          sheet |-> (IF t \in DOMAIN base.tables THEN base.tables[t] ELSE fork.tables[t]).sheet,
          old |-> IF t \in DOMAIN b THEN b[t] ELSE {}, new |-> IF t \in DOMAIN f THEN f[t] ELSE {}] :
            t \in {t \in DOMAIN b \cup DOMAIN f : Fate(b, f, t) # ""}}

\* Mutant: the shared texts are not looked at.
SameText(base, fork, s) == s \in DOMAIN base.parts \cap DOMAIN fork.parts /\ base.parts[s] = fork.parts[s]
\* A sheet is passed over when neither its part nor the shared texts changed.
Untouched(base, fork, s) ==
    s \in DOMAIN base.parts \cap DOMAIN fork.parts /\ base.parts[s] = fork.parts[s] /\ base.sst = fork.sst

calculate_changeset(base, fork) ==
    [names |-> diff_names(base, fork), tables |-> diff_tables(base, fork),
     cells |-> [s \in DOMAIN base.parts \cup DOMAIN fork.parts |->
        IF Untouched(base, fork, s) THEN << >> ELSE diff_streams(CellIterator(base, s), CellIterator(fork, s))]]
ChangedCells(changes) == UNION {{<<s, c.at>> : c \in ToSet(changes.cells[s])} : s \in DOMAIN changes.cells}

(***************************************************************************)
(* The diff command: filters, groups of neighbours, a summary, pages.      *)
(***************************************************************************)
GroupType(c) == IF c.kind = "cell" /\ c.sub # "" THEN c.sub ELSE c.type
Adjacent(p, q) == (p[2] = q[2] /\ q[1] - p[1] \in {-1, 1}) \/ (p[1] = q[1] /\ q[2] - p[2] \in {-1, 1})
Box(positions) ==
    {<<c, r>> \in (1..8) \X (1..8) :
        /\ \E p, q \in positions : p[1] <= c /\ c <= q[1]
        /\ \E p, q \in positions : p[2] <= r /\ r <= q[2]}

\* range = {}: the whole sheet; a name has no range.
change_matches_filters(c, sheet, filter) ==
    /\ filter.sheets # {} => sheet \in filter.sheets
    /\ filter.range # {} =>
        CASE c.kind = "cell"  -> c.at \in filter.range
          [] c.kind = "table" -> (Box(c.old) \cup Box(c.new)) \cap filter.range # {}
          [] OTHER -> FALSE
    /\ ~(filter.direct /\ GroupType(c) = "recalc_result")
Filtered(changes, filter) ==
    [names  |-> {c \in changes.names : change_matches_filters(c, c.sheet, filter)},
     tables |-> {c \in changes.tables : change_matches_filters(c, c.sheet, filter)},
     cells  |-> [s \in DOMAIN changes.cells |->
                    SelectSeq(changes.cells[s], LAMBDA c : change_matches_filters(c, s, filter))]]

\* The changes of one sheet and type in row order, cut where the next is not a neighbour.
Runs(cells) ==
    LET run[i \in 0..Len(cells)] ==
            IF i = 0 THEN << >>
            ELSE IF i > 1 /\ Adjacent(cells[i - 1].at, cells[i].at)
            THEN [run[i - 1] EXCEPT ![Len(run[i - 1])] = Append(@, cells[i])]
            ELSE Append(run[i - 1], <<cells[i]>>)
    IN  run[Len(cells)]
finalize_group(s, run) ==
    [sheet |-> s, type |-> GroupType(run[1]), cells |-> {c.at : c \in ToSet(run)}, count |-> Len(run),
     range |-> Box({c.at : c \in ToSet(run)})]
build_groups(changes) ==
    UNION {LET types == {GroupType(c) : c \in ToSet(changes.cells[s])}
           IN  UNION {{finalize_group(s, r) : r \in ToSet(Runs(SelectSeq(changes.cells[s], LAMBDA c : GroupType(c) = t)))} :
                        t \in types} :
             s \in DOMAIN changes.cells}
    \cup {[sheet |-> c.sheet, type |-> c.type, cells |-> {}, count |-> 1, item |-> c.item] : c \in changes.names \cup changes.tables}

Total(changes) ==
    Cardinality(changes.names) + Cardinality(changes.tables)
        + MapThenSumSet(LAMBDA s : Len(changes.cells[s]), DOMAIN changes.cells)
build_sheet_summaries(changes, s) ==
    LET mine    == changes.cells[s]
        derived == Len(SelectSeq(mine, LAMBDA c : GroupType(c) = "recalc_result"))
    IN  [total |-> Len(mine), recalc |-> derived, direct |-> Len(mine) - derived,
         groups |-> Cardinality({g \in build_groups(changes) : g.sheet = s})]

\* What the command answers; the page of details it cuts out is the first one.
diff(original, modified, filter) ==
    LET kept == Filtered(calculate_changeset(original, modified), filter)
        summaries == [s \in DOMAIN kept.cells |-> build_sheet_summaries(kept, s)]
        derived == MapThenSumSet(LAMBDA s : summaries[s].recalc, DOMAIN summaries)
    IN  [changes |-> kept, total |-> Total(kept), recalc |-> derived, direct |-> Total(kept) - derived,
         groups |-> build_groups(kept), sheets |-> summaries]

(***************************************************************************)
(* Verification.  The engine gives every formula a value; a formula it     *)
(* does not support leaves the coverage incomplete.                        *)
(***************************************************************************)
Unsupported == {"LAMBDA"}
Engine(d, s, f) ==
    CASE f = "A1"   -> LET c == CellAt(d, s, <<1, 1>>) IN IF c.f = "" THEN c.v ELSE "#NAME?"
      [] f = "1/A1" -> IF CellAt(d, s, <<1, 1>>).v = "" THEN "#DIV/0!" ELSE "1"
      [] OTHER      -> "#NAME?"
evaluate_workbook_for_verification(d) ==
    [doc |-> [d EXCEPT !.cells = [s \in DOMAIN @ |-> [p \in DOMAIN @[s] |->
        LET c == @[s][p] IN IF c.f = "" \/ c.f \in Unsupported THEN c ELSE [c EXCEPT !.v = Engine(d, s, c.f)]]]],
     complete |-> \A s \in Sheets(d) : \A p \in DOMAIN d.cells[s] : d.cells[s][p].f \notin Unsupported]

validate(options) ==
    /\ ~(options.errors_only /\ options.targets_only)
    /\ options.errors_only => options.targets = {} /\ ~options.named
    /\ options.targets_only => options.targets # {} /\ ~options.named

read_target_cell(d, t) == LET c == CellAt(d, t[1], t[2]) IN [v |-> c.v, f |-> c.f]
classify_target_delta(before, after) ==
    CASE before = after -> "unchanged"
      [] after.v \in Errors /\ before.v \notin Errors -> "new_error"
      [] before.f # after.f -> "formula_shift"
      [] before.f = "" -> "direct_edit"
      [] OTHER -> "recalc_result"
collect_target_deltas(b, c, targets) ==
    [t \in targets |-> classify_target_delta(read_target_cell(b, t), read_target_cell(c, t))]

\* An error is a cell of that type, a formula's result or a constant.
collect_error_cells(d, sheets) ==
    LET at == UNION {{<<s, p>> : p \in {p \in DOMAIN d.cells[s] : d.cells[s][p].v \in Errors}} :
                        s \in sheets}
    IN  [a \in at |-> [v |-> d.cells[a[1]][a[2]].v, f |-> d.cells[a[1]][a[2]].f]]
\* Mutant: an error that went away is no difference.
NewErrorsOnly(b, c) == \E a \in DOMAIN c : a \notin DOMAIN b \/ b[a] # c[a]
compare_error_maps(b, c) == DOMAIN b # DOMAIN c \/ \E a \in DOMAIN c : b[a] # c[a]

Literals == {"5"}
\* Names of the workbook; those of a sheet that do not say the same again; tables.
named_items(d) ==
    LET scope(n) == IF n.scope = 0 THEN "" ELSE d.order[n.scope]
        Item(n) == [name |-> n.name, scope |-> scope(n), kind |-> IF n.ref[1] \in Literals THEN "formula" ELSE "range", ref |-> n.ref]
        Says(i, n) == i.name = n.name /\ i.ref = n.ref /\ i.scope \in {"", scope(n)}
        Add(items, n) == IF n.scope # 0 /\ \E i \in ToSet(items) : Says(i, n) THEN items ELSE Append(items, Item(n))
        tables == {[name |-> t, scope |-> d.tables[t].sheet, kind |-> "table", ref |-> d.tables[t].range] : t \in DOMAIN d.tables}
    IN  FoldLeft(Add, << >>, NameList(d)) \o SetToSeq(tables)
\* With a sheet, only what is scoped to it.
named_ranges(d, sheet) == SelectSeq(named_items(d), LAMBDA i : sheet # "" => i.scope = sheet)

\* Items are keyed by name, scope and kind; the last of a key counts.
NamedMap(items) ==
    LET key(i) == <<items[i].name, items[i].scope, items[i].kind>>
    IN  [k \in {key(i) : i \in 1..Len(items)} |->
            items[CHOOSE i \in 1..Len(items) : key(i) = k /\ \A j \in (i + 1)..Len(items) : key(j) # k].ref]
compare_named_ranges(b, c) == {k \in DOMAIN NamedMap(b) \cup DOMAIN NamedMap(c) : Fate(NamedMap(b), NamedMap(c), k) # ""}

\* The same revision is evaluated once.
evaluate_workbook_pair_for_verification(b, c) ==
    LET base == evaluate_workbook_for_verification(b.doc)
    IN  [base |-> base, current |-> IF b.rev = c.rev THEN base ELSE evaluate_workbook_for_verification(c.doc)]

compare_workbooks_with_coverage(pair, options, baseNames, names) ==
    LET b == pair.base.doc
        c == pair.current.doc
        missing == \/ ~options.errors_only /\ \E t \in options.targets : t[1] \notin Sheets(b) \cap Sheets(c)
                   \/ ~options.targets_only /\ options.sheet # "" /\ options.sheet \notin Sheets(b) \cap Sheets(c)
        scope(d) == IF options.sheet = "" THEN Sheets(d) ELSE {options.sheet}
        targets == ~options.errors_only /\ \E t \in options.targets : collect_target_deltas(b, c, options.targets)[t] # "unchanged"
        errors  == ~options.targets_only /\ compare_error_maps(collect_error_cells(b, scope(b)), collect_error_cells(c, scope(c)))
        renamed == options.named /\ compare_named_ranges(baseNames, names) # {}
    IN  IF ~validate(options) \/ missing THEN "failed"
        ELSE IF ~(pair.base.complete /\ pair.current.complete) THEN "inconclusive"
        ELSE IF targets \/ errors \/ renamed THEN "differences" ELSE "proved"

\* The names of one sheet when the comparison is about one.
verify_workbook(b, c, options) ==
    compare_workbooks_with_coverage(evaluate_workbook_pair_for_verification(b, c), options,
                                    named_ranges(b.doc, options.sheet), named_ranges(c.doc, options.sheet))
\* Both are evaluated, and all their names are compared.
verify_workbook_bytes(b, c, options) ==
    LET pair == [base |-> evaluate_workbook_for_verification(b.doc), current |-> evaluate_workbook_for_verification(c.doc)]
    IN  compare_workbooks_with_coverage(pair, options, named_items(pair.base.doc), named_items(pair.current.doc))
=============================================================================
