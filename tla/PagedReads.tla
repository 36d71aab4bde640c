----------------------------- MODULE PagedReads -----------------------------
(***************************************************************************)
(* Reads that come in pages (tools/mod.rs, canonical_reads.rs,             *)
(* canonical_optional.rs, canonical_lifecycle.rs, core/session.rs) and the *)
(* client that walks them: it asks for a page, follows the continuation it *)
(* was given until there is none, and meanwhile the document is written,   *)
(* or the client asks the next page with a different request.              *)
(*                                                                         *)
(* A read is a pure function of the document, the request and the          *)
(* continuation.  A continuation is an offset or a row for the tools, and  *)
(* a cursor bound to a revision and a request for the canonical reads.     *)
(* Answer(d, q) is what the request asks for, stated without pages.        *)
(*                                                                         *)
(* A sheet is a sequence of rows with one cell each: w is the size of the  *)
(* row in the response, hit whether the query matches it ("bare": a label  *)
(* with no value beside it), g its formula group and style, 0 for none.    *)
(***************************************************************************)
EXTENDS Naturals, Sequences, FiniteSets, SequencesExt, FiniteSetsExt

CONSTANTS
    Docs,       \* documents at the start
    Requests,   \* requests a walk starts with
    Edits,      \* what a write may do: d -> set of documents
    MaxWrites,  \* bound: writes during a walk
    MaxPage,    \* largest page a read gives (500, 2000 or 5000 in the code)
    TraceMin,   \* smallest page of a trace (5 in the code)
    TraceDepth, \* deepest trace (5 in the code)
    StyleMax    \* most styles the style tools list (200 in the code)

VARIABLES
    doc, rev,   \* the document and its revision
    q,          \* the request of the next page
    todo,       \* continuations the client still follows
    page,       \* the last page: its request, number and size of its items, complete or not
    got,        \* all items so far
    walk,       \* first document, revisions and requests the pages were read from
    phase       \* "reading", "done" or the error the walk ended with

vars == <<doc, rev, q, todo, page, got, walk, phase>>

----------------------------------------------------------------------------
(* Documents and pages.                                                    *)

NoRow == [w |-> 0, hit |-> "no", g |-> 0]
RowAt(d, s, i) == IF i <= Len(d.sheets[s]) THEN d.sheets[s][i] ELSE NoRow
Cells(d, s) == [i \in 1..Len(d.sheets[s]) |-> <<s, i>>]
RowsOf(a, b) == [i \in 1..(IF b < a THEN 0 ELSE b - a + 1) |-> <<1, a + i - 1>>]
AllCells(d) == FlattenSeq([s \in 1..Len(d.sheets) |-> Cells(d, s)])
At(d, c) == RowAt(d, c[1], c[2])
\* Op(v), with v evaluated once
Once(Op(_), v) == CHOOSE y \in {Op(x) : x \in {v}} : TRUE
\* Op over the elements of s from left to right
Fold(Op(_, _), base, s) ==
    LET acc[i \in 0..Len(s)] == IF i = 0 THEN base ELSE Once(LAMBDA x : Op(x, s[i]), acc[i - 1])
    IN  acc[Len(s)]
\* The size of the first n items in a response
SizeOf(d, items, n) ==
    LET sum[i \in 0..n] == IF i = 0 THEN 0 ELSE sum[i - 1] + At(d, items[i]).w
    IN  sum[n]
Size(d, items) == Once(LAMBDA s : SizeOf(d, s, Len(s)), items)

Min2(a, b) == IF a < b THEN a ELSE b
Max2(a, b) == IF a < b THEN b ELSE a
Clamp(lo, n, hi) == Max2(lo, Min2(n, hi))
SkipTake(s, offset, limit) == SubSeq(s, offset + 1, Min2(Len(s), offset + limit))
Take(s, n) == SubSeq(s, 1, Min2(n, Len(s)))

Page(items, next) == [items |-> items, next |-> next, complete |-> next = << >>, error |-> ""]
Bounded(items, complete) == [items |-> items, next |-> << >>, complete |-> complete, error |-> ""]
Refused(code) == [items |-> << >>, next |-> << >>, complete |-> FALSE, error |-> code]
\* next_offset: where the page ended, unless that is the end
Continue(end, total) == IF end < total THEN <<end>> ELSE << >>

cap_rows_by_cells(n, perRow, most) == Min2(n, most \div perRow)
\* The longest prefix whose response stays within the byte budget
cap_rows_by_payload_bytes(d, items, n, most) ==
    Max({k \in 0..n : k = 0 \/ SizeOf(d, items, k) <= most})
Capped(d, items, r) ==
    Once(LAMBDA s : Take(s, cap_rows_by_payload_bytes(d, s, cap_rows_by_cells(Len(s), 1, r.maxCells), r.maxBytes)),
         items)

----------------------------------------------------------------------------
(* Lists.                                                                  *)

list_workbooks(d, r, t) ==
    LET all == [i \in 1..Len(d.sheets) |-> <<i, 0>>]
        p == SkipTake(all, t, r.limit)
    IN  Page(p, Continue(t + Len(p), Len(all)))

\* list_sheets has the same shape, with the sheets of one workbook
list_sheets(d, r, t) == list_workbooks(d, r, t)

\* operation_history_page, net_diff_page, SessionHistory list
operation_history_page(d, r, t) ==
    LET all == Cells(d, 1)
        start == Min2(t, Len(all))
        p == SkipTake(all, start, Clamp(1, r.limit, MaxPage))
    IN  Page(p, Continue(start + Len(p), Len(all)))

\* The next offset is the end of the page that was asked for
get_changeset(d, r, t) ==
    LET limit == Clamp(1, r.limit, MaxPage)
    IN  Page(SkipTake(Cells(d, 1), t, limit), Continue(t + limit, Len(d.sheets[1])))

----------------------------------------------------------------------------
(* Rows of a sheet.                                                        *)

\* build_page: the first row is always given, beyond the sheet too
build_page(d, start, size) ==
    RowsOf(start, Min2(start + size - 1, Max2(Len(d.sheets[1]), start)))

sheet_page(d, r, t) ==
    IF r.limit = 0 THEN Refused("invalid")
    ELSE LET p == Capped(d, build_page(d, t, Min2(r.limit, MaxPage)), r)
             last == t + Len(p) - 1
         IN  Page(p, IF last < Len(d.sheets[1]) THEN <<last + 1>> ELSE << >>)

\* Mutant: the last row of the sheet is not taken for the end.
SessionPageAgain(d, r, t) ==
    LET p == RowsOf(t, Min2(t + Min2(r.limit, MaxPage) - 1, Len(d.sheets[1])))
        last == t + Len(p) - 1
    IN  Page(p, IF last <= Len(d.sheets[1]) THEN <<last + 1>> ELSE << >>)

\* WorkbookSession::sheet_page: no budget, and nothing beyond the sheet
session_sheet_page(d, r, t) ==
    IF r.limit = 0 THEN Refused("invalid")
    ELSE LET p == RowsOf(t, Min2(t + Min2(r.limit, MaxPage) - 1, Len(d.sheets[1])))
             last == t + Len(p) - 1
         IN  Page(p, IF last < Len(d.sheets[1]) THEN <<last + 1>> ELSE << >>)

\* One range; the client resumes it by asking from next_start_row on
range_values(d, r, t) ==
    IF r.limit = 0 THEN Refused("invalid")
    ELSE LET total == r.last - t + 1
             p == Capped(d, RowsOf(t, Min2(r.last, t + r.limit - 1)), r)
         IN  Page(p, IF Len(p) < total THEN <<t + Len(p)>> ELSE << >>)

\* How many rows of a block fit after those already emitted, and whether the
\* first one would fit on a page of its own
canonical_budget_decision(d, items, before, r) ==
    LET left == IF Len(before) < r.maxCells THEN r.maxCells - Len(before) ELSE 0
        fits(n) == Size(d, before) + SizeOf(d, items, n) <= r.maxBytes
    IN  [rows |-> Max({n \in 0..Min2(left, Len(items)) : n = 0 \/ fits(n)}),
         fits |-> items = << >> \/ (r.maxCells >= 1 /\ SizeOf(d, items, 1) <= r.maxBytes)]

\* The cursor of read_cells: a selection and a row of it
next_row(i, row) == <<<<i, row>>>>

\* A page of several ranges, block after block
read_cells_range(d, r, t) ==
    LET size == Clamp(1, r.limit, MaxPage)
        from(i) == IF i = t[1] THEN t[2] ELSE r.ranges[i][1]
        rows(acc, i) == RowsOf(from(i), Min2(r.ranges[i][2], from(i) + size - Len(acc.items) - 1))
        Emit(acc, i, items, fit) ==
            LET end == r.ranges[i][2]
                stop == from(i) + fit.rows - 1
            IN  IF acc.stop \/ Len(acc.items) >= size \/ from(i) > end THEN acc
                ELSE IF fit.rows = 0
                     THEN [acc EXCEPT !.stop = TRUE, !.next = next_row(i, from(i)),
                                      !.error = IF fit.fits THEN "" ELSE "row_exceeds_budget"]
                ELSE IF stop < end
                     THEN [acc EXCEPT !.items = @ \o Take(items, fit.rows), !.stop = TRUE,
                                      !.next = next_row(i, stop + 1)]
                ELSE IF i < Len(r.ranges) /\ Len(acc.items) + fit.rows >= size
                     THEN [acc EXCEPT !.items = @ \o items, !.stop = TRUE,
                                      !.next = next_row(i + 1, r.ranges[i + 1][1])]
                ELSE [acc EXCEPT !.items = @ \o items]
        Block(acc, i) ==
            Once(LAMBDA items : Once(LAMBDA fit : Emit(acc, i, items, fit),
                                     canonical_budget_decision(d, items, acc.items, r)),
                 rows(acc, i))
        all == Fold(Block, [items |-> << >>, next |-> << >>, stop |-> FALSE, error |-> ""],
                        [k \in 1..(Len(r.ranges) - t[1] + 1) |-> t[1] + k - 1])
    IN  IF all.error # "" THEN Refused(all.error) ELSE Page(all.items, all.next)

read_cells_rows(d, r, t) ==
    LET final == r.first + r.count - 1
        left == Min2(final - t[2] + 1, Clamp(1, r.limit, MaxPage))
        items == build_page(d, t[2], left)
        fit == canonical_budget_decision(d, items, << >>, r)
        stop == t[2] + fit.rows - 1
    IN  IF fit.rows = 0 THEN Refused("row_exceeds_budget")
        ELSE Page(Take(items, fit.rows), IF stop < final THEN next_row(1, stop + 1) ELSE << >>)

export_grid(d, r, t) ==
    LET end == Min2(r.last, t + Clamp(1, r.limit, MaxPage) - 1)
    IN  Page(RowsOf(t, end), IF end < r.last THEN <<end + 1>> ELSE << >>)

----------------------------------------------------------------------------
(* Tables.                                                                 *)

row_passes_filters(d, r, c) == r.filter => At(d, c).hit # "no"

\* extract_table_rows: the rows under the header that pass the filters
table_rows(d, r) == SelectSeq(Cells(d, 1), LAMBDA c : c[2] > 1 /\ row_passes_filters(d, r, c))

sample_rows(rows, limit, offset, mode) ==
    LET n == Len(rows)
        step == Max2(1, (n - 1) \div Max2(1, limit - 1))
        fit == {k \in 0..(limit - 1) : offset + k * step < n}
        spread == [k \in 1..Cardinality(fit) |-> offset + (k - 1) * step]
        ends == IF Len(spread) < limit /\ n - 1 \notin ToSet(spread) THEN Append(spread, n - 1) ELSE spread
        start == IF limit + offset < n THEN n - (limit + offset) ELSE 0
    IN  CASE n = 0 \/ limit = 0 -> << >>
          [] mode = "first" -> SkipTake(rows, offset, limit)
          [] mode = "last" -> SkipTake(rows, start + offset, limit)
          [] mode = "distributed" -> [k \in 1..Len(ends) |-> rows[ends[k] + 1]]

read_table(d, r, t) ==
    LET rows == table_rows(d, r)
        p == Capped(d, sample_rows(rows, r.limit, t, r.mode), r)
    IN  Page(p, Continue(t + Len(p), Len(rows)))

\* WorkbookSession::read_table: no filters, no samples, no budget
session_read_table(d, r, t) ==
    LET rows == SelectSeq(Cells(d, 1), LAMBDA c : c[2] > 1)
        p == SkipTake(rows, t, Max2(1, r.limit))
    IN  Page(p, Continue(t + Len(p), Len(rows)))

----------------------------------------------------------------------------
(* Searches.                                                               *)

Matches(d, r, c) == IF r.label THEN At(d, c).hit # "no" ELSE At(d, c).hit = "hit"

\* A match is emitted, or only counted when it lies below the offset
count(acc, c, skip) == [acc EXCEPT !.items = IF skip THEN @ ELSE Append(@, c), !.seen = @ + 1]

\* collect_value_matches over one sheet: the limit counts this sheet's
\* matches, a label without a value beside it is passed over uncounted
collect_value_matches(d, r, offset, limit, seen, s) ==
    LET Visit(acc, c) ==
            IF acc.more \/ ~Matches(d, r, c) THEN acc
            ELSE IF acc.seen < offset THEN count(acc, c, TRUE)
            ELSE IF Len(acc.items) >= limit THEN [acc EXCEPT !.more = TRUE]
            ELSE IF r.label /\ At(d, c).hit = "bare" THEN acc
            ELSE count(acc, c, FALSE)
    IN  Fold(Visit, [items |-> << >>, seen |-> seen, more |-> FALSE], Cells(d, s))

find_value(d, r, t) ==
    LET Sheet(acc, s) ==
            LET one == collect_value_matches(d, r, t, r.limit, acc.seen, s)
            IN  IF acc.more THEN acc
                ELSE [items |-> acc.items \o one.items, seen |-> one.seen, more |-> one.more]
        all == Fold(Sheet, [items |-> << >>, seen |-> 0, more |-> FALSE],
                        [s \in 1..Len(d.sheets) |-> s])
    IN  Page(all.items, IF all.more THEN <<t + Len(all.items)>> ELSE << >>)

\* WorkbookSession::find_value: one limit for all sheets
session_find_value(d, r, t) ==
    LET hits == SelectSeq(AllCells(d), LAMBDA c : At(d, c).hit = "hit")
        limit == Max2(1, r.limit)
    IN  Page(SkipTake(hits, t, limit), Continue(t + limit, Len(hits)))

\* collect_formula_matches over one sheet
collect_formula_matches(d, offset, limit, seen, s) ==
    LET Visit(acc, c) ==
            IF acc.more \/ At(d, c).g = 0 THEN acc
            ELSE IF acc.seen < offset THEN count(acc, c, TRUE)
            ELSE IF Len(acc.items) >= limit THEN [acc EXCEPT !.more = TRUE]
            ELSE count(acc, c, FALSE)
    IN  Fold(Visit, [items |-> << >>, seen |-> seen, more |-> FALSE], Cells(d, s))

find_formula(d, r, t) ==
    LET limit == Clamp(1, r.limit, MaxPage)
        Sheet(acc, s) ==
            LET one == collect_formula_matches(d, t, limit, acc.seen, s)
            IN  IF acc.more THEN acc
                ELSE [items |-> acc.items \o one.items, seen |-> one.seen, more |-> one.more]
        all == Fold(Sheet, [items |-> << >>, seen |-> 0, more |-> FALSE],
                        [s \in 1..Len(d.sheets) |-> s])
    IN  Page(all.items, IF all.more THEN <<t + Len(all.items)>> ELSE << >>)

\* The scan of execute_search_formulas walks find_formula itself
NoProgress == <<0, 0>>
RECURSIVE scan_formulas(_, _, _)
scan_formulas(d, r, offset) ==
    Once(LAMBDA p : IF p.next = << >> THEN p.items
                    ELSE IF p.next[1] <= offset THEN <<NoProgress>>
                    ELSE p.items \o scan_formulas(d, r, p.next[1]),
         find_formula(d, [r EXCEPT !.limit = MaxPage], offset))

formula_query_matches(d, c) == At(d, c).hit # "no"
\* One item per key of the matches, in the order of the keys
formula_groups(d, cells) ==
    SetToSortSeq({<<0, At(d, c).g>> : c \in ToSet(cells)}, LAMBDA a, b : a[2] < b[2])
formula_page(all, r, t) ==
    LET p == SkipTake(all, t, Clamp(1, r.limit, MaxPage))
    IN  Page(p, Continue(t + Len(p), Len(all)))
search_formulas(d, r, t) ==
    LET Report(cells) ==
            Once(LAMBDA all : formula_page(all, r, t), IF r.groups THEN formula_groups(d, cells) ELSE cells)
    IN  Once(LAMBDA scanned :
                IF NoProgress \in ToSet(scanned) THEN Refused("operation_failed")
                ELSE Report(SelectSeq(scanned, LAMBDA c : formula_query_matches(d, c))),
             scan_formulas(d, r, 0))

\* Sorted before it is paged; a page on which nothing fits is the last one
scan_volatiles(d, r, t) ==
    LET all == SelectSeq(AllCells(d), LAMBDA c : At(d, c).g = 1)
        start == Min2(t, Len(all))
        p == Capped(d, SkipTake(all, start, Max2(1, r.limit)), r)
    IN  Page(p, IF p # << >> THEN Continue(t + Len(p), Len(all)) ELSE << >>)

\* The groups come out of a hash map: those with equal keys in any order
Orders(S, Key(_)) ==
    {f \in SetToAllKPermutations(S) :
        Len(f) = Cardinality(S) /\ \A i, j \in DOMAIN f : i < j => Key(f[i]) <= Key(f[j])}
\* A group stands under the address of its first cell
groups_of(d) ==
    LET cells == ToSet(Cells(d, 1))
    IN  {c \in cells : At(d, c).g # 0 /\ \A e \in cells : At(d, e).g = At(d, c).g => e[2] >= c[2]}
\* The tool takes the limit as it is; max_items is the host's
sheet_formula_map(d, r, t) ==
    LET by(c) == IF r.sort = "address" THEN c[2] ELSE 9 - At(d, c).w
        Paged(all) ==
            LET p == Capped(d, SkipTake(all, t, r.limit), r)
            IN  Page(p, Continue(t + Len(p), Len(all)))
    IN  {Paged(all) : all \in Orders(groups_of(d), by)}
execute_formula_map(d, r, t) == sheet_formula_map(d, [r EXCEPT !.limit = Clamp(1, @, MaxPage)], t)

----------------------------------------------------------------------------
(* Traces and VBA.                                                         *)

\* collect_layer_links: breadth first from cell 1; a layer holds the
\* neighbours of its frontier, those met before included
RECURSIVE collect_layer_links(_, _, _, _)
collect_layer_links(d, frontier, visited, depth) ==
    LET layer == UNION {d.prec[c] : c \in frontier}
        fresh == layer \ visited
    IN  IF layer = {} \/ depth = 0 THEN << >>
        ELSE <<layer>> \o (IF fresh = {} THEN << >>
                           ELSE collect_layer_links(d, fresh, visited \cup layer, depth - 1))

\* build_trace_layers: the first page has the head of every layer, a cursor
\* continues one layer.  next_cursor names the first cut layer, the notes all.
build_trace_layers(d, depth, size, t) ==
    LET layers == collect_layer_links(d, {1}, {1}, depth)
        nodes(k) == SetToSortSeq(layers[k], LAMBDA a, b : a < b)
        start(k) == IF t # << >> /\ t[1] = k THEN t[2] ELSE 0
        shown(k) == IF t = << >> \/ t[1] = k THEN SkipTake(nodes(k), start(k), size) ELSE << >>
        cut(k) == IF shown(k) # << >> /\ start(k) + size < Len(nodes(k))
                  THEN <<<<k, start(k) + size>>>> ELSE << >>
        ks == [k \in 1..Len(layers) |-> k]
        next == FlattenSeq([k \in DOMAIN ks |-> cut(k)])
    IN  Page(FlattenSeq([k \in DOMAIN ks |-> [i \in 1..Len(shown(k)) |-> <<k, shown(k)[i]>>]]), next)
\* A client of the tool can follow the offsets in the notes, too
formula_trace(d, r, t) ==
    build_trace_layers(d, Clamp(1, r.depth, TraceDepth), Clamp(TraceMin, r.limit, MaxPage), t)
execute_formula_trace(d, r, t) ==
    LET p == formula_trace(d, r, t) IN Page(p.items, Take(p.next, 1))

vba_project_summary(d, r, t) ==
    LET all == [i \in 1..Len(d.sheets) |-> <<i, 0>>]
        listed == Take(all, t + r.limit + 1)
        p == SkipTake(listed, t, r.limit)
        more == Len(listed) > t + r.limit \/ Len(all) > t + r.limit + 1
    IN  IF r.limit \notin 1..MaxPage THEN Refused("invalid")
        ELSE Page(p, IF more THEN <<t + Len(p)>> ELSE << >>)

\* The lines of a page are joined and counted again: a page of one blank line
\* is the empty text, which has no lines
vba_module_source(d, r, t) ==
    LET all == Cells(d, 1)
        p == SkipTake(all, t, r.limit)
        counted == IF Len(p) = 1 /\ At(d, p[1]).w = 0 THEN 0 ELSE Len(p)
    IN  IF r.limit \notin 1..MaxPage THEN Refused("invalid")
        ELSE Page(SubSeq(p, 1, counted),
                  IF Len(all) - Min2(t, Len(all)) > r.limit THEN <<t + counted>> ELSE << >>)

----------------------------------------------------------------------------
(* Reads of one bounded answer, which say whether it is complete.          *)

sheet_overview(d, r) ==
    LET regions == [i \in 1..Len(d.sheets) |-> <<i, 0>>]
    IN  Bounded(IF r.limit = 0 THEN regions ELSE Take(regions, r.limit),
                r.limit = 0 \/ Len(regions) <= r.limit)

layout_page(d, r) ==
    LET last == Min2(r.last, r.first + MaxPage - 1)
    IN  Bounded(RowsOf(r.first, last), last = r.last)

\* The rows the column types were derived from, and how many there are
table_profile(d, r) ==
    LET rows == SelectSeq(Cells(d, 1), LAMBDA c : c[2] > 1)
    IN  [scanned |-> sample_rows(rows, r.limit, 0, r.mode), row_count |-> Len(rows)]
profile_table(d, r) ==
    LET p == table_profile(d, r) IN Bounded(p.scanned, Len(p.scanned) >= p.row_count)

\* Every target once; a detail view refuses more cells than it shows, and cuts
\* at the byte budget
inspect_cells(d, r) ==
    LET Add(cs, c) == IF c \in ToSet(cs) THEN cs ELSE Append(cs, c)
        coords == Fold(Add, << >>, FlattenSeq([i \in 1..Len(r.ranges) |-> RowsOf(r.ranges[i][1], r.ranges[i][2])]))
        cells == SelectSeq(coords, LAMBDA c : r.include_empty \/ c[2] <= Len(d.sheets[1]))
        n == cap_rows_by_payload_bytes(d, cells, Len(cells), r.maxBytes)
    IN  IF r.ranges = << >> \/ r.limit \notin 1..MaxPage \/ Len(coords) > Max2(1, Min2(r.maxCells, r.limit))
        THEN Refused("invalid")
        ELSE Bounded(Take(cells, n), n = Len(cells))
execute_inspect_cells(d, r) ==
    LET p == inspect_cells(d, r)
    IN  IF p.error = "" /\ ~p.complete THEN Refused("row_exceeds_budget") ELSE p

Usage(d, cells) ==
    {<<g, Cardinality({c \in ToSet(cells) : At(d, c).g = g})>> : g \in {At(d, c).g : c \in ToSet(cells)}}
\* Most used first, StyleMax at most, of the first cells of the scope
style_usage(d, cells, r) ==
    LET all == SetToSortSeq(Usage(d, Take(cells, r.scan)), LAMBDA a, b : a[2] > b[2] \/ (a[2] = b[2] /\ a[1] < b[1]))
    IN  [styles |-> Take(all, StyleMax), styles_truncated |-> Len(all) > StyleMax, scan_truncated |-> Len(cells) > r.scan]
\* The scan limit once more over the counts, then the limit on the styles
apply_style_limits(styles, r) ==
    LET Keep(acc, u) ==
            LET n == Min2(u[2], acc.left)
            IN  [left |-> acc.left - n, out |-> IF n = 0 THEN acc.out ELSE Append(acc.out, <<u[1], n>>),
                 bounded |-> acc.bounded \/ n < u[2]]
        kept == Fold(Keep, [left |-> r.scan, out |-> << >>, bounded |-> FALSE], styles)
    IN  [styles |-> Take(kept.out, r.limit), bounded |-> kept.bounded \/ Len(kept.out) > r.limit]
\* The workbook's own summary looks at scan_truncated only
analyze_workbook_styles(d, r) ==
    LET summary == style_usage(d, AllCells(d), r)
        limited == apply_style_limits(summary.styles, r)
    IN  Bounded(limited.styles, ~(summary.scan_truncated \/ limited.bounded))
analyze_sheet_styles(d, r) ==
    LET summary == style_usage(d, Cells(d, 1), r)
        limited == apply_style_limits(summary.styles, r)
    IN  Bounded(limited.styles, ~(summary.styles_truncated \/ summary.scan_truncated \/ limited.bounded))

----------------------------------------------------------------------------
(* The walk.                                                               *)

Read(d, r, t) ==
    CASE r.op = "list_workbooks" -> {list_workbooks(d, r, t)}
      [] r.op = "list_sheets" -> {list_sheets(d, r, t)}
      [] r.op = "operation_history_page" -> {operation_history_page(d, r, t)}
      [] r.op = "get_changeset" -> {get_changeset(d, r, t)}
      [] r.op = "sheet_page" -> {sheet_page(d, r, t)}
      [] r.op = "session_sheet_page" -> {session_sheet_page(d, r, t)}
      [] r.op = "range_values" -> {range_values(d, r, t)}
      [] r.op = "read_cells_range" -> {read_cells_range(d, r, t)}
      [] r.op = "read_cells_rows" -> {read_cells_rows(d, r, t)}
      [] r.op = "export_grid" -> {export_grid(d, r, t)}
      [] r.op = "read_table" -> {read_table(d, r, t)}
      [] r.op = "session_read_table" -> {session_read_table(d, r, t)}
      [] r.op = "find_value" -> {find_value(d, r, t)}
      [] r.op = "session_find_value" -> {session_find_value(d, r, t)}
      [] r.op = "find_formula" -> {find_formula(d, r, t)}
      [] r.op = "search_formulas" -> {search_formulas(d, r, t)}
      [] r.op = "scan_volatiles" -> {scan_volatiles(d, r, t)}
      [] r.op = "sheet_formula_map" -> sheet_formula_map(d, r, t)
      [] r.op = "formula_map" -> execute_formula_map(d, r, t)
      [] r.op = "formula_trace_layers" -> {formula_trace(d, r, t)}
      [] r.op = "formula_trace" -> {execute_formula_trace(d, r, t)}
      [] r.op = "vba_project_summary" -> {vba_project_summary(d, r, t)}
      [] r.op = "vba_module_source" -> {vba_module_source(d, r, t)}
      [] r.op = "sheet_overview" -> {sheet_overview(d, r)}
      [] r.op = "layout_page" -> {layout_page(d, r)}
      [] r.op = "profile_table" -> {profile_table(d, r)}
      [] r.op = "inspect_details" -> {inspect_cells(d, r)}
      [] r.op = "inspect_cells" -> {execute_inspect_cells(d, r)}
      [] r.op = "analyze_styles" ->
            {IF r.scope = "sheet" THEN analyze_sheet_styles(d, r) ELSE analyze_workbook_styles(d, r)}

Start(r) ==
    CASE r.op \in {"sheet_page", "session_sheet_page"} -> 1
      [] r.op \in {"range_values", "export_grid"} -> r.first
      [] r.op = "read_cells_range" -> <<1, r.ranges[1][1]>>
      [] r.op = "read_cells_rows" -> <<1, r.first>>
      [] r.op \in {"formula_trace", "formula_trace_layers"} -> << >>
      [] OTHER -> 0

\* The reads whose continuation is a cursor of the canonical surface
Cursored(r) ==
    r.op \in {"read_cells_range", "read_cells_rows", "export_grid", "search_formulas", "formula_map",
              "formula_trace", "vba_project_summary", "vba_module_source"}
\* What a cursor says of its request: not the page size, except for a trace
Fingerprint(r) == IF r.op = "formula_trace" THEN r ELSE [r EXCEPT !.limit = 0]

\* Mutant: a cursor is good for every revision.
CheckRequestOnly(r, v, t) ==
    IF t.first \/ t.request = Fingerprint(r) THEN "" ELSE "cursor_mismatch"
\* decode_cursor, validate_opaque_cursor, decode_vba_cursor
validate_cursor(r, v, t) ==
    IF t.first THEN ""
    ELSE IF t.rev # v THEN "stale_cursor"
    ELSE IF t.request # Fingerprint(r) THEN "cursor_mismatch" ELSE ""

Token(pos, first) == [pos |-> pos, first |-> first, rev |-> rev, request |-> Fingerprint(q)]

Init ==
    /\ doc \in Docs /\ rev = 1
    /\ q \in Requests
    /\ todo = <<Token(Start(q), TRUE)>>
    /\ page = [ask |-> q, n |-> 0, size |-> 0, complete |-> FALSE]
    /\ got = << >>
    /\ walk = [at |-> doc, revs |-> {}, asks |-> {}]
    /\ phase = "reading"

\* Reads whose pages the byte budget is applied to
Sized == {"read_cells_range", "read_cells_rows", "read_table", "sheet_page", "inspect_cells", "inspect_details"}

\* One page; the tools' offsets are not checked against anything
Fetch ==
    /\ phase = "reading"
    /\ LET t == Head(todo)
           bad == IF Cursored(q) THEN validate_cursor(q, rev, t) ELSE ""
       IN  IF bad # "" THEN phase' = bad /\ UNCHANGED <<todo, page, got, walk>>
           ELSE \E p \in Read(doc, q, t.pos) :
                /\ todo' = Tail(todo) \o [i \in 1..Len(p.next) |-> Token(p.next[i], FALSE)]
                /\ page' = [ask |-> q, n |-> Len(p.items), complete |-> p.complete,
                            size |-> IF q.op \in Sized
                                     THEN Size(doc, p.items) ELSE 0]
                /\ got' = got \o p.items
                /\ walk' = [at |-> IF walk.revs = {} THEN doc ELSE walk.at,
                            revs |-> walk.revs \cup {rev}, asks |-> walk.asks \cup {Fingerprint(q)}]
                /\ phase' = IF p.error # "" THEN p.error
                            ELSE IF todo' = << >> THEN "done" ELSE "reading"
    /\ UNCHANGED <<doc, rev, q>>

\* Someone writes the document
Write ==
    /\ phase = "reading" /\ walk.revs # {} /\ rev <= MaxWrites
    /\ doc' \in Edits[doc] /\ rev' = rev + 1
    /\ UNCHANGED <<q, todo, page, got, walk, phase>>

\* The client asks the next page with other parameters
Change ==
    /\ phase = "reading" /\ walk.revs # {}
    /\ q' \in {r \in Requests : r.op = q.op /\ r.maxCells = q.maxCells /\ r.maxBytes = q.maxBytes}
    /\ q' # q /\ Cardinality(walk.asks) = 1 /\ rev = 1
    /\ UNCHANGED <<doc, rev, todo, page, got, walk, phase>>

\* The walk has ended
Rest == phase # "reading" /\ UNCHANGED vars

Next == Fetch \/ Write \/ Change \/ Rest
Spec == Init /\ [][Next]_vars /\ WF_vars(Fetch)

----------------------------------------------------------------------------
(* What a request asks for: a sequence, or a set where there is no order.   *)

\* The cells at most k references away from cell 1
Within(d, k) ==
    LET reach[i \in 0..k] ==
            IF i = 0 THEN {1} ELSE reach[i - 1] \cup UNION {d.prec[c] : c \in reach[i - 1]}
    IN  reach[k]

StyleScope(d, r) == IF r.scope = "sheet" THEN Cells(d, 1) ELSE AllCells(d)
Answer(d, r) ==
    CASE r.op \in {"list_workbooks", "list_sheets", "vba_project_summary", "sheet_overview"} ->
            [i \in 1..Len(d.sheets) |-> <<i, 0>>]
      [] r.op \in {"operation_history_page", "get_changeset", "vba_module_source"} -> Cells(d, 1)
      [] r.op = "sheet_page" -> RowsOf(1, Max2(1, Len(d.sheets[1])))
      [] r.op = "session_sheet_page" -> Cells(d, 1)
      [] r.op \in {"range_values", "export_grid", "layout_page"} -> RowsOf(r.first, r.last)
      [] r.op = "read_cells_range" ->
            FlattenSeq([i \in 1..Len(r.ranges) |-> RowsOf(r.ranges[i][1], r.ranges[i][2])])
      [] r.op = "read_cells_rows" -> RowsOf(r.first, r.first + r.count - 1)
      [] r.op \in {"read_table", "session_read_table", "profile_table"} ->
            SelectSeq(Cells(d, 1), LAMBDA c : c[2] > 1 /\ (r.filter => At(d, c).hit # "no"))
      [] r.op \in {"find_value", "session_find_value"} ->
            SelectSeq(AllCells(d), LAMBDA c : At(d, c).hit = "hit")
      [] r.op = "find_formula" -> SelectSeq(AllCells(d), LAMBDA c : At(d, c).g # 0)
      [] r.op = "search_formulas" ->
            LET cells == SelectSeq(AllCells(d), LAMBDA c : At(d, c).g # 0 /\ At(d, c).hit # "no")
            IN  IF r.groups THEN SetToSortSeq({<<0, At(d, c).g>> : c \in ToSet(cells)}, LAMBDA a, b : a[2] < b[2])
                ELSE cells
      [] r.op = "scan_volatiles" -> SelectSeq(AllCells(d), LAMBDA c : At(d, c).g = 1)
      [] r.op \in {"formula_map", "sheet_formula_map"} -> groups_of(d)
      [] r.op \in {"inspect_cells", "inspect_details"} ->
            SelectSeq(Cells(d, 1), LAMBDA c : \E i \in DOMAIN r.ranges : c[2] \in r.ranges[i][1]..r.ranges[i][2])
      [] r.op \in {"formula_trace", "formula_trace_layers"} ->
            {n \in (1..r.depth) \X DOMAIN d.prec :
                \E c \in Within(d, n[1] - 1) :
                    (n[1] > 1 => c \notin Within(d, n[1] - 2)) /\ n[2] \in d.prec[c]}
      [] r.op = "analyze_styles" -> Usage(d, StyleScope(d, r))

(* Requests whose walk is known not to be exact.                           *)

\* No row fits the budget, or no row is asked for: the same page for ever
NoRoom(d, r) ==
    \/ /\ r.op \in {"sheet_page", "range_values", "read_table", "formula_map", "sheet_formula_map", "scan_volatiles"}
       /\ r.maxCells = 0 \/ \E c \in ToSet(AllCells(d)) : At(d, c).w > r.maxBytes
    \/ r.limit = 0 /\ r.op \in {"list_workbooks", "list_sheets", "read_table", "find_value", "sheet_formula_map"}
    \/ r.op = "vba_module_source" /\ r.limit = 1 /\ \E c \in ToSet(Cells(d, 1)) : At(d, c).w = 0
\* Pages of a sample do not add up to the table
Sampled(r) == r.op = "read_table" /\ r.mode # "first"
\* Groups that sort alike come in a new order with every page
Tied(d, r) ==
    r.op \in {"formula_map", "sheet_formula_map"} /\ r.sort # "address"
    /\ \E a, b \in groups_of(d) : a # b /\ At(d, a).w = At(d, b).w
\* next_cursor continues one layer only
SeveralLayers(d, r) ==
    r.op = "formula_trace"
    /\ Cardinality({k \in 1..r.depth : Cardinality({n \in Answer(d, r) : n[1] = k}) > Max2(TraceMin, r.limit)}) > 1
\* The workbook scope of analyze_styles forgets that styles were cut
StylesForgotten(d, r) ==
    r.op = "analyze_styles" /\ r.scope = "workbook" /\ Cardinality(Usage(d, StyleScope(d, r))) > StyleMax
Labels(d, r) == r.op = "find_value" /\ r.label /\ \E c \in ToSet(AllCells(d)) : At(d, c).hit = "bare"

----------------------------------------------------------------------------
(* Properties.                                                             *)

Exactly(items, d, r) ==
    CASE r.op \in {"formula_trace", "formula_trace_layers", "formula_map", "sheet_formula_map", "analyze_styles"} ->
            ToSet(items) = Answer(d, r) /\ Len(items) = Cardinality(ToSet(items))
      [] r.op = "vba_module_source" -> \* a page of one blank line is lost
            LET text(s) == SelectSeq(s, LAMBDA c : At(d, c).w # 0)
            IN  text(items) = text(Answer(d, r))
      [] OTHER -> items = Answer(d, r)

\* A walk by cursors that reaches its end has every item of the request once,
\* in order, all of one revision, whatever was written meanwhile and whatever
\* page sizes the client used: a cursor from another revision or request ends
\* the walk with an error instead (validate_opaque_cursor, decode_vba_cursor,
\* read_cells_from_view).
CursorWalkIsWhole ==
    phase = "done" /\ Cursored(q) /\ ~Tied(walk.at, q) /\ ~SeveralLayers(walk.at, q) /\ ~NoRoom(walk.at, q) =>
        Exactly(got, walk.at, q) /\ Cardinality(walk.revs) = 1

\* Following next_offset or next_start_row on an unchanged document with one
\* request misses nothing and repeats nothing (a label search may repeat
\* matches, never miss one); and an answer that says it is complete is.
OffsetWalkIsWhole ==
    phase = "done" /\ ~Cursored(q) /\ Cardinality(walk.revs) = 1 /\ Cardinality(walk.asks) = 1
        /\ page.complete /\ ~NoRoom(walk.at, q) /\ ~Sampled(q) /\ ~Tied(walk.at, q) /\ ~StylesForgotten(walk.at, q) =>
        IF Labels(walk.at, q) THEN ToSet(got) = ToSet(Answer(walk.at, q)) ELSE Exactly(got, walk.at, q)

\* No page is larger than the budgets of the host and the limit of the request
\* allow; a search over several sheets has that limit for each.
PagesKeepTheirLimits ==
    LET r == page.ask
    IN  /\ r.op \in Sized =>
              page.size <= r.maxBytes /\ page.n <= r.maxCells
        /\ r.op \notin {"formula_trace", "formula_trace_layers", "sheet_overview", "layout_page", "vba_module_source"} =>
              page.n <= Max2(1, r.limit) * (IF r.op \in {"find_value", "find_formula"} THEN Len(doc.sheets) ELSE 1)

\* A walk over the pages of a read is whole, by cursors or by offsets, although
\* no page outgrows its budget (validate_cursor, canonical_budget_decision).
WalksAreWhole == CursorWalkIsWhole /\ OffsetWalkIsWhole /\ PagesKeepTheirLimits

\* The walk comes to an end, also when rows appear and vanish under it, unless
\* not even one row fits into a page.
EveryWalkEnds == []<>(phase # "reading" \/ NoRoom(doc, q))

\* docs/architecture/surface-boundary-rules.md: "Derived metrics report
\* coverage/sampling and never flatten into exact metadata": a style analysis
\* that left styles out does not call itself complete (execute_analyze_styles).
BoundedIsReported ==
    q.op = "analyze_styles" /\ phase = "done" /\ page.complete => Exactly(got, walk.at, q)
=============================================================================
