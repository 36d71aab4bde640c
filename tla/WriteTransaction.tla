-------------------------- MODULE WriteTransaction --------------------------
(***************************************************************************)
(* A canonical write: the operations of one request on one workbook, as a  *)
(* preview, staged, or applied, all of them or as many as succeed          *)
(* (canonical_write.rs).  A file or a fork runs the general transaction; a *)
(* resident session prepares the same answer, from the touched cells alone *)
(* when every operation writes cells.  The fork tool mutate_batch          *)
(* (tools/mutate_batch.rs) applies operations family by family.            *)
(*                                                                         *)
(* Each request is handled under its session's lock, so it is one action.  *)
(***************************************************************************)
EXTENDS WorkbookDiff

CONSTANTS
    WriteDocs,      \* the workbooks to begin with
    Requests,       \* [ops, mode, atomic, policy]
    MaxWrites,      \* requests of one behaviour
    MaxTouched      \* MAX_PREPARED_COMMON_CELLS

VARIABLES
    doc,            \* the session's workbook
    rev,            \* its revision
    base,           \* [doc, rev] of the file that verification compares with
    last,           \* the last request: [path, request, doc, rev] it was given
    answer,         \* what it was answered
    writes          \* how many were answered
vars == <<doc, rev, base, last, answer, writes>>

NoChanges == [names |-> {}, tables |-> {}, cells |-> {}]
diff_bytes(before, after) ==
    LET changes == calculate_changeset(Saved(before), Saved(after))
    IN  [names |-> changes.names, tables |-> changes.tables, cells |-> ChangedCells(changes)]

(***************************************************************************)
(* The operations, one after the other.                                    *)
(***************************************************************************)
Begin(d) == [doc |-> d, results |-> << >>, failed |-> FALSE]
Skip(acc) == [acc EXCEPT !.results = Append(@, "skipped")]
Result(o) == IF o.ok THEN "applied" ELSE "failed"
InPlace(acc, o) == [acc EXCEPT !.doc = o.doc, !.results = Append(@, Result(o)), !.failed = ~o.ok]

\* On one candidate; a failure keeps what the failed operation had done to it.
apply_atomic_candidate(d, request) ==
    FoldLeft(LAMBDA acc, op :
                IF acc.failed THEN Skip(acc)
                ELSE InPlace(acc, apply_write_op_to_workbook(acc.doc, op, request.policy)),
             Begin(d), request.ops)

\* Mutant: an operation that fails half way leaves its half.
ApplyEachInPlace(d, request) == apply_atomic_candidate(d, request)
\* Each on a copy of its own, which a failed operation loses.
OnCopy(acc, o) == InPlace(acc, IF o.ok THEN o ELSE Err(acc.doc))
ApplyEach(d, request) ==
    FoldLeft(LAMBDA acc, op :
                IF acc.failed THEN Skip(acc)
                ELSE OnCopy(acc, apply_write_op_to_workbook(acc.doc, op, request.policy)),
             Begin(d), request.ops)

Applied(results) == SelectSeq(results, LAMBDA r : r = "applied")
Relabelled(results, from, to) == [i \in 1..Len(results) |-> IF results[i] = from THEN to ELSE results[i]]

canonical_response_from_prepared(request, acc, changes) ==
    CASE acc.failed /\ request.mode = "apply" /\ request.atomic ->
            [status |-> "rolled_back", results |-> Relabelled(acc.results, "applied", "rolled_back"), changes |-> NoChanges]
      [] acc.failed /\ request.mode # "apply" ->
            [status |-> "failed", results |-> Relabelled(acc.results, "applied", "rolled_back"), changes |-> changes]
      [] acc.failed -> [status |-> "partial", results |-> acc.results, changes |-> changes]
      [] ~acc.failed /\ request.mode = "preview" ->
            [status |-> "previewed", results |-> Relabelled(acc.results, "applied", "previewed"), changes |-> changes]
      [] ~acc.failed /\ request.mode = "stage" ->
            [status |-> "staged", results |-> Relabelled(acc.results, "applied", "staged"), changes |-> changes]
      [] OTHER -> [status |-> "applied", results |-> acc.results, changes |-> changes]

(***************************************************************************)
(* The general transaction: [doc, commits, answer].                        *)
(***************************************************************************)
Concluded(d, request, acc) ==
    LET commits == request.mode = "apply" /\ IF request.atomic THEN ~acc.failed ELSE Applied(acc.results) # << >>
    IN  [doc |-> IF commits THEN acc.doc ELSE d, commits |-> commits,
         answer |-> canonical_response_from_prepared(request, acc, diff_bytes(d, acc.doc))]
execute_write_transaction(d, request) ==
    Concluded(d, request, IF request.mode # "apply" \/ request.atomic
                          THEN apply_atomic_candidate(d, request) ELSE ApplyEach(d, request))

(***************************************************************************)
(* A resident session: the touched cells on a shadow of the workbook.      *)
(***************************************************************************)
CommonKinds == {"set_cells", "write_matrix"}
IsCommon(request) == \A i \in 1..Len(request.ops) : request.ops[i].kind \in CommonKinds
common_touched_cells(op) == {<<op.sheet, p>> : p \in DOMAIN op.matrix}

EmptySheets(d) == [d EXCEPT !.cells = [s \in DOMAIN @ |-> [p \in {} |-> NoCell]]]
Holds(d, k) == k[2] \in DOMAIN d.cells[k[1]]
Copy(from, to, keys) ==
    [to EXCEPT !.cells = [s \in DOMAIN @ |->
        LET mine == {p \in DOMAIN from.cells[s] : <<s, p>> \in keys}
        IN  [p \in DOMAIN @[s] \cup mine |-> IF p \in mine THEN from.cells[s][p] ELSE @[s][p]]]]

\* A cell is copied to the shadow when it is first touched.
\* Mutant: it is not, so the operation does not see what it overwrites.
TouchWithoutCopy(d, acc, op) == [acc EXCEPT !.before = @ \cup {k \in common_touched_cells(op) : k[1] \in Sheets(d)}]
Touch(d, acc, op) ==
    LET fresh == {k \in common_touched_cells(op) : k[1] \in Sheets(d)} \ acc.before
    IN  [acc EXCEPT !.before = @ \cup fresh, !.doc = Copy(d, @, fresh)]

ShadowStep(d, request, acc, op) ==
    IF acc.failed THEN Skip(acc)
    ELSE IF Cardinality(acc.before \cup common_touched_cells(op)) > MaxTouched
    THEN [acc EXCEPT !.failed = TRUE, !.results = Append(@, "failed")]
    ELSE LET t == Touch(d, acc, op)
         IN  InPlace(t, apply_write_op_to_workbook(t.doc, op, request.policy))

\* An empty cell in the place of none is not reported.
prepared_cell_change(d, shadow, k) ==
    /\ Holds(shadow, k)
    /\ LET after == shadow.cells[k[1]][k[2]]
       IN  IF Holds(d, k)
           THEN LET before == d.cells[k[1]][k[2]] IN before.f # after.f \/ ~values_equal(before.v, after.v)
           ELSE after.v # "" \/ after.f # ""

FromShadow(d, request, acc) ==
    LET effects == {k \in acc.before : Holds(acc.doc, k) /\ (Holds(d, k) => d.cells[k[1]][k[2]] # acc.doc.cells[k[1]][k[2]])}
        changes == [NoChanges EXCEPT !.cells = {k \in acc.before : prepared_cell_change(d, acc.doc, k)}]
        publish == request.mode = "apply" /\ ~(request.atomic /\ acc.failed) /\ effects # {}
    IN  [doc |-> IF publish THEN Copy(acc.doc, d, effects) ELSE d, commits |-> publish,
         answer |-> canonical_response_from_prepared(request, acc, changes)]
prepare_common_transaction(d, request) ==
    FromShadow(d, request,
               FoldLeft(LAMBDA acc, op : ShadowStep(d, request, acc, op),
                        [doc |-> EmptySheets(d), results |-> << >>, failed |-> FALSE, before |-> {}], request.ops))

\* A request to stage is previewed and given another name.
AsStaged(preview) ==
    IF preview.answer.status # "previewed" THEN preview
    ELSE [preview EXCEPT !.answer.status = "staged", !.answer.results = Relabelled(@, "previewed", "staged")]
prepare_snapshot_transaction(d, request) ==
    IF request.mode = "stage" THEN AsStaged(execute_write_transaction(d, [request EXCEPT !.mode = "preview"]))
    ELSE execute_write_transaction(d, request)

prepare_resident_transaction(d, request) ==
    IF IsCommon(request) THEN prepare_common_transaction(d, request) ELSE prepare_snapshot_transaction(d, request)

\* Whether the values calculated before still stand.
PresentationKinds ==
    {"style", "column_size", "set_print_area"} \cup LayoutKinds \cup RulesKinds
calculation_effect_for_ops(request, results) ==
    IF \A i \in 1..Len(results) : results[i] = "applied" => request.ops[i].kind \in PresentationKinds
    THEN "preserve" ELSE "invalidate"

(***************************************************************************)
(* mutate_batch: consecutive operations of one family are one group, which *)
(* is applied as a whole.                                                  *)
(***************************************************************************)
family_for_kind(kind) ==
    CASE kind \in {"clear_range", "fill_range", "replace_in_range", "write_matrix"} -> "transform"
      [] kind \in RulesKinds -> "rules"
      [] kind \in LayoutKinds \cup {"set_print_area"} -> "sheet_layout"
      [] kind \in {"style", "column_size", "replace_in_formulas"} -> kind
      [] OTHER -> "none"
Joins(op, next) ==
    /\ family_for_kind(op.kind) = family_for_kind(next.kind)
    /\ family_for_kind(op.kind) # "replace_in_formulas"
    /\ family_for_kind(op.kind) = "column_size" => op.sheet = next.sheet
parse_ops(ops) ==
    FoldLeft(LAMBDA groups, op :
                IF groups # << >> /\ Joins(groups[Len(groups)][1], op)
                THEN [groups EXCEPT ![Len(groups)] = Append(@, op)] ELSE Append(groups, <<op>>),
             << >>, ops)
Mutates(request) == \A i \in 1..Len(request.ops) : family_for_kind(request.ops[i].kind) # "none"

\* The formulas of a transform group that do not parse, by sheet, as its diagnostics
\* group them; only fills and matrices are looked at.
Formulas(op) ==
    CASE op.kind = "fill_range" -> {op.content.f}
      [] op.kind = "write_matrix" -> {op.matrix[p].f : p \in DOMAIN op.matrix}
      [] OTHER -> {}
BadFormulas(ops) == UNION {{<<op.sheet, f>> : f \in Formulas(op) \cap Unparsable} : op \in ToSet(ops)}
\* A fill with such a formula goes, a matrix loses the cells that have one.
Without(ops, bad) ==
    LET Pruned(op) == [op EXCEPT !.matrix = [p \in {q \in DOMAIN @ : <<op.sheet, @[q].f>> \notin bad} |-> @[p]]]
        left == SelectSeq(ops, LAMBDA op : op.kind = "fill_range" => <<op.sheet, op.content.f>> \notin bad)
    IN  [i \in 1..Len(left) |-> IF left[i].kind = "write_matrix" THEN Pruned(left[i]) ELSE left[i]]

\* One group, as its family's tool carries it out: [doc, failed, diagnostics].
transform_batch(d, request) ==
    LET bad == IF request.policy = "off" THEN {} ELSE BadFormulas(request.ops)
        o   == apply_atomic_candidate(d, [request EXCEPT !.ops = Without(@, bad)])
    IN  IF request.policy = "fail" /\ bad # {} THEN [doc |-> d, failed |-> TRUE, diagnostics |-> {}]
        ELSE [doc |-> o.doc, failed |-> o.failed, diagnostics |-> bad]
RunGroup(d, request) ==
    IF family_for_kind(request.ops[1].kind) = "transform" THEN transform_batch(d, request)
    ELSE LET o == apply_atomic_candidate(d, request)
         IN  [doc |-> o.doc, failed |-> o.failed, diagnostics |-> {}]

\* The groups before a failure stay, the failing one and the later ones are not applied.
\* Every operation of a group that returned is called applied, the dropped ones too;
\* an error names the operations before it, without their diagnostics.  A preview
\* stages each group on its own, from the work file as it is.
mutate_batch(d, request) ==
    LET applies == request.mode = "apply"
        Group(acc, group) ==
            LET o == RunGroup(IF applies THEN acc.doc ELSE d, [request EXCEPT !.ops = group])
                said == [i \in 1..Len(group) |-> IF applies THEN "applied" ELSE "staged"]
            IN  IF acc.failed \/ o.failed THEN [acc EXCEPT !.failed = TRUE]
                ELSE [acc EXCEPT !.doc = o.doc, !.results = @ \o said, !.diagnostics = @ \cup o.diagnostics]
        acc == FoldLeft(Group, [doc |-> d, results |-> << >>, failed |-> FALSE, diagnostics |-> {}], parse_ops(request.ops))
    IN  [doc |-> IF applies THEN acc.doc ELSE d, commits |-> acc.results # << >> /\ applies,
         answer |-> [status |-> IF acc.failed THEN "error" ELSE "applied", results |-> acc.results, changes |-> NoChanges,
                     diagnostics |-> IF acc.failed THEN {} ELSE acc.diagnostics]]

(***************************************************************************)
(* WorkbookSession::apply_ops: the matrices of a batch whose sheets exist. *)
(***************************************************************************)
validate_ops(d, request) == \A op \in ToSet(request.ops) : op.sheet \in Sheets(d)
session_write(d, op) ==
    LET Put(cells, p) ==
            LET cell == IF p \in DOMAIN cells THEN cells[p] ELSE NoCell
                kept == cell.f # "" /\ ~op.overwrite
                new == IF kept THEN cell
                       ELSE [cell EXCEPT !.f = op.matrix[p].f, !.v = IF op.matrix[p].f = "" THEN op.matrix[p].v ELSE ""]
            IN  (p :> new) @@ cells
    IN  [d EXCEPT !.cells[op.sheet] = FoldLeft(Put, @, SetToSeq(DOMAIN op.matrix))]
session_apply_ops(d, request) ==
    LET ok == validate_ops(d, request)
    IN  [doc |-> IF ok THEN FoldLeft(session_write, d, request.ops) ELSE d, commits |-> ok,
         answer |-> [status |-> IF ok THEN "applied" ELSE "error",
                     results |-> IF ok THEN [i \in 1..Len(request.ops) |-> "applied"] ELSE << >>, changes |-> NoChanges]]

(***************************************************************************)
(* The name tools on the work file of a fork (tools/mod.rs).               *)
(***************************************************************************)
Defines(list, name) == \E i \in 1..Len(list) : list[i].name = name
\* The sheets whose list has the name, in order; a given sheet restricts them.
SheetsDefining(d, op) ==
    SelectSeq(d.order, LAMBDA s : Defines(d.locals[s], op.name) /\ (op.sheet = "" \/ s = op.sheet))
define_name_in_file(d, op) ==
    IF op.scope = "sheet"
    THEN IF op.sheet \in Sheets(d)
         THEN Ok([d EXCEPT !.locals[op.sheet] = Append(@, [name |-> op.name, ref |-> <<op.ref>>])]) ELSE Err(d)
    ELSE Ok([d EXCEPT !.names = Append(@, [name |-> op.name, ref |-> <<op.ref>>])])
\* The first list with the name; its entries of the name are replaced by one.
InFirstList(d, op, Op(_)) ==
    LET shared == op.scope # "sheet" /\ Defines(d.names, op.name)
        found == IF op.scope = "workbook" THEN << >> ELSE SheetsDefining(d, op)
    IN  IF shared THEN Ok([d EXCEPT !.names = Op(@)])
        ELSE IF found = << >> THEN Err(d) ELSE Ok([d EXCEPT !.locals[found[1]] = Op(@)])
update_name_in_file(d, op) ==
    InFirstList(d, op, LAMBDA list : IF op.ref = "" THEN list
                                     ELSE Append(SelectSeq(list, LAMBDA x : x.name # op.name), [name |-> op.name, ref |-> <<op.ref>>]))
delete_name_in_file(d, op) ==
    InFirstList(d, op, LAMBDA list : SelectSeq(list, LAMBDA x : x.name # op.name))
name_in_file(d, op) ==
    LET o == CASE op.kind = "define_name" -> define_name_in_file(d, op)
               [] op.kind = "update_name" -> update_name_in_file(d, op)
               [] op.kind = "delete_name" -> delete_name_in_file(d, op)
    IN  [doc |-> o.doc, commits |-> o.ok,
         answer |-> [status |-> IF o.ok THEN "applied" ELSE "error",
                     results |-> IF o.ok THEN <<"applied">> ELSE << >>, changes |-> NoChanges]]

----------------------------------------------------------------------------
NoAnswer == [status |-> "none", results |-> << >>, changes |-> NoChanges]

Init ==
    /\ doc \in WriteDocs
    /\ rev = 1
    /\ \E b \in WriteDocs : base = [doc |-> b, rev |-> IF b = doc THEN 1 ELSE 0]
    /\ last = [path |-> "none", request |-> [ops |-> << >>, mode |-> "preview", atomic |-> TRUE, policy |-> "off"],
               doc |-> doc, rev |-> 1]
    /\ answer = NoAnswer
    /\ writes = 0

Settle(path, request, outcome) ==
    /\ writes < MaxWrites
    /\ writes' = writes + 1
    /\ last' = [path |-> path, request |-> request, doc |-> doc, rev |-> rev]
    /\ answer' = outcome.answer
    /\ doc' = outcome.doc
    /\ rev' = IF outcome.commits THEN rev + 1 ELSE rev
    /\ UNCHANGED base

\* A request for another revision, or one that is malformed, is refused.
Refuse(request, expected) ==
    /\ expected # rev \/ ~validate_request(request)
    /\ Settle("refused", request, [doc |-> doc, commits |-> FALSE, answer |-> [NoAnswer EXCEPT !.status = "refused"]])
ExecuteWrite(request) ==
    /\ validate_request(request)
    /\ Settle("general", request, execute_write_transaction(doc, request))
PrepareResident(request) ==
    /\ validate_request(request)
    /\ Settle("resident", request, prepare_resident_transaction(doc, request))
MutateBatch(request) ==
    /\ Mutates(request) /\ request.mode # "stage"
    /\ Settle("mutate", request, mutate_batch(doc, request))
NameInFile(request) ==
    /\ request.mode = "apply" /\ Len(request.ops) = 1 /\ request.ops[1].kind \in NameKinds
    /\ Settle("names", request, name_in_file(doc, request.ops[1]))
SessionApply(request) ==
    /\ request.mode = "apply" /\ \A op \in ToSet(request.ops) : op.kind = "write_matrix"
    /\ Settle("session", request, session_apply_ops(doc, request))

Next ==
    \E request \in Requests :
        \/ Refuse(request, rev) \/ Refuse(request, rev - 1)
        \/ ExecuteWrite(request)
        \/ PrepareResident(request)
        \/ MutateBatch(request)
        \/ SessionApply(request)
        \/ NameInFile(request)

Spec == Init /\ [][Next]_vars

----------------------------------------------------------------------------
Canonical == last.path \in {"general", "resident"}
General == execute_write_transaction(last.doc, last.request)

\* The path a request takes is not seen in what it does: the touched cells of a
\* resident session give the document, the results and the changed cells of the
\* general transaction, and so does staging; a request that the canonical write accepts
\* and mutate_batch carries out does the same there, and so do matrices in a session's
\* apply_ops and names in the work file of a fork.  What the canonical write refuses, a
\* formula that does not parse, mutate_batch writes ("off") or leaves out ("warn").
\* (prepare_common_transaction, prepare_snapshot_transaction, mutate_batch,
\* WorkbookSession::apply_ops, update_name_in_file).
PathsAgree ==
    /\ last.path = "resident" /\ Cardinality(UNION {DOMAIN op.matrix : op \in {o \in ToSet(last.request.ops) : o.kind \in CommonKinds}}) <= MaxTouched
         => doc = General.doc /\ answer = General.answer
    /\ last.path = "mutate" /\ answer.status = "applied" /\ last.request.mode = "apply" /\ validate_request(last.request) =>
         doc = execute_write_transaction(last.doc, [last.request EXCEPT !.atomic = TRUE]).doc
    /\ last.path \in {"session", "names"} => doc = execute_write_transaction(last.doc, [last.request EXCEPT !.atomic = TRUE, !.policy = "off"]).doc

\* An answer says what became of the document: the operations it calls applied, in
\* their order, are the whole of the difference, nothing at all when it says
\* rolled back, previewed, staged or failed; a preview foretells the changes of the
\* application; a changed document has a new revision (canonical_response_from_prepared).
\* In mutate_batch the operations called applied are the difference once the formulas
\* its diagnostics name are taken out of them; an error says nothing of the formulas
\* left out before it, so with "warn" it explains only operations whose formulas parse.
AnswerExplainsDocument ==
    LET kept == SelectSeq([i \in 1..Len(answer.results) |-> IF answer.results[i] = "applied" THEN i ELSE 0], LAMBDA i : i > 0)
        done == [last.request EXCEPT !.ops = [i \in 1..Len(kept) |-> last.request.ops[kept[i]]]]
    IN  /\ Canonical /\ answer.status \in {"applied", "partial"} =>
             /\ doc = apply_atomic_candidate(last.doc, done).doc
             /\ answer.changes = diff_bytes(last.doc, doc)
        /\ Canonical /\ answer.status \notin {"applied", "partial"} => doc = last.doc
        /\ Canonical /\ answer.status \in {"previewed", "staged"} =>
             answer.changes = execute_write_transaction(last.doc, [last.request EXCEPT !.mode = "apply"]).answer.changes
        /\ last.path = "mutate" /\ last.request.mode # "apply" => doc = last.doc
        /\ last.path = "mutate" /\ last.request.mode = "apply"
           /\ (answer.status = "applied" \/ last.request.policy # "warn" \/ BadFormulas(done.ops) = {}) =>
             doc = apply_atomic_candidate(last.doc, [done EXCEPT !.ops = Without(@, answer.diagnostics)]).doc
        /\ doc # last.doc => rev # last.rev

Content(d, s, p) == IF s \in Sheets(d) THEN LET c == CellAt(d, s, p) IN [v |-> c.v, f |-> c.f] ELSE [v |-> "", f |-> ""]
Blank == [v |-> "", f |-> ""]
DiffFilters ==
    {[sheets |-> {}, range |-> {}, direct |-> TRUE], [sheets |-> {"S"}, range |-> {<<1, 1>>, <<1, 2>>}, direct |-> FALSE]}
\* The changes between two workbooks are exactly the cells that differ, each with what
\* it was and what it is, although texts are stored as numbers of a shared table and
\* unchanged parts are passed over (calculate_changeset_archives); the groups of the
\* diff command hold each change once (build_groups), and its filters leave out what
\* they name and nothing else (diff).
DiffIsExact ==
    LET b == base.doc
        changes == calculate_changeset(Saved(b), Saved(doc))
        places  == UNION {{<<s, p>> : p \in DOMAIN (IF s \in Sheets(b) THEN b.cells[s] ELSE doc.cells[s])
                                            \cup DOMAIN (IF s \in Sheets(doc) THEN doc.cells[s] ELSE b.cells[s])} :
                            s \in Sheets(b) \cup Sheets(doc)}
        old(k) == Content(b, k[1], k[2])
        new(k) == Content(doc, k[1], k[2])
        same(k) == /\ old(k).f = new(k).f /\ values_equal(old(k).v, new(k).v)
                   /\ \/ old(k) = Blank
                      \/ CellAt(b, k[1], k[2]).st = CellAt(doc, k[1], k[2]).st
        groups == build_groups(changes)
        computed(k) == old(k).f # "" /\ old(k).f = new(k).f /\ ~values_equal(old(k).v, new(k).v)
    IN  /\ ChangedCells(changes) = {k \in places : ~same(k)}
        /\ \A s \in DOMAIN changes.cells : \A i \in 1..Len(changes.cells[s]) :
               LET c == changes.cells[s][i]
                   k == <<s, c.at>>
               IN  /\ c.new = new(k).v /\ c.newf = new(k).f /\ c.old = old(k).v
                   /\ c.type = IF old(k) = Blank THEN "added" ELSE IF new(k) = Blank THEN "deleted" ELSE "modified"
                   /\ Cardinality({g \in groups : g.sheet = s /\ g.type = GroupType(c) /\ c.at \in g.cells}) = 1
        /\ \A filter \in DiffFilters :
               LET shown == diff(Saved(b), Saved(doc), filter)
               IN  /\ ChangedCells(shown.changes) =
                          {k \in ChangedCells(changes) :
                              /\ filter.sheets # {} => k[1] \in filter.sheets
                              /\ filter.range # {} => k[2] \in filter.range
                              /\ filter.direct => ~computed(k)}
                   /\ shown.total = MapThenSumSet(LAMBDA g : g.count, shown.groups)

VerifyOptions ==
    {options \in [targets : {{}, {<<"S", <<1, 1>>>>, <<"S", <<2, 1>>>>}}, sheet : {"", "S"}, named : BOOLEAN,
                  errors_only : BOOLEAN, targets_only : BOOLEAN] : validate(options)}
\* What a name stands for on a sheet
Meaning(d, n, s) ==
    LET mine == SelectSeq(NameList(d), LAMBDA x : x.name = n /\ x.scope # 0 /\ d.order[x.scope] = s)
        shared == SelectSeq(NameList(d), LAMBDA x : x.name = n /\ x.scope = 0)
        list == IF mine = << >> THEN shared ELSE mine
    IN  IF list = << >> THEN << >> ELSE list[Len(list)].ref
\* A comparison that says "proved" is one: the targets, the error cells, the names
\* and the tables asked about are those of the baseline once both workbooks are
\* calculated, and it makes no difference that a revision compared with itself is
\* calculated once (compare_workbooks_with_coverage, can_reuse_verification_evaluation,
\* verify_workbook_bytes).
ProvedMeansSame ==
    LET now == [doc |-> doc, rev |-> rev]
        b == evaluate_workbook_for_verification(base.doc).doc
        c == evaluate_workbook_for_verification(doc).doc
    IN  \A options \in VerifyOptions :
        LET bytes == verify_workbook_bytes(base, now, options)
            tool == verify_workbook(base, now, options)
            failing(d) == {<<s, p>> \in Sheets(d) \X ((1..3) \X (1..3)) :
                              Content(d, s, p).v \in Errors /\ (options.sheet # "" => s = options.sheet)}
        IN  /\ "proved" \in {bytes, tool} =>
                /\ \A t \in options.targets : Content(b, t[1], t[2]) = Content(c, t[1], t[2])
                /\ ~options.targets_only =>
                     /\ failing(b) = failing(c)
                     /\ \A k \in failing(b) : Content(b, k[1], k[2]) = Content(c, k[1], k[2])
            /\ bytes = "proved" /\ options.named =>
                /\ \A n \in {x.name : x \in ToSet(NameList(b)) \cup ToSet(NameList(c))}, s \in Sheets(b) \cap Sheets(c) :
                      Meaning(b, n, s) = Meaning(c, n, s)
                /\ b.tables = c.tables
            /\ ~(options.named /\ options.sheet # "") => tool = bytes

Calculation(d) == [cells |-> [s \in Sheets(d) |-> [p \in Stored(d, s) |-> Content(d, s, p)]], names |-> d.names]
\* Values survive a request that only changes how the workbook looks, so keeping them
\* is right; such an operation given twice is given once, but for a print area
\* (calculation_effect_for_ops, add_conditional_format).
PresentationKeepsCalculation ==
    Canonical /\ answer.status \in {"applied", "partial"} /\ calculation_effect_for_ops(last.request, answer.results) = "preserve" =>
        /\ Calculation(doc) = Calculation(last.doc)
        /\ \A i \in 1..Len(answer.results) :
              answer.results[i] = "applied" /\ last.request.ops[i].kind # "set_print_area" =>
                  LET once  == apply_write_op_to_workbook(last.doc, last.request.ops[i], last.request.policy).doc
                  IN  apply_write_op_to_workbook(once, last.request.ops[i], last.request.policy).doc = once
=============================================================================
