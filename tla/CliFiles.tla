------------------------------ MODULE CliFiles ------------------------------
(***************************************************************************)
(* The command line's writes to workbook files (cli/commands/write.rs,     *)
(* cli/commands/recalc.rs, cli/mod.rs): processes that run one command     *)
(* each on the files of a directory, system call by system call, with      *)
(* failing calls, kills and power loss.  There are three ways to a file:   *)
(*   staged   copy the source to a temporary file, apply, fsync, rename,   *)
(*            fsync the directory;                                         *)
(*   machine  apply a canonical operation to a private fork, copy the      *)
(*            fork to a temporary file, rename;                            *)
(*   direct   write the file itself.                                       *)
(* A workbook is the set of commands whose effect it contains.             *)
(***************************************************************************)
EXTENDS Naturals, Sequences, FiniteSets, SequencesExt

CONSTANTS
    Procs,          \* processes, one command each
    Calls,          \* per behaviour: the command line of each process
    Initially,      \* the files present at the start
    MaxFaults       \* bound: failing calls, kills and power losses

Paths == {"src", "out"}
None == "none"

VARIABLES
    call,       \* per process: its command line
    pc,         \* per process: the step it has reached
    inode,      \* the files: content, whether it is complete and on disk
    dir,        \* the directory: path -> file, 0 when there is none
    might,      \* per path: the entries a power loss may leave
    temp,       \* per process: its temporary file
    seen,       \* per process: the content its operations were resolved against
    based,      \* per process: the content it applies them to
    found,      \* per process: whether its target existed when it looked
    outcome,    \* per process: what it reported
    log,        \* observer: per path, the entries it had, in order
    unasked,    \* observer: processes that replaced a file they were not asked to
    faults

files == <<inode, dir, might>>
observers == <<log, unasked>>
vars == <<call, pc, files, temp, seen, based, found, outcome, observers, faults>>

----------------------------------------------------------------------------
(* The commands.                                                           *)

\* validate_edit_mode: in place unless said otherwise
validate_edit_mode(c) ==
    IF (c.force /\ c.output = None) \/ (c.dry /\ (c.inPlace \/ c.output # None))
          \/ (c.inPlace /\ c.output # None)
       THEN "invalid"
       ELSE IF c.dry THEN "dry_run" ELSE IF c.output # None THEN "output" ELSE "in_place"

\* validate_batch_mode: one mode must be chosen
validate_batch_mode(c) ==
    IF ~c.dry /\ ~c.inPlace /\ c.output = None THEN "invalid" ELSE validate_edit_mode(c)

\* The flags of a canonical operation on a bound file; `dry` is mode preview
machine_mode(c) ==
    IF (c.dry /\ (c.output # None \/ c.inPlace \/ c.force)) \/ (c.force /\ c.output = None)
          \/ (~c.dry /\ (c.output # None) = c.inPlace)
       THEN "invalid"
       ELSE IF c.dry THEN "dry_run" ELSE IF c.inPlace THEN "in_place" ELSE "output"

\* What tells the staged commands apart: how the mode is chosen, whether the
\* operations are resolved against the workbook before it is copied, where a
\* formula that does not parse is dealt with, whether --output may be the
\* source, and the counters whose increase is reported as a change.
Staged(mode, resolves, parses, distinct, keys) ==
    [way |-> "staged", mode |-> mode, resolves |-> resolves, parses |-> parses,
     distinct |-> distinct, keys |-> keys]

edit == Staged("edit", FALSE, "before", TRUE, {"edit"})
transform_batch == Staged("batch", TRUE, "before", TRUE, {"value", "formula"})
replace_in_formulas == Staged("batch", FALSE, "while", TRUE, {"formula"})
range_import == Staged("batch", FALSE, "while", TRUE, {"value", "formula", "merge", "style", "width"})
style_batch == Staged("batch", TRUE, "never", TRUE, {"style"})
apply_formula_pattern == Staged("batch", FALSE, "never", TRUE, {"formula"})
structure_batch ==
    Staged("batch", FALSE, "while", TRUE, {"rows", "cols", "sheets", "range"})
column_size_batch == Staged("batch", FALSE, "never", TRUE, {"width"})
sheet_layout_batch == Staged("batch", FALSE, "never", TRUE, {"layout"})
rules_batch == Staged("batch", FALSE, "while", TRUE, {"validation", "conditional_format"})
define_name == Staged("edit", FALSE, "never", FALSE, {"name"})
update_name == define_name
delete_name == define_name

\* `asp op write` and the commands that build such a request from their flags
canonical_write == [way |-> "machine", distinct |-> TRUE]
append_region == canonical_write
clone_template_row == canonical_write
clone_row_band == canonical_write
recalculate == [way |-> "recalc", distinct |-> TRUE]
create_workbook == [way |-> "direct", checks |-> TRUE]
copy == [way |-> "direct", checks |-> FALSE]
render == [way |-> "direct", checks |-> TRUE]

Command(c) ==
    CASE c.cmd = "edit" -> edit
      [] c.cmd = "transform_batch" -> transform_batch
      [] c.cmd = "replace_in_formulas" -> replace_in_formulas
      [] c.cmd = "range_import" -> range_import
      [] c.cmd = "style_batch" -> style_batch
      [] c.cmd = "apply_formula_pattern" -> apply_formula_pattern
      [] c.cmd = "structure_batch" -> structure_batch
      [] c.cmd = "column_size_batch" -> column_size_batch
      [] c.cmd = "sheet_layout_batch" -> sheet_layout_batch
      [] c.cmd = "rules_batch" -> rules_batch
      [] c.cmd = "define_name" -> define_name
      [] c.cmd = "update_name" -> update_name
      [] c.cmd = "delete_name" -> delete_name
      [] c.cmd = "canonical_write" -> canonical_write
      [] c.cmd = "append_region" -> append_region
      [] c.cmd = "clone_template_row" -> clone_template_row
      [] c.cmd = "clone_row_band" -> clone_row_band
      [] c.cmd = "recalculate" -> recalculate
      [] c.cmd = "create_workbook" -> create_workbook
      [] c.cmd = "copy" -> copy
      [] c.cmd = "render" -> render

Way(p) == Command(call[p]).way
ModeOf(c) ==
    LET d == Command(c)
    IN  CASE d.way = "staged" -> IF d.mode = "edit" THEN validate_edit_mode(c) ELSE validate_batch_mode(c)
          [] d.way = "machine" -> machine_mode(c)
          [] d.way = "recalc" ->
                IF c.force /\ c.output = None THEN "invalid"
                ELSE IF c.output = None THEN "in_place" ELSE "output"
          [] d.way = "direct" -> "output"
Mode(p) == ModeOf(call[p])
Target(p) == IF Mode(p) = "in_place" THEN "src" ELSE call[p].output

\* The operations left once those with an unusable formula were dropped
Kept(c) == {o \in ToSet(c.ops) : c.policy = "off" \/ Command(c).parses = "never" \/ ~o.bad}
Refuses(c) == c.policy = "fail" /\ Command(c).parses # "never" /\ \E o \in ToSet(c.ops) : o.bad
\* *_summary_indicates_change: the counters that count as a change
Changed(c) == \E o \in Kept(c) : o.kind \in Command(c).keys

\* Operations whose counters no summary looks at (cells_merged, cells_unmerged).
Uncounted == {"merge"}

\* What the argument parser lets through: a command it knows, flags, a path where
\* the command requires one, and operations of the kinds the command has
WellFormed(c) ==
    /\ Command(c).way \in {"staged", "machine", "recalc", "direct"}
    /\ {c.dry, c.inPlace, c.force} \subseteq BOOLEAN /\ c.output \in Paths \cup {None}
    /\ Command(c).way = "direct" => c.output # None
    /\ Command(c).way = "staged" => \A o \in ToSet(c.ops) : o.kind \in Command(c).keys \cup Uncounted

----------------------------------------------------------------------------
Empty == [doc |-> {}, whole |-> FALSE, synced |-> FALSE]
Content(path) == inode[dir[path]].doc
Exists(path) == dir[path] # 0
Readable(path) == Exists(path) /\ inode[dir[path]].whole

Init ==
    /\ call \in Calls
    /\ pc = [p \in Procs |-> "begin"]
    /\ \E present \in Initially :
          /\ dir = [t \in Paths |-> IF t = "src" THEN 1 ELSE IF present THEN 2 ELSE 0]
          /\ inode = <<[doc |-> {}, whole |-> TRUE, synced |-> TRUE],
                       [doc |-> {0}, whole |-> TRUE, synced |-> TRUE]>>  \* 0: another workbook
    /\ might = [t \in Paths |-> {dir[t]}]
    /\ log = [t \in Paths |-> <<dir[t]>>]
    /\ temp = [p \in Procs |-> 0]
    /\ seen = [p \in Procs |-> {}] /\ based = [p \in Procs |-> {}]
    /\ found = [p \in Procs |-> FALSE]
    /\ outcome = [p \in Procs |-> None]
    /\ unasked = {} /\ faults = 0

Goto(p, l) == pc' = [pc EXCEPT ![p] = l] /\ UNCHANGED outcome
Return(p, o) == pc' = [pc EXCEPT ![p] = "done"] /\ outcome' = [outcome EXCEPT ![p] = o]
Drop(p) == temp' = [temp EXCEPT ![p] = 0]
NewFile(content) == Append(inode, [doc |-> content, whole |-> TRUE, synced |-> FALSE])
Write(f, content) == [inode EXCEPT ![f] = [doc |-> content, whole |-> TRUE, synced |-> FALSE]]
\* The entry of a path changes: until the directory is synced a power loss
\* may leave it or any earlier one since the last sync
Enter(t, f) ==
    /\ dir' = [dir EXCEPT ![t] = f]
    /\ might' = [might EXCEPT ![t] = @ \cup {f}]
    /\ log' = [log EXCEPT ![t] = Append(@, f)]
Unasked(p) == Exists(Target(p)) /\ Mode(p) # "in_place" /\ ~call[p].force

----------------------------------------------------------------------------
(* The staged way.                                                         *)

\* normalize_existing_file, the mode, the payload, the formula policy
Begin(p) ==
    /\ pc[p] = "begin"
    /\ IF \/ (call[p].cmd \notin {"create_workbook"} /\ ~Exists("src")) \/ Mode(p) = "invalid"
          \/ (Way(p) = "staged" /\ Command(call[p]).parses = "before" /\ Refuses(call[p]))
       THEN Return(p, "refused")
       ELSE Goto(p, CASE Way(p) = "staged" /\ Command(call[p]).resolves -> "resolve"
                      [] Way(p) = "staged" -> "check"
                      [] Way(p) = "machine" -> "hash"
                      [] Way(p) = "recalc" -> IF Mode(p) = "output" THEN "check" ELSE "rewrite"
                      [] Way(p) = "direct" -> "direct")
    /\ UNCHANGED <<files, temp, seen, based, found, observers, faults>>

\* open_state_for_file and resolve_*_ops_for_workbook; the workbook is closed
\* again before it is copied
Resolve(p) ==
    /\ pc[p] = "resolve"
    /\ IF Readable("src") THEN Goto(p, "check") /\ seen' = [seen EXCEPT ![p] = Content("src")]
       ELSE Return(p, "refused") /\ UNCHANGED seen
    /\ UNCHANGED <<files, temp, based, found, observers, faults>>

\* ensure_output_path_is_distinct and the first look at the output path
Check(p) ==
    /\ pc[p] = "check"
    /\ IF /\ Mode(p) = "output"
          /\ (Command(call[p]).distinct /\ call[p].output = "src") \/ Unasked(p)
       THEN Return(p, "refused") ELSE Goto(p, "stage")
    /\ found' = [found EXCEPT ![p] = Mode(p) = "output" /\ Exists(Target(p))]
    /\ UNCHANGED <<files, temp, seen, based, observers, faults>>

\* apply_to_temp_copy: a temporary file beside the target, a copy of the source
Stage(p) ==
    /\ pc[p] = "stage"
    /\ Exists("src")
    /\ inode' = Append(inode, [inode[dir["src"]] EXCEPT !.synced = FALSE])
    /\ temp' = [temp EXCEPT ![p] = Len(inode) + 1]
    /\ based' = [based EXCEPT ![p] = Content("src")]
    /\ Goto(p, "apply")
    /\ UNCHANGED <<dir, might, seen, found, observers, faults>>

\* apply_fn on the copy; an error drops the temporary file
Apply(p) ==
    /\ pc[p] = "apply"
    /\ IF ~inode[temp[p]].whole \/ (Way(p) = "staged" /\ Refuses(call[p]))
       THEN Return(p, "failed") /\ Drop(p) /\ UNCHANGED inode
       ELSE /\ inode' = Write(temp[p], based[p] \cup (IF Kept(call[p]) = {} THEN {} ELSE {p}))
            /\ Goto(p, IF Way(p) = "recalc" THEN "remove" ELSE "fsync")
            /\ UNCHANGED temp
    /\ UNCHANGED <<dir, might, seen, based, found, observers, faults>>

\* Mutant: the temporary file is renamed without being synced.
SyncNothing(p) ==
    /\ pc[p] = "fsync"
    /\ IF Mode(p) = "dry_run" THEN Return(p, "ok") /\ Drop(p)
       ELSE Goto(p, "replace") /\ UNCHANGED temp
    /\ UNCHANGED <<files, seen, based, found, observers, faults>>

\* fsync_file; a dry run ends here and drops its temporary file
Sync(p) ==
    /\ pc[p] = "fsync"
    /\ inode' = [inode EXCEPT ![temp[p]].synced = TRUE]
    /\ IF Mode(p) = "dry_run" THEN Return(p, "ok") /\ Drop(p)
       ELSE Goto(p, "replace") /\ UNCHANGED temp
    /\ UNCHANGED <<dir, might, seen, based, found, observers, faults>>

\* atomic_replace_target: rename, or persist_noclobber without --force
Replace(p) ==
    /\ pc[p] = "replace"
    /\ IF Unasked(p)
       THEN Return(p, "refused") /\ Drop(p) /\ UNCHANGED <<dir, might, log>>
       ELSE Enter(Target(p), temp[p]) /\ Goto(p, "fsync_dir") /\ UNCHANGED temp
    /\ UNCHANGED <<inode, seen, based, found, unasked, faults>>

\* fsync_directory
SyncDir(p) ==
    /\ pc[p] = "fsync_dir"
    /\ might' = [t \in Paths |-> {dir[t]}]
    /\ Return(p, "ok")
    /\ UNCHANGED <<inode, dir, temp, seen, based, found, observers, faults>>

----------------------------------------------------------------------------
(* The machine way (run_machine_operation, execute_human_canonical_write). *)

\* The revision the request names is the hash of the file at some moment
Hash(p) ==
    /\ pc[p] = "hash"
    /\ seen' = [seen EXCEPT ![p] = IF Readable("src") THEN Content("src") ELSE {}]
    /\ Goto(p, "fork")
    /\ UNCHANGED <<files, temp, based, found, observers, faults>>

\* open_fork_state_for_file and execute_operation_json: a private copy, then
\* the write, unless the copy is not the revision the request names
Execute(p) ==
    /\ pc[p] = "fork"
    /\ IF ~Readable("src") \/ Content("src") # seen[p] \/ Refuses(call[p])
       THEN Return(p, "refused") /\ UNCHANGED based
       ELSE /\ based' = [based EXCEPT ![p] = Content("src")]
            /\ IF Mode(p) = "dry_run" THEN Return(p, "ok") ELSE Goto(p, "export_check")
    /\ UNCHANGED <<files, temp, seen, found, observers, faults>>

\* The export of the fork: looks at the target, a temporary copy that is kept ...
ExportCheck(p) ==
    /\ pc[p] = "export_check"
    /\ IF (Mode(p) = "output" /\ (call[p].output = "src" \/ Unasked(p)))
          \/ (Mode(p) = "in_place" /\ ~Exists("src"))
       THEN Return(p, "refused") /\ UNCHANGED <<inode, temp>>
       ELSE /\ inode' = NewFile(based[p] \cup {p})
            /\ temp' = [temp EXCEPT ![p] = Len(inode) + 1]
            /\ Goto(p, "export")
    /\ found' = [found EXCEPT ![p] = Exists(Target(p))]
    /\ UNCHANGED <<dir, might, seen, based, observers, faults>>

\* ... and its rename, which replaces whatever is there by now
Export(p) ==
    /\ pc[p] = "export"
    /\ Enter(Target(p), temp[p])
    /\ unasked' = unasked \cup (IF Unasked(p) THEN {p} ELSE {})
    /\ Return(p, "ok")
    /\ UNCHANGED <<inode, temp, seen, based, found, faults>>

----------------------------------------------------------------------------
(* recalculate, create_workbook, copy, render.                             *)

\* An existing output is removed before the recalculated copy is moved
RemoveOutput(p) ==
    /\ pc[p] = "remove"
    /\ IF found[p] /\ ~Exists(Target(p))
       THEN Return(p, "failed") /\ Drop(p) /\ UNCHANGED <<dir, might, log>>
       ELSE /\ Goto(p, "persist") /\ UNCHANGED temp
            /\ IF found[p] THEN Enter(Target(p), 0) ELSE UNCHANGED <<dir, might, log>>
    /\ UNCHANGED <<inode, seen, based, found, unasked, faults>>

Persist(p) ==
    /\ pc[p] = "persist"
    /\ Enter(Target(p), temp[p])
    /\ unasked' = unasked \cup (IF Unasked(p) THEN {p} ELSE {})
    /\ Return(p, "ok")
    /\ UNCHANGED <<inode, temp, seen, based, found, faults>>

\* In place the evaluator reads the file and saves over it
Rewrite(p) ==
    /\ pc[p] = "rewrite"
    /\ IF ~Readable("src") THEN Return(p, "failed") /\ UNCHANGED <<inode, based, temp>>
       ELSE /\ based' = [based EXCEPT ![p] = Content("src")]
            /\ temp' = [temp EXCEPT ![p] = dir["src"]]
            /\ inode' = [inode EXCEPT ![dir["src"]] = Empty]
            /\ Goto(p, "rewritten")
    /\ UNCHANGED <<dir, might, seen, found, observers, faults>>

\* create_workbook, copy_file, write_artifact_bytes: straight to the path
Direct(p) ==
    /\ pc[p] = "direct"
    /\ IF (Command(call[p]).checks /\ Unasked(p)) \/ (call[p].cmd = "copy" /\ ~Readable("src"))
       THEN Return(p, "refused") /\ UNCHANGED <<files, temp, based, log>>
       ELSE /\ based' = [based EXCEPT ![p] = IF call[p].cmd = "copy" THEN Content("src") ELSE {}]
            /\ IF Exists(Target(p))
               THEN /\ inode' = [inode EXCEPT ![dir[Target(p)]] = Empty]
                    /\ temp' = [temp EXCEPT ![p] = dir[Target(p)]]
                    /\ UNCHANGED <<dir, might, log>>
               ELSE /\ inode' = Append(inode, Empty)
                    /\ temp' = [temp EXCEPT ![p] = Len(inode) + 1]
                    /\ Enter(Target(p), Len(inode) + 1)
            /\ Goto(p, "rewritten")
    /\ UNCHANGED <<seen, found, unasked, faults>>

Rewritten(p) ==
    /\ pc[p] = "rewritten"
    /\ inode' = Write(temp[p], based[p] \cup (IF call[p].cmd = "copy" THEN {} ELSE {p}))
    /\ Return(p, "ok")
    /\ UNCHANGED <<dir, might, temp, seen, based, found, observers, faults>>

----------------------------------------------------------------------------
(* Faults.                                                                 *)

\* A system call fails: the temporary file is dropped; after the rename the
\* command fails although its file is in place
IoError(p) ==
    /\ faults < MaxFaults /\ faults' = faults + 1
    /\ pc[p] \in {"stage", "apply", "fsync", "replace", "fsync_dir", "export", "remove", "persist"}
    /\ Return(p, "failed")
    /\ IF pc[p] = "fsync_dir" THEN UNCHANGED temp ELSE Drop(p)
    /\ UNCHANGED <<files, seen, based, found, observers>>

Kill(p) ==
    /\ faults < MaxFaults /\ faults' = faults + 1
    /\ pc[p] \notin {"begin", "done"}
    /\ Return(p, "killed")
    /\ UNCHANGED <<files, temp, seen, based, found, observers>>

\* Every process dies; each path keeps one of the entries it might have, and
\* a file that was not synced may have lost content
PowerLoss ==
    /\ faults < MaxFaults /\ faults' = faults + 1
    /\ \E p \in Procs : pc[p] \notin {"begin"}
    /\ pc' = [p \in Procs |-> "done"]
    /\ outcome' = [p \in Procs |-> IF outcome[p] = None THEN "killed" ELSE outcome[p]]
    /\ dir' \in [Paths -> UNION {might[t] : t \in Paths}] /\ \A t \in Paths : dir'[t] \in might[t]
    /\ might' = [t \in Paths |-> {dir'[t]}]
    /\ \E lost \in SUBSET {f \in DOMAIN inode : ~inode[f].synced} :
          inode' = [f \in DOMAIN inode |-> [inode[f] EXCEPT !.whole = @ /\ f \notin lost, !.synced = TRUE]]
    /\ UNCHANGED <<temp, seen, based, found, observers>>

Step(p) ==
    \/ Begin(p) \/ Resolve(p) \/ Check(p) \/ Stage(p) \/ Apply(p) \/ Sync(p) \/ Replace(p) \/ SyncDir(p)
    \/ Hash(p) \/ Execute(p) \/ ExportCheck(p) \/ Export(p)
    \/ RemoveOutput(p) \/ Persist(p) \/ Rewrite(p) \/ Direct(p) \/ Rewritten(p)

Next ==
    /\ \/ \E p \in Procs : Step(p) \/ IoError(p) \/ Kill(p)
       \/ PowerLoss
    /\ UNCHANGED call

Spec == Init /\ [][Next]_vars

----------------------------------------------------------------------------
(* Properties.                                                             *)

\* Files written by other means than the staged way: straight to their path,
\* or renamed without having been synced before a power loss.
Exposed(f) ==
    \E q \in Procs :
        /\ temp[q] = f
        /\ Way(q) = "direct" \/ (Way(q) = "recalc" /\ Mode(q) = "in_place")
           \/ (Way(q) # "staged" /\ inode[f].synced)

\* What a staged command (--in-place included) puts at a path is complete at every
\* moment and after every failure, kill and power loss (apply_to_temp_copy,
\* fsync_file, atomic_replace_target).  Not so the exposed files: one written
\* straight to its path or recalculated in place may be found half written, and one
\* renamed by a machine operation or a recalculation, which sync nothing, half there
\* after a power loss.  `recalculate --output --force` removes the old file before the
\* rename, so for a moment, or for good when the rename fails, there is none.
FilesStayWhole ==
    \A t \in Paths : Exists(t) /\ ~Exposed(dir[t]) => inode[dir[t]].whole

\* A staged command that reported success can be relied on: after a power loss
\* its file, or one that was put there later, is at the path (fsync_directory).
ReportedWriteSurvives ==
    \A p \in Procs :
        outcome[p] = "ok" /\ Way(p) = "staged" /\ Mode(p) # "dry_run" =>
            \E i, j \in DOMAIN log[Target(p)] :
                /\ log[Target(p)][i] = temp[p] /\ i <= j
                /\ log[Target(p)][j] = dir[Target(p)]

\* Without --force and --in-place a staged command replaces no existing file, even
\* one that appeared after the first look (persist_noclobber).  A machine operation
\* and a recalculation do replace such a late file, but none that was there at the
\* first look.
NothingReplacedUnasked ==
    \A p \in unasked : Way(p) \in {"machine", "recalc"} /\ ~found[p]

\* What a command says about the files is true: a dry run or preview leaves
\* neither a file nor a temporary file behind; a canonical write that succeeded
\* was applied to the revision it named, whatever other processes did to the
\* file meanwhile; and `changed: false` means an unchanged workbook, unless the
\* batch merged or unmerged cells, which are not counted.  A file that was exposed
\* since may hold anything.
AnswersMatchTheFiles ==
    /\ \A p \in Procs : Mode(p) = "dry_run" =>
          /\ \A t \in Paths : Exists(t) => p \notin Content(t)
          /\ pc[p] = "done" /\ outcome[p] # "killed" => temp[p] = 0
    /\ \A p \in Procs : Way(p) = "machine" /\ outcome[p] = "ok" /\ Mode(p) # "dry_run" =>
          inode[temp[p]].doc = seen[p] \cup {p} \/ Exposed(temp[p])
    /\ \A p \in Procs : Way(p) = "staged" /\ outcome[p] = "ok" /\ Mode(p) # "dry_run" =>
          \/ Changed(call[p]) \/ inode[temp[p]].doc = based[p] \/ Exposed(temp[p])
          \/ \E o \in Kept(call[p]) : o.kind \in Uncounted
----------------------------------------------------------------------------
(* Why it works: the inductive invariant of the proofs.                     *)

Docs == SUBSET (Procs \cup {0})
Files == [doc : Docs, whole : BOOLEAN, synced : BOOLEAN]
Early == {"begin", "resolve", "check", "stage", "hash", "fork", "export_check", "rewrite", "direct"}
Private == {"apply", "fsync", "replace", "export", "remove", "persist"}
Steps == Early \cup Private \cup {"fsync_dir", "rewritten", "done"}

CliTypes ==
    /\ call \in Calls /\ pc \in [Procs -> Steps] /\ inode \in Seq(Files)
    /\ dir \in [Paths -> 0..Len(inode)] /\ might \in [Paths -> SUBSET (0..Len(inode))]
    /\ \A t \in Paths : dir[t] \in might[t]
    /\ temp \in [Procs -> 0..Len(inode)] /\ found \in [Procs -> BOOLEAN]
    /\ seen \in [Procs -> Docs] /\ based \in [Procs -> Docs]
    /\ outcome \in [Procs -> {None, "ok", "refused", "failed", "killed"}]
    /\ log \in [Paths -> Seq(Nat)] /\ unasked \subseteq Procs

\* The three ways do not cross, and a dry run leaves its way before the target
Route(p) ==
    /\ pc[p] \notin {"begin", "done"} => Mode(p) # "invalid"
    /\ pc[p] \in {"resolve", "fsync", "replace", "fsync_dir"} => Way(p) = "staged"
    /\ pc[p] \in {"check", "stage", "apply"} => Way(p) = "staged" \/ (Way(p) = "recalc" /\ Mode(p) = "output")
    /\ pc[p] \in {"hash", "fork", "export_check", "export"} => Way(p) = "machine"
    /\ pc[p] \in {"remove", "persist"} => Way(p) = "recalc" /\ Mode(p) = "output"
    /\ pc[p] = "rewrite" => Way(p) = "recalc" /\ Mode(p) = "in_place"
    /\ pc[p] = "direct" => Way(p) = "direct"
    /\ pc[p] = "rewritten" => Way(p) = "direct" \/ (Way(p) = "recalc" /\ Mode(p) = "in_place")
    /\ pc[p] \in {"replace", "fsync_dir", "export_check", "export"} => Mode(p) # "dry_run"
    /\ outcome[p] # None => pc[p] = "done"
    /\ outcome[p] = "ok" => Mode(p) # "invalid"

\* A temporary file is nobody else's, and under no path, until its rename
TempsApart ==
    \A p \in Procs :
        /\ pc[p] \in Early => temp[p] = 0
        /\ pc[p] = "rewritten" => temp[p] # 0
        /\ pc[p] \in Private =>
              /\ temp[p] # 0 /\ \A t \in Paths : temp[p] \notin might[t]
              /\ \A q \in Procs \ {p} : temp[q] # temp[p]

\* Files that were written over, files that were renamed without a sync
Overwritten(f) ==
    \E q \in Procs : temp[q] = f /\ (Way(q) = "direct" \/ (Way(q) = "recalc" /\ Mode(q) = "in_place"))
Unsynced(f) == \E q \in Procs : temp[q] = f /\ Way(q) # "staged"

\* What may be under a path, now or after a power loss, is whole and on disk, or
\* one of these
Sturdy(f) ==
    \/ Overwritten(f)
    \/ Unsynced(f) /\ (inode[f].whole \/ inode[f].synced)
    \/ inode[f].whole /\ inode[f].synced
EntriesSturdy ==
    /\ \A t \in Paths : \A f \in might[t] : f # 0 => Sturdy(f)
    /\ \A p \in Procs :
          /\ pc[p] \in Private \ {"apply"} => inode[temp[p]].whole
          /\ pc[p] = "replace" => inode[temp[p]].synced

\* The file of p came to its path, and the entry f then or later
CameBefore(p, f) ==
    \E i, j \in DOMAIN log[Target(p)] :
        log[Target(p)][i] = temp[p] /\ i <= j /\ log[Target(p)][j] = f
Reported(p, way) == outcome[p] = "ok" /\ Way(p) = way /\ Mode(p) # "dry_run"
LogsReach ==
    \A p \in Procs :
        /\ pc[p] = "fsync_dir" => CameBefore(p, dir[Target(p)])
        /\ Reported(p, "staged") => \A f \in might[Target(p)] : CameBefore(p, f)

\* The first look stands in for the later ones
LooksStand ==
    /\ \A p \in Procs :
          pc[p] \in {"stage", "apply", "remove", "persist", "export"} /\ Mode(p) = "output" /\ ~call[p].force
             => ~found[p]
    /\ \A p \in unasked : pc[p] = "done" /\ Way(p) \in {"machine", "recalc"} /\ ~found[p]

\* The effect of a dry run is in its own temporary file, and nowhere else
DryRunsApart ==
    \A p \in Procs : Mode(p) = "dry_run" =>
        /\ \A t \in Paths : \A f \in might[t] : f # 0 => p \notin inode[f].doc
        /\ \A q \in Procs \ {p} : temp[q] # 0 => p \notin inode[temp[q]].doc
        /\ \A q \in Procs : p \notin based[q]
        /\ pc[p] = "done" /\ outcome[p] # "killed" => temp[p] = 0

\* A file holds what its command was told, until another writes over it
Delivered(p) ==
    /\ pc[p] = "export_check" => based[p] = seen[p]
    /\ (pc[p] = "export" \/ Reported(p, "machine")) =>
          temp[p] # 0 /\ (inode[temp[p]].doc = seen[p] \cup {p} \/ Overwritten(temp[p]))
    /\ (pc[p] \in {"fsync", "replace", "fsync_dir"} \/ Reported(p, "staged")) =>
          /\ temp[p] # 0
          /\ \/ Changed(call[p]) \/ (\E o \in Kept(call[p]) : o.kind \in Uncounted)
             \/ inode[temp[p]].doc = based[p] \/ Overwritten(temp[p])

CliInv ==
    /\ CliTypes /\ (\A p \in Procs : Route(p)) /\ TempsApart /\ EntriesSturdy /\ LogsReach
    /\ LooksStand /\ DryRunsApart /\ (\A p \in Procs : Delivered(p))
=============================================================================
