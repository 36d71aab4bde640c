------------------------------- MODULE MCFiles -------------------------------
(* What survives on disk: the export of a resident session, two command    *)
(* line processes on one directory, and a session of the legacy store.     *)
(* They do not interact, so a behaviour is a behaviour of one of them.     *)
EXTENDS FileExport, Sequences, TLC

CONSTANTS
    Procs, Calls,   \* command line processes, their command lines
    MaxCliFaults,   \* bound: failing calls, kills and power losses among them
    Tasks,          \* the processes of the legacy session
    Histories       \* the mixes of calls they make

VARIABLES
    part,       \* the component of this behaviour
    cCall, cPc, cInode, cDir, cMight, cTemp, cSeen, cBased, cFound, cOutcome, cLog, cUnasked, cFaults,
    lLoad, lLog, lTorn, lHead, lCurrent, lBranches, lLock, lFrozen, lTask, lKills

cli == <<cCall, cPc, cInode, cDir, cMight, cTemp, cSeen, cBased, cFound, cOutcome, cLog, cUnasked, cFaults>>
legacy == <<lLoad, lLog, lTorn, lHead, lCurrent, lBranches, lLock, lFrozen, lTask, lKills>>
all == <<part, vars, cli, legacy>>

----------------------------------------------------------------------------
(* Command lines: one process runs any of them, the other a rival.         *)

Ops(k) == <<[kind |-> k, bad |-> FALSE]>>
Line(cmd, flags, ops, policy) ==
    [cmd |-> cmd, dry |-> flags[1], inPlace |-> flags[2], output |-> flags[3], force |-> flags[4],
     ops |-> ops, policy |-> policy]

DryRun == <<TRUE, FALSE, "none", FALSE>>
AtSource == <<FALSE, TRUE, "none", FALSE>>
ToOutput == <<FALSE, FALSE, "out", FALSE>>
Forced == <<FALSE, FALSE, "out", TRUE>>
ToSource == <<FALSE, FALSE, "src", TRUE>>
Plain == <<FALSE, FALSE, "none", FALSE>>
Wrong == <<TRUE, TRUE, "none", FALSE>>

Kinds ==
    [edit |-> "edit", transform_batch |-> "value", replace_in_formulas |-> "formula",
     range_import |-> "merge", style_batch |-> "style", apply_formula_pattern |-> "formula",
     structure_batch |-> "rows", column_size_batch |-> "width", sheet_layout_batch |-> "layout",
     rules_batch |-> "conditional_format", define_name |-> "name", update_name |-> "name",
     delete_name |-> "name"]
Bad == <<[kind |-> "formula", bad |-> TRUE], [kind |-> "value", bad |-> FALSE]>>

Every ==
    {Line(c, f, Ops(Kinds[c]), "off") : c \in DOMAIN Kinds, f \in {ToOutput}}
    \cup {Line(c, f, Ops(Kinds[c]), "off") :
            c \in {"edit", "transform_batch", "define_name"},
            f \in {DryRun, AtSource, Forced, ToSource, Plain, Wrong}}
    \cup {Line(c, AtSource, Bad, q) : c \in {"transform_batch", "range_import"}, q \in {"fail", "warn"}}
    \cup {Line("edit", AtSource, <<[kind |-> "edit", bad |-> TRUE]>>, "warn"),
          Line("structure_batch", AtSource, Ops("merge"), "off")}
    \cup {Line("canonical_write", f, << >>, "off") :
            f \in {DryRun, AtSource, ToOutput, Forced, ToSource, Plain}}
    \cup {Line(c, AtSource, << >>, "off") : c \in {"append_region", "clone_template_row", "clone_row_band"}}
    \cup {Line("recalculate", f, Ops("cache"), "off") : f \in {Plain, ToOutput, Forced, ToSource}}
    \cup {Line(c, f, << >>, "off") : c \in {"create_workbook", "copy", "render"}, f \in {ToOutput, Forced}}

Rivals ==
    {Line("edit", AtSource, Ops("edit"), "off"), Line("edit", ToOutput, Ops("edit"), "off"),
     Line("canonical_write", AtSource, << >>, "off"), Line("recalculate", Forced, Ops("cache"), "off")}

Lines == {[p \in {1, 2} |-> IF p = 1 THEN a ELSE b] : a \in Every, b \in Rivals}

----------------------------------------------------------------------------
(* Legacy sessions: two processes, one of which may be killed, and every   *)
(* history one process can make on three branches, frozen and imported.    *)

Moves == {"append", "create_branch", "switch_branch", "undo", "redo", "checkout"}
Mixes ==
    {[processes |-> 2, offered |-> Moves, names |-> {1, 2}, events |-> 2, kills |-> 1],
     [processes |-> 1, offered |-> Moves \cup {"freeze"}, names |-> {1, 2, 3}, events |-> 4, kills |-> 0]}

C == INSTANCE CliFiles WITH
        Initially <- BOOLEAN, MaxFaults <- MaxCliFaults,
        call <- cCall, pc <- cPc, inode <- cInode, dir <- cDir, might <- cMight, temp <- cTemp,
        seen <- cSeen, based <- cBased, found <- cFound, outcome <- cOutcome, log <- cLog,
        unasked <- cUnasked, faults <- cFaults

L == INSTANCE LegacySession WITH
        Workloads <- Histories, Main <- 2,
        load <- lLoad, log <- lLog, torn <- lTorn, head <- lHead, current <- lCurrent,
        branches <- lBranches, lock <- lLock, frozen <- lFrozen, task <- lTask, kills <- lKills

\* 0 is the content of a workbook no command made, and no process
ASSUME FilesAssumption ==
    /\ 0 \notin Procs /\ \A c \in Calls : \A p \in Procs : C!WellFormed(c[p])
    /\ 0 \notin Tasks /\ \A h \in Histories : h.names \subseteq Nat

\* A component that takes no part
NoCli ==
    /\ cCall = 0 /\ cPc = 0 /\ cInode = 0 /\ cDir = 0 /\ cMight = 0 /\ cTemp = 0
    /\ cSeen = 0 /\ cBased = 0 /\ cFound = 0 /\ cOutcome = 0 /\ cLog = 0 /\ cUnasked = 0
    /\ cFaults = 0
NoLegacy ==
    /\ lLoad = 0 /\ lLog = 0 /\ lTorn = 0 /\ lHead = 0 /\ lCurrent = 0 /\ lBranches = 0
    /\ lLock = 0 /\ lFrozen = 0 /\ lTask = 0 /\ lKills = 0

FilesInit ==
    /\ Init
    /\ \/ part = "export" /\ NoCli /\ NoLegacy
       \/ part = "cli" /\ C!Init /\ NoLegacy
       \/ part = "legacy" /\ NoCli /\ L!Init

FilesNext ==
    /\ \/ part = "export" /\ Next /\ UNCHANGED <<cli, legacy>>
       \/ part = "cli" /\ C!Next /\ UNCHANGED <<vars, legacy>>
       \/ part = "legacy" /\ L!Next /\ UNCHANGED <<vars, cli>>
    /\ UNCHANGED part

FilesSpec == FilesInit /\ [][FilesNext]_all

\* Requests and processes are only compared for equality.
Interchangeable == Permutations(Requests) \cup Permutations(Tasks)

----------------------------------------------------------------------------
\* What a staged command writes is complete at every moment and after every failure,
\* kill and power loss, and once reported it can be relied on (apply_to_temp_copy,
\* fsync_directory); without --force and --in-place it replaces no existing file, even
\* one that appeared after the first look (atomic_replace_target); and what a command
\* reports of dry runs, named revisions and `changed: false` is true of the files
\* (run_machine_operation).  The other ways promise less, and the parts except them:
\* files written directly or recalculated in place may be found half written; machine
\* operations and recalculations sync nothing, so their files may be incomplete after a
\* power loss, and they replace a file that appeared late; recalculate removes the old
\* output before it has the new one in place; `changed: false` counts no merges.
CommandsKeepTheirWord ==
    part = "cli" =>
        C!FilesStayWhole /\ C!ReportedWriteSurvives /\ C!NothingReplacedUnasked /\ C!AnswersMatchTheFiles

\* The log of a legacy session holds together, whoever is killed where, and it is read
\* back unless an event other than the first is rooted at the base, which is sealed
\* against nothing (append_event, read_events); and an imported session replays to the same history
\* (import_legacy_session, PortableHistoryState::replay).
LegacyHistoryStands == part = "legacy" => L!LogHoldsTogether /\ L!ImportIsFaithful
=============================================================================
