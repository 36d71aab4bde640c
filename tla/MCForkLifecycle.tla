-------------------------- MODULE MCForkLifecycle --------------------------
(* One fork under small sets of requests. *)
EXTENDS ForkLifecycle

Mix(n, ops, tools, wide, limit, changes, points, failures) ==
    [clients |-> n, canonical |-> ops, batches |-> tools, lifecycle |-> wide,
     maxClock |-> limit, maxStaged |-> changes, maxCheckpoints |-> points, maxFailures |-> failures]

WideLifecycle == {"apply_staged", "evaluate", "restore", "checkpoint", "delete", "discard_staged", "save"}

\* Two clients of the canonical surface, longer, and shorter with a call that fails;
\* reads beside writes; two clients of the tools; one client of every batch tool.
CanonicalChanges == {"observe", "write", "stage", "staged_apply", "staged_discard", "checkpoint",
                     "checkpoint_delete", "checkpoint_restore", "discard", "recalculate"}
Mixes ==
    {Mix(2, CanonicalChanges, {}, {}, 7, 1, 2, 0),
     Mix(2, CanonicalChanges \cup {"export"}, {}, {}, 6, 1, 2, 1),
     Mix(2, {"observe", "write", "stage", "recalculate", "checkpoint", "checkpoint_restore",
              "discard", "read"}, {}, {}, 6, 1, 1, 0),
     Mix(2, {"stage"}, {"grid_import", "move_values"}, WideLifecycle, 5, 1, 2, 1),
     Mix(1, {"write", "stage", "recalculate", "checkpoint_restore"},
          {"edit_batch", "transform_batch", "apply_formula_pattern", "style_batch", "column_size_batch",
           "sheet_layout_batch", "rules_batch", "structure_batch", "replace_in_formulas",
           "name"},
          WideLifecycle, 5, 2, 2, 1)}

\* Nothing tells requests apart.
Interchangeable == Permutations(Tasks)

=============================================================================
