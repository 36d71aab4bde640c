-------------------------- MODULE MCResidentOwner --------------------------
(* Owners of one resident session over its commit stream, under workloads  *)
(* that each stress one thing: a long history, the catalog of staged       *)
(* changes and checkpoints, restarts, rival owners, and many failures.     *)
EXTENDS ResidentOwner, TLC

CONSTANT b1

Load(reqs, names, ops, tries, quota, failures) ==
    [requests |-> reqs, branches |-> names, offered |-> ops,
     attempts |-> tries, records |-> quota, faults |-> failures]

\* For one owner.
Alone ==
    {Load(4, {b1}, {"write", "undo", "redo", "checkout", "branch", "switch"}, 5, 5, 0),
     Load(4, {b1}, {"write", "branch", "stage", "apply_staged", "discard_staged", "recalculate", "revoke",
                    "checkpoint", "restore", "delete_checkpoint", "create", "export", "discard"}, 4, 4, 1),
     Load(3, {}, {"write", "stage", "undo"}, 6, 6, 2)}

\* For two owners attached to the same stream.
Rivals ==
    {Load(2, {}, {"write", "discard_staged", "stage", "undo"}, 3, 3, 1),
     Load(2, {}, {"write", "undo"}, 3, 3, 3)}

\* Nothing tells owners or request identities apart.
Interchangeable == Permutations(Owners) \cup Permutations(Requests)

=============================================================================
