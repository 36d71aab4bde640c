---------------------------- MODULE MCNativeHost ----------------------------
(* Requests against the host of one workspace: writes, discards, detaches  *)
(* and a shutdown on two active resources; creations and bindings on       *)
(* blocking workers beside detaches and discards; and, for the liveness    *)
(* run, what waits for several lanes.                                      *)
EXTENDS NativeHost

CONSTANTS x1, x2

Served ==
    {[known |-> {x1, x2}, initial |-> {x1, x2}, owners |-> 1, queue |-> 2,
      offered |-> {"write", "discard", "detach", "materialize", "shutdown"}],
     [known |-> {x1, x2}, initial |-> {x1}, owners |-> 1, queue |-> 1,
      offered |-> {"create", "bind", "detach", "discard"}]}

Waiting ==
    {[known |-> {x1, x2}, initial |-> {x1, x2}, owners |-> 2, queue |-> 1,
      offered |-> {"detach", "compare", "verify", "discard", "list", "diagnostics", "shutdown"}]}

\* Nothing tells requests apart.
Interchangeable == Permutations(Requests)

=============================================================================
