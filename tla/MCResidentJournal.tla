------------------------- MODULE MCResidentJournal -------------------------
(* The journal of one session, two processes and two request identities.   *)
EXTENDS ResidentJournal, TLC

\* Nothing tells the processes apart: their identities only index functions.
Interchangeable ==
    Permutations(Procs) \cup Permutations(Requests) \cup Permutations(Fingerprints)

=============================================================================
