----------------------------- MODULE DurableLog -----------------------------
(***************************************************************************)
(* What `ResidentCommitStorage` (core/resident_storage.rs) promises to the *)
(* owner of a resident session, whatever the medium: an append-only stream *)
(* of commit records with a compare-and-set on the last commit, one record *)
(* per request identity, and two kinds of answer that may be relied on.    *)
(*                                                                         *)
(*   "committed"  the record is in the stream for good, at the sequence    *)
(*                number that was returned;                                *)
(*   "not found"  the attempts this caller made before asking will never   *)
(*                enter the stream.                                        *)
(*                                                                         *)
(* A failed call promises nothing.  Records that nobody was told about may *)
(* be visible for a while and disappear when the machine stops.            *)
(***************************************************************************)
EXTENDS Naturals, Sequences

CONSTANTS
    Records,    \* every record a caller can prepare: .id, .req, .fp, .parent
    Ids,        \* commit identities
    NoCommit    \* the parent of the first record

VARIABLES
    log,        \* the records a reader sees now, oldest first
    firm,       \* how many of them survive any failure
    told,       \* answers "committed": [seq, rec]
    refuted     \* commit identities covered by an answer "not found"

vars == <<log, firm, told, refuted>>

Tip(s) == IF s = <<>> THEN NoCommit ELSE s[Len(s)].id

IdsOf(s) == {s[i].id : i \in DOMAIN s}

Init ==
    /\ log = <<>>
    /\ firm = 0
    /\ told = {}
    /\ refuted = {}

\* The compare-and-set append: it names the current last commit, and neither
\* its commit identity nor its request identity is in the stream.
AppendRecord(r) ==
    /\ r.parent = Tip(log)
    /\ r.id \notin refuted
    /\ \A i \in DOMAIN log : log[i].id # r.id /\ log[i].req # r.req
    /\ log' = Append(log, r)
    /\ UNCHANGED <<firm, told, refuted>>

\* A completed barrier covers everything visible.
Harden ==
    /\ firm' = Len(log)
    /\ UNCHANGED <<log, told, refuted>>

TellCommitted(i) ==
    /\ i <= firm
    /\ told' = told \cup {[seq |-> i, rec |-> log[i]]}
    /\ UNCHANGED <<log, firm, refuted>>

TellNotFound(ids) ==
    /\ ids \cap IdsOf(log) = {}
    /\ refuted' = refuted \cup ids
    /\ UNCHANGED <<log, firm, told>>

\* The machine stops: any suffix that is not firm may be gone, and what is
\* left is on the medium.
Lose(n) ==
    /\ n >= firm
    /\ log' = SubSeq(log, 1, n)
    /\ firm' = n
    /\ UNCHANGED <<told, refuted>>

Next ==
    \/ \E r \in Records : AppendRecord(r)
    \/ Harden
    \/ \E i \in DOMAIN log : TellCommitted(i)
    \/ \E ids \in SUBSET Ids : TellNotFound(ids)
    \/ \E n \in 0..Len(log) : Lose(n)

Spec == Init /\ [][Next]_vars

-----------------------------------------------------------------------------
(* What follows for a caller.                                              *)

TypeOK ==
    /\ log \in Seq(Records)
    /\ firm \in 0..Len(log)
    /\ told \subseteq [seq : Nat \ {0}, rec : Records]
    /\ refuted \subseteq Ids

\* The records form one chain, so the commit a record names as its parent is
\* the record before it: no competing append slipped in between.
Chained(s) ==
    \A i \in DOMAIN s : s[i].parent = (IF i = 1 THEN NoCommit ELSE s[i - 1].id)

\* No commit identity and no request identity occurs twice.
OncePerIdentity(s) ==
    \A i, j \in DOMAIN s : i # j => s[i].id # s[j].id /\ s[i].req # s[j].req

\* A record somebody was told about is in the stream, at that sequence number.
ToldIsKept ==
    \A t \in told : t.seq \in 1..firm /\ log[t.seq] = t.rec

\* "Not found" is final: those attempts are not, and never will be, visible.
RefutedStaysOut == IdsOf(log) \cap refuted = {}

Safe == Chained(log) /\ OncePerIdentity(log) /\ ToldIsKept /\ RefutedStaysOut

=============================================================================
