-------------------------- MODULE Sessions_proofs --------------------------
(***************************************************************************)
(* Proofs about a resident session: its runtime, the creation of its       *)
(* resource and its workbook.  What a replay computes is a recursive       *)
(* function on the journal; facts about it are proved by induction, in the *)
(* form of the least number without the fact (WFMin).                      *)
(***************************************************************************)
EXTENDS MCSessions, Sequences, TLAPS, WellFoundedInduction, FunctionTheorems, FiniteSetTheorems

(* Induction.                                                              *)

Before == OpToRel(<, Nat)

LEMMA NatWellFounded == IsWellFoundedOn(Before, Nat)
BY NatLessThanWellFounded DEF Before

LEMMA BeforeMeansLess == \A x, y \in Nat : x < y => <<x, y>> \in Before
BY DEF Before, OpToRel

\* Every set of numbers with something in it has a least one.
LEMMA LeastNumber ==
  ASSUME NEW T \in SUBSET Nat, T # {}
  PROVE  \E x \in T : \A y \in T : x <= y
<1>1. PICK x \in T : \A y \in T : ~(<<y, x>> \in Before)
  BY NatWellFounded, WFMin
<1>2. ASSUME NEW y \in T PROVE x <= y
  <2>1. x \in Nat /\ y \in Nat /\ ~(y < x)
    BY <1>1, BeforeMeansLess
  <2> QED
    BY <2>1
<1> QED
  BY <1>1, <1>2

LEMMA Induction ==
  ASSUME NEW T \in SUBSET Nat, 0 \in T, \A n \in T : n + 1 \in T
  PROVE  T = Nat
<1> SUFFICES ASSUME T # Nat PROVE FALSE
  OBVIOUS
<1>1. PICK x \in Nat \ T : \A y \in Nat \ T : x <= y
  BY LeastNumber
<1>2. x # 0 /\ x - 1 \in Nat /\ x - 1 \notin Nat \ T
  BY <1>1
<1> QED
  BY <1>1, <1>2

-----------------------------------------------------------------------------
(* Replay.                                                                 *)

\* The first states of a replay of log, up to n.
Replaying(log, n, g) ==
    \A k \in 0..n : g[k] = IF k = 0 THEN S!Start ELSE S!Replay(g[k - 1], log[k])

\* There is one way to replay a journal.
LEMMA ReplayingIsUnique ==
  ASSUME NEW a, NEW b, NEW n \in Nat, \A k \in 1..n : a[k] = b[k],
         NEW f, NEW g, Replaying(a, n, f), Replaying(b, n, g)
  PROVE  \A k \in 0..n : f[k] = g[k]
<1> DEFINE T == {k \in Nat : k <= n => f[k] = g[k]}
<1>1. 0 \in T
  BY DEF Replaying
<1>2. ASSUME NEW k \in T PROVE k + 1 \in T
  <2> SUFFICES ASSUME k + 1 <= n PROVE f[k + 1] = g[k + 1]
    OBVIOUS
  <2>1. k \in Nat /\ k + 1 \in 0..n /\ k + 1 \in 1..n /\ k + 1 # 0 /\ (k + 1) - 1 = k /\ f[k] = g[k]
    BY <1>2
  <2>2. f[k + 1] = S!Replay(f[k], a[k + 1]) /\ g[k + 1] = S!Replay(g[k], b[k + 1])
    BY <2>1 DEF Replaying
  <2> QED
    BY <2>1, <2>2
<1> HIDE DEF T
<1>3. T = Nat
  BY <1>1, <1>2, Induction DEF T
<1> QED
  BY <1>3 DEF T

LEMMA ReplayingExists ==
  ASSUME NEW log
  PROVE  \A n \in Nat : \E g : Replaying(log, n, g)
<1> DEFINE T == {n \in Nat : \E g : Replaying(log, n, g)}
<1>1. 0 \in T
  <2>1. Replaying(log, 0, [k \in 0..0 |-> S!Start])
    BY DEF Replaying
  <2> QED
    BY <2>1
<1>2. ASSUME NEW n \in T PROVE n + 1 \in T
  <2>1. PICK g : Replaying(log, n, g)
    OBVIOUS
  <2> DEFINE e == [k \in 0..(n + 1) |-> IF k = n + 1 THEN S!Replay(g[n], log[n + 1]) ELSE g[k]]
  <2>2. n \in Nat
    OBVIOUS
  <2>3. ASSUME NEW k \in 0..(n + 1)
        PROVE  e[k] = IF k = 0 THEN S!Start ELSE S!Replay(e[k - 1], log[k])
    <3>1. CASE k = n + 1
      <4>1. k # 0 /\ k - 1 = n /\ n \in 0..(n + 1) /\ n # n + 1
        BY <2>2, <3>1
      <4>2. e[k] = S!Replay(g[n], log[n + 1]) /\ e[k - 1] = g[n]
        BY <3>1, <4>1
      <4> QED
        BY <3>1, <4>1, <4>2
    <3>2. CASE k # n + 1
      <4>1. k \in 0..n /\ e[k] = g[k]
        BY <2>2, <3>2
      <4>2. k # 0 => k - 1 \in 0..(n + 1) /\ k - 1 # n + 1 /\ e[k - 1] = g[k - 1]
        BY <2>2, <4>1
      <4>3. g[k] = IF k = 0 THEN S!Start ELSE S!Replay(g[k - 1], log[k])
        BY <2>1, <4>1 DEF Replaying
      <4> QED
        BY <4>1, <4>2, <4>3
    <3> QED
      BY <3>1, <3>2
  <2> HIDE DEF e
  <2>4. Replaying(log, n + 1, e)
    BY <2>3 DEF Replaying
  <2> QED
    BY <2>2, <2>4
<1> HIDE DEF T
<1>3. T = Nat
  BY <1>1, <1>2, Induction DEF T
<1> QED
  BY <1>3 DEF T

\* The recursive definition defines what it says.
LEMMA ReplaysUnfold ==
  ASSUME NEW log
  PROVE  LET h == S!Replays(log)
         IN  h = [k \in Nat |-> IF k = 0 THEN S!Start ELSE S!Replay(h[k - 1], log[k])]
<1> DEFINE G(n) == CHOOSE g : Replaying(log, n, g)
           f == [n \in Nat |-> G(n)[n]]
<1>1. \A n \in Nat : Replaying(log, n, G(n))
  BY ReplayingExists
<1> HIDE DEF G
<1>2. ASSUME NEW k \in Nat
      PROVE  f[k] = IF k = 0 THEN S!Start ELSE S!Replay(f[k - 1], log[k])
  <2>1. Replaying(log, k, G(k)) /\ f[k] = G(k)[k]
    BY <1>1
  <2>2. G(k)[k] = IF k = 0 THEN S!Start ELSE S!Replay(G(k)[k - 1], log[k])
    BY <2>1 DEF Replaying
  <2>3. CASE k = 0
    BY <2>1, <2>2, <2>3
  <2>4. CASE k # 0
    <3>1. k - 1 \in Nat /\ k - 1 \in 0..(k - 1)
      BY <2>4
    <3>2. Replaying(log, k - 1, G(k - 1))
      BY <1>1, <3>1
    <3>3. Replaying(log, k - 1, G(k))
      BY <2>1, <3>1 DEF Replaying
    <3>4. G(k)[k - 1] = G(k - 1)[k - 1]
      BY <3>1, <3>2, <3>3, ReplayingIsUnique
    <3> QED
      BY <2>1, <2>2, <2>4, <3>1, <3>4
  <2> QED
    BY <2>3, <2>4
<1>3. f = [k \in Nat |-> IF k = 0 THEN S!Start ELSE S!Replay(f[k - 1], log[k])]
  BY <1>2
<1> HIDE DEF f
<1>4. S!Replays(log) = CHOOSE h : h = [k \in Nat |-> IF k = 0 THEN S!Start ELSE S!Replay(h[k - 1], log[k])]
  BY DEF S!Replays
<1> QED
  BY <1>3, <1>4

-----------------------------------------------------------------------------
(* Directories.                                                            *)

Fields == {"for", "active", "kept", "parts", "synced", "base", "receipt", "number"}
Shaped(d) ==
    /\ DOMAIN d = Fields
    /\ d.active \in BOOLEAN /\ d.kept \in BOOLEAN /\ (d.kept => d.active)
    /\ d.parts \in 0..C!Complete /\ d.synced \in 0..d.parts

\* Both instances count as this module does.
LEMMA SameFinite == \A X : (C!IsFiniteSet(X) <=> IsFiniteSet(X)) /\ (S!IsFiniteSet(X) <=> IsFiniteSet(X))
BY DEF C!IsFiniteSet, S!IsFiniteSet, IsFiniteSet

LEMMA SameCardinality == \A X : C!Cardinality(X) = Cardinality(X) /\ S!Cardinality(X) = Cardinality(X)
BY Zenon DEF C!Cardinality, S!Cardinality, Cardinality

\* Directories that change and keep their numbers are as many as before.
LEMMA Renumbered ==
  ASSUME NEW D, IsFiniteSet(D), \A d, e \in D : d.number = e.number => d = e,
         NEW f, \A d \in D : f[d].number = d.number,
         NEW E, E = {f[d] : d \in D}
  PROVE  /\ IsFiniteSet(E) /\ Cardinality(E) = Cardinality(D)
         /\ \A x, y \in E : x.number = y.number => x = y
<1> DEFINE g == [d \in D |-> f[d]]
<1>1. g \in [D -> E] /\ \A d \in D : g[d] = f[d]
  OBVIOUS
<1> HIDE DEF g
<1>2. \A d, e \in D : g[d] = g[e] => d = e
  BY <1>1
<1>3. \A x \in E : \E d \in D : g[d] = x
  BY <1>1
<1>4. g \in Bijection(D, E)
  BY <1>1, <1>2, <1>3, Fun_IsBij
<1>5. ExistsBijection(D, E)
  BY <1>4 DEF ExistsBijection
<1>6. IsFiniteSet(E) /\ Cardinality(E) = Cardinality(D)
  BY <1>5, FS_Bijection
<1>7. \A x, y \in E : x.number = y.number => x = y
  OBVIOUS
<1> QED
  BY <1>6, <1>7

LEMMA Renewed ==
  ASSUME C!DirectoriesStand, NEW f, dirs' = {f[d] : d \in dirs},
         \A d \in dirs : Shaped(f[d]) /\ f[d].number = d.number
  PROVE  C!DirectoriesStand'
<1>1. IsFiniteSet(dirs) /\ \A d, e \in dirs : d.number = e.number => d = e
  BY SameFinite DEF C!DirectoriesStand
<1>2. /\ IsFiniteSet(dirs') /\ Cardinality(dirs') = Cardinality(dirs)
      /\ \A x, y \in dirs' : x.number = y.number => x = y
  BY <1>1, Renumbered
<1>3. ASSUME NEW x \in dirs'
      PROVE  Shaped(x) /\ x.number \in Nat /\ x.number < Cardinality(dirs')
  BY <1>2, SameCardinality DEF C!DirectoriesStand
<1> QED
  BY <1>2, <1>3, SameFinite, SameCardinality DEF C!DirectoriesStand, Shaped, Fields

LEMMA ShapedDirectories ==
  ASSUME C!DirectoriesStand, NEW d \in dirs
  PROVE  Shaped(d)
BY DEF C!DirectoriesStand, Shaped, Fields

\* A sync of the root: the names there are now are on disk.
LEMMA SyncedFields ==
  ASSUME NEW d, Shaped(d), NEW x, x = [d EXCEPT !.kept = d.active]
  PROVE  /\ Shaped(x) /\ x.number = d.number /\ x.for = d.for /\ x.base = d.base /\ x.receipt = d.receipt
         /\ x.active = d.active /\ x.kept = d.active /\ x.parts = d.parts /\ x.synced = d.synced
BY DEF Shaped, Fields

LEMMA RootSyncKeeps ==
  ASSUME C!DirectoriesStand, C!ActiveIsWhole, dirs' = C!RootSynced,
         \A c \in created' : \E d \in dirs : d.active /\ d.for = c.id /\ d.base = c.expected
  PROVE  C!DirectoriesStand' /\ C!ActiveIsWhole'
<1> DEFINE f == [d \in dirs |-> [d EXCEPT !.kept = d.active]]
<1>1. dirs' = {f[d] : d \in dirs}
  BY DEF C!RootSynced
<1>2. \A d \in dirs :
         /\ Shaped(f[d]) /\ f[d].number = d.number /\ f[d].for = d.for /\ f[d].base = d.base
         /\ f[d].receipt = d.receipt /\ f[d].active = d.active /\ f[d].kept = d.active
         /\ f[d].parts = d.parts /\ f[d].synced = d.synced
  BY ShapedDirectories, SyncedFields
<1> HIDE DEF f
<1>3. C!DirectoriesStand'
  BY <1>1, <1>2, Renewed
<1>4. \A x \in dirs' : x.active => /\ x.parts = C!Complete /\ x.synced = C!Complete
                                   /\ x.receipt = x.base /\ x.base # NoGeneration
  BY <1>1, <1>2 DEF C!ActiveIsWhole
<1>5. \A x, y \in dirs' : x.active /\ y.active /\ x.for = y.for => x = y
  BY <1>1, <1>2 DEF C!ActiveIsWhole
<1>6. \A c \in created' : \E x \in dirs' : x.active /\ x.for = c.id /\ x.kept /\ x.base = c.expected
  <2> SUFFICES ASSUME NEW c \in created'
               PROVE  \E x \in dirs' : x.active /\ x.for = c.id /\ x.kept /\ x.base = c.expected
    OBVIOUS
  <2>1. PICK d \in dirs : d.active /\ d.for = c.id /\ d.base = c.expected
    OBVIOUS
  <2>2. f[d] \in dirs'
    BY <1>1
  <2> QED
    BY <1>2, <2>1, <2>2
<1> QED
  BY <1>3, <1>4, <1>5, <1>6 DEF C!ActiveIsWhole

\* The creation changes the directory it builds, which has no name yet.
LEMMA UpdateKeeps ==
  ASSUME C!DirectoriesStand, C!ActiveIsWhole, created' = created,
         NEW m \in dirs, ~m.active, NEW x, Shaped(x), x.number = m.number,
         dirs' = (dirs \ {m}) \cup {x},
         x.active => /\ x.parts = C!Complete /\ x.synced = C!Complete
                     /\ x.receipt = x.base /\ x.base # NoGeneration
                     /\ \A d \in dirs : d.active => d.for # x.for
  PROVE  C!DirectoriesStand' /\ C!ActiveIsWhole'
<1> DEFINE f == [d \in dirs |-> IF d = m THEN x ELSE d]
<1>1. dirs' = {f[d] : d \in dirs}
  OBVIOUS
<1>2. \A d \in dirs : Shaped(f[d]) /\ f[d].number = d.number
  BY ShapedDirectories
<1> HIDE DEF f
<1>3. C!DirectoriesStand'
  BY <1>1, <1>2, Renewed
<1>4. \A d \in dirs' : d.active => /\ d.parts = C!Complete /\ d.synced = C!Complete
                                   /\ d.receipt = d.base /\ d.base # NoGeneration
  BY DEF C!ActiveIsWhole
<1>5. \A d, e \in dirs' : d.active /\ e.active /\ d.for = e.for => d = e
  BY DEF C!ActiveIsWhole
<1>6. \A c \in created' : \E d \in dirs' : d.active /\ d.for = c.id /\ d.kept /\ d.base = c.expected
  BY DEF C!ActiveIsWhole
<1> QED
  BY <1>3, <1>4, <1>5, <1>6 DEF C!ActiveIsWhole

\* The directory of the creation in progress.
LEMMA MineIs ==
  ASSUME C!DirectoriesStand, NEW d \in dirs, d.number = job.at
  PROVE  C!Mine = d
BY DEF C!DirectoriesStand, C!Mine

LEMMA SameDirectories ==
  ASSUME C!DirectoriesStand, C!ActiveIsWhole, dirs' = dirs, created' = created
  PROVE  C!DirectoriesStand' /\ C!ActiveIsWhole'
<1>1. C!DirectoriesStand'
  BY SameFinite, SameCardinality DEF C!DirectoriesStand, C!Complete
<1>2. C!ActiveIsWhole'
  BY DEF C!ActiveIsWhole, C!Complete
<1> QED
  BY <1>1, <1>2

LEMMA IdleJob ==
  ASSUME job' = C!Idle
  PROVE  C!JobStands'
BY DEF C!JobStands, C!Idle, C!Building

-----------------------------------------------------------------------------
(* Steps of a creation.                                                    *)

LEMMA SubmitKeeps ==
  ASSUME C!CreationInv, NEW id \in Creations, NEW g \in Generations, C!Submit(id, g)
  PROVE  C!CreationInv'
<1>1. job' = [pc |-> "outcome", id |-> id, expected |-> g] /\ UNCHANGED <<source, dirs, created>>
  BY DEF C!Submit
<1>2. C!JobStands'
  BY <1>1 DEF C!JobStands, C!Building
<1> QED
  BY <1>1, <1>2, SameDirectories DEF C!CreationInv

LEMMA OutcomeKeeps ==
  ASSUME C!CreationInv, C!Outcome
  PROVE  C!CreationInv'
<1>0. job.pc = "outcome" /\ source' = source /\ C!JobStands /\ C!DirectoriesStand /\ C!ActiveIsWhole
  BY DEF C!Outcome, C!At, C!CreationInv
<1>1. CASE C!Active(job.id) = {}
  <2>1. job' = [job EXCEPT !.pc = "admit"] /\ dirs' = dirs /\ created' = created
    BY <1>1 DEF C!Outcome, C!Step
  <2>2. job'.pc = "admit" /\ job'.expected \in Generations /\ DOMAIN job' = DOMAIN job
    BY <1>0, <2>1 DEF C!JobStands
  <2> QED
    BY <1>0, <2>1, <2>2, SameDirectories DEF C!CreationInv, C!JobStands, C!Building
<1>2. CASE C!Active(job.id) # {}
  <2>1. /\ dirs' = C!RootSynced /\ job' = C!Idle
        /\ IF \E d \in C!Active(job.id) : d.receipt = job.expected
           THEN created' = created \cup {[id |-> job.id, expected |-> job.expected]}
           ELSE created' = created
    BY <1>2 DEF C!Outcome, C!GiveUp, C!Answered
  <2>2. \A c \in created' : \E d \in dirs : d.active /\ d.for = c.id /\ d.base = c.expected
    <3>1. \A c \in created : \E d \in dirs : d.active /\ d.for = c.id /\ d.base = c.expected
      BY <1>0 DEF C!ActiveIsWhole
    <3>2. (\E d \in C!Active(job.id) : d.receipt = job.expected) =>
             \E d \in dirs : d.active /\ d.for = job.id /\ d.base = job.expected
      BY <1>0 DEF C!ActiveIsWhole, C!Active
    <3> QED
      BY <2>1, <3>1, <3>2
  <2>3. C!DirectoriesStand' /\ C!ActiveIsWhole'
    BY <1>0, <2>1, <2>2, RootSyncKeeps
  <2> QED
    BY <1>0, <2>1, <2>3, IdleJob DEF C!CreationInv
<1> QED
  BY <1>1, <1>2

LEMMA AdmitKeeps ==
  ASSUME C!CreationInv, C!Admit
  PROVE  C!CreationInv'
<1>0. job.pc = "admit" /\ source' = source /\ dirs' = dirs /\ created' = created /\ C!JobStands
  BY DEF C!Admit, C!At, C!CreationInv
<1>1. job' = [job EXCEPT !.pc = "capture"] \/ job' = C!Idle
  BY DEF C!Admit, C!Step, C!GiveUp
<1>2. CASE job' = [job EXCEPT !.pc = "capture"]
  <2>1. job'.pc = "capture" /\ job'.expected \in Generations /\ DOMAIN job' = DOMAIN job
    BY <1>0, <1>2 DEF C!JobStands
  <2>2. C!JobStands'
    BY <1>0, <2>1 DEF C!JobStands, C!Building
  <2> QED
    BY <1>0, <2>2, SameDirectories DEF C!CreationInv
<1>3. CASE job' = C!Idle
  BY <1>0, <1>3, SameDirectories, IdleJob DEF C!CreationInv
<1> QED
  BY <1>1, <1>2, <1>3

\* The new directory is the only change, its number is the next one, and nobody
\* has the name it is meant for.
LEMMA CaptureKeeps ==
  ASSUME C!CreationInv, C!Capture
  PROVE  C!CreationInv'
<1>0. /\ job.pc = "capture" /\ source' = source /\ created' = created
      /\ C!JobStands /\ C!DirectoriesStand /\ C!ActiveIsWhole /\ source \in Generations
  BY DEF C!Capture, C!At, C!CreationInv
<1>1. CASE ~(source = job.expected /\ C!Active(job.id) = {} /\ C!Cardinality(dirs) < MaxDirectories)
  <2>1. dirs' = dirs /\ job' = C!Idle
    BY <1>1 DEF C!Capture, C!GiveUp
  <2> QED
    BY <1>0, <2>1, SameDirectories, IdleJob DEF C!CreationInv
<1>2. CASE source = job.expected /\ C!Active(job.id) = {} /\ C!Cardinality(dirs) < MaxDirectories
  <2> DEFINE n == Cardinality(dirs)
             D == {[d EXCEPT !.kept = d.active] : d \in dirs}
             x == C!Directory(job.id, source)
  <2>1. dirs' = D \cup {x}
    BY <1>2 DEF C!Capture
  <2>2. job' = [pc |-> "write", id |-> job.id, expected |-> job.expected, at |-> n]
    BY <1>2, SameCardinality DEF C!Capture
  <2>3. /\ Shaped(x) /\ x.number = n /\ x.for = job.id /\ x.base = source /\ x.active = FALSE /\ x.parts = 0
    BY SameCardinality DEF C!Directory, Shaped, Fields, C!Complete
  <2> HIDE DEF x
  <2>4. IsFiniteSet(dirs) /\ n \in Nat
    BY <1>0, SameFinite, FS_CardinalityType DEF C!DirectoriesStand
  <2> DEFINE f == [d \in dirs |-> [d EXCEPT !.kept = d.active]]
  <2>5. D = {f[d] : d \in dirs}
    OBVIOUS
  <2>6. \A d \in dirs :
           /\ Shaped(f[d]) /\ f[d].number = d.number /\ f[d].for = d.for /\ f[d].base = d.base
           /\ f[d].receipt = d.receipt /\ f[d].active = d.active /\ f[d].kept = d.active
           /\ f[d].parts = d.parts /\ f[d].synced = d.synced
    BY <1>0, ShapedDirectories, SyncedFields
  <2> HIDE DEF f, D
  <2>7. IsFiniteSet(D) /\ Cardinality(D) = n /\ \A d, e \in D : d.number = e.number => d = e
    BY <1>0, <2>4, <2>5, <2>6, Renumbered DEF C!DirectoriesStand
  <2> HIDE DEF n
  <2>8. \A d \in D : Shaped(d) /\ d.number \in Nat /\ d.number < n
    BY <1>0, <2>5, <2>6, SameCardinality DEF C!DirectoriesStand, n
  <2>9. x \notin D
    BY <2>3, <2>4, <2>8
  <2>10. IsFiniteSet(dirs') /\ Cardinality(dirs') = n + 1
    BY <2>1, <2>7, <2>9, FS_AddElement
  <2>11. \A d \in dirs' : Shaped(d) /\ d.number \in Nat /\ d.number < n + 1
    BY <2>1, <2>3, <2>4, <2>8
  <2>12. \A d, e \in dirs' : d.number = e.number => d = e
    BY <2>1, <2>3, <2>4, <2>7, <2>8
  <2>13. C!DirectoriesStand'
    BY <2>10, <2>11, <2>12, SameFinite, SameCardinality DEF C!DirectoriesStand, Shaped, Fields
  <2>14. \A d \in dirs' : d.active => /\ d.parts = C!Complete /\ d.synced = C!Complete
                                      /\ d.receipt = d.base /\ d.base # NoGeneration
    BY <1>0, <2>1, <2>3, <2>5, <2>6 DEF C!ActiveIsWhole
  <2>15. \A d, e \in dirs' : d.active /\ e.active /\ d.for = e.for => d = e
    BY <1>0, <2>1, <2>3, <2>5, <2>6 DEF C!ActiveIsWhole
  <2>16. \A c \in created' : \E d \in dirs' : d.active /\ d.for = c.id /\ d.kept /\ d.base = c.expected
    <3> SUFFICES ASSUME NEW c \in created
                 PROVE  \E d \in dirs' : d.active /\ d.for = c.id /\ d.kept /\ d.base = c.expected
      BY <1>0
    <3>1. PICK d \in dirs : d.active /\ d.for = c.id /\ d.base = c.expected
      BY <1>0 DEF C!ActiveIsWhole
    <3>2. f[d] \in dirs'
      BY <2>1, <2>5
    <3> QED
      BY <2>6, <3>1, <3>2
  <2>17. C!ActiveIsWhole'
    BY <2>14, <2>15, <2>16 DEF C!ActiveIsWhole
  <2>18. C!Active(job.id)' = {}
    <3>1. \A d \in dirs : ~(d.active /\ d.for = job.id)
      BY <1>2 DEF C!Active
    <3>2. \A d \in dirs' : ~(d.active /\ d.for = job.id)
      BY <2>1, <2>3, <2>5, <2>6, <3>1
    <3>3. job'.id = job.id
      BY <2>2
    <3> QED
      BY <3>2, <3>3 DEF C!Active
  <2>19. C!JobStands'
    <3>1. x \in dirs' /\ x.parts < C!Complete
      BY <2>1, <2>3 DEF C!Complete
    <3>2. /\ job'.pc = "write" /\ job'.id = job.id /\ job'.expected = job.expected /\ job'.at = n
          /\ {"pc", "id", "expected"} \subseteq DOMAIN job'
      BY <2>2
    <3>3. x.number = job'.at /\ x.for = job'.id /\ x.base = job'.expected /\ job'.expected \in Generations
      BY <1>0, <1>2, <2>3, <3>2
    <3> QED
      BY <2>18, <3>1, <3>2, <3>3 DEF C!JobStands, C!Building
  <2> QED
    BY <1>0, <2>13, <2>17, <2>19 DEF C!CreationInv
<1> QED
  BY <1>1, <1>2

\* What the steps that build the directory find.
LEMMA Building ==
  ASSUME C!CreationInv, job.pc \in C!Building
  PROVE  /\ C!JobStands /\ C!DirectoriesStand /\ C!ActiveIsWhole
         /\ LET m == C!Mine IN
            /\ m \in dirs /\ Shaped(m) /\ m.number = job.at /\ m.for = job.id /\ m.base = job.expected
            /\ job.pc \in {"write", "receipt", "rename"} => ~m.active /\ \A d \in dirs : d.active => d.for # job.id
            /\ job.pc = "write" => m.parts < C!Complete
            /\ job.pc # "write" => m.synced = C!Complete
            /\ job.pc \in {"rename", "sync", "answer"} => m.receipt = job.expected
            /\ job.pc \in {"sync", "answer"} => m.active
            /\ job.pc = "answer" => m.kept
<1>0. C!JobStands /\ C!DirectoriesStand /\ C!ActiveIsWhole
  BY DEF C!CreationInv
<1>1. PICK d \in dirs :
         /\ d.number = job.at /\ d.for = job.id /\ d.base = job.expected
         /\ job.pc \in {"write", "receipt", "rename"} => C!Active(job.id) = {}
         /\ job.pc = "write" => d.parts < C!Complete
         /\ job.pc # "write" => d.synced = C!Complete
         /\ job.pc \in {"rename", "sync", "answer"} => d.receipt = job.expected
         /\ job.pc \in {"sync", "answer"} => d.active
         /\ job.pc = "answer" => d.kept
  BY <1>0 DEF C!JobStands
<1>2. C!Mine = d /\ Shaped(d)
  BY <1>0, <1>1, MineIs, ShapedDirectories
<1>3. job.pc \in {"write", "receipt", "rename"} => \A e \in dirs : e.active => e.for # job.id
  BY <1>1 DEF C!Active
<1> QED
  BY <1>0, <1>1, <1>2, <1>3

\* The creation in progress goes on at p.
GoesTo(p) ==
    /\ job'.pc = p /\ job'.id = job.id /\ job'.expected = job.expected /\ job'.at = job.at
    /\ DOMAIN job' = DOMAIN job

LEMMA Steps ==
  ASSUME C!CreationInv, NEW p, job' = [job EXCEPT !.pc = p]
  PROVE  GoesTo(p)
BY DEF GoesTo, C!CreationInv, C!JobStands

\* The creation goes on with its directory changed to x.
LEMMA GoesOn ==
  ASSUME C!CreationInv, job.pc \in {"write", "receipt", "rename"},
         UNCHANGED <<source, created>>, NEW x, dirs' = (dirs \ {C!Mine}) \cup {x},
         Shaped(x), x.number = job.at, x.for = job.id, x.base = job.expected,
         x.active => x.receipt = x.base /\ x.synced = C!Complete,
         NEW p \in C!Building, GoesTo(p), p # "answer",
         p \in {"write", "receipt", "rename"} => ~x.active,
         p = "write" => x.parts < C!Complete,
         p # "write" => x.synced = C!Complete,
         p \in {"rename", "sync"} => x.receipt = job.expected,
         p = "sync" => x.active
  PROVE  C!CreationInv'
<1> DEFINE m == C!Mine
<1>1. /\ C!JobStands /\ C!DirectoriesStand /\ C!ActiveIsWhole /\ m \in dirs /\ ~m.active /\ m.number = job.at
      /\ \A d \in dirs : d.active => d.for # job.id
  BY Building DEF C!Building
<1>2. x.active => /\ x.parts = C!Complete /\ x.synced = C!Complete /\ x.receipt = x.base /\ x.base # NoGeneration
                  /\ \A d \in dirs : d.active => d.for # x.for
  <2>1. job.expected \in Generations
    BY <1>1 DEF C!JobStands
  <2>2. x.active => x.parts = C!Complete
    BY DEF Shaped, C!Complete
  <2> QED
    BY <1>1, <2>1, <2>2, SessionsAssumption
<1>3. C!DirectoriesStand' /\ C!ActiveIsWhole'
  BY <1>1, <1>2, UpdateKeeps
<1>4. /\ job'.pc = p /\ job'.id = job.id /\ job'.expected = job.expected /\ job'.at = job.at
      /\ DOMAIN job' = DOMAIN job
  BY DEF GoesTo
<1>5. p \in {"write", "receipt", "rename"} => C!Active(job.id)' = {}
  <2>1. p \in {"write", "receipt", "rename"} => \A d \in dirs' : ~(d.active /\ d.for = job'.id)
    BY <1>1, <1>4
  <2> QED
    BY <2>1 DEF C!Active
<1>6. x \in dirs'
  OBVIOUS
<1>7. C!JobStands'
  BY <1>1, <1>4, <1>5, <1>6 DEF C!JobStands, C!Building
<1> QED
  BY <1>3, <1>7 DEF C!CreationInv

\* The changes the steps make to their directory.
LEMMA ReceiptFields ==
  ASSUME NEW m, Shaped(m), NEW g, NEW x, x = [m EXCEPT !.receipt = g]
  PROVE  /\ Shaped(x) /\ x.number = m.number /\ x.for = m.for /\ x.base = m.base /\ x.receipt = g
         /\ x.active = m.active /\ x.parts = m.parts /\ x.synced = m.synced
BY DEF Shaped, Fields

LEMMA ActiveFields ==
  ASSUME NEW m, Shaped(m), NEW x, x = [m EXCEPT !.active = TRUE]
  PROVE  /\ Shaped(x) /\ x.number = m.number /\ x.for = m.for /\ x.base = m.base /\ x.receipt = m.receipt
         /\ x.active = TRUE /\ x.parts = m.parts /\ x.synced = m.synced
BY DEF Shaped, Fields

LEMMA WritePartKeeps ==
  ASSUME C!CreationInv, C!WritePart
  PROVE  C!CreationInv'
<1> DEFINE m == C!Mine
           x == [m EXCEPT !.parts = m.parts + 1,
                          !.synced = IF m.parts + 1 = C!Complete THEN m.parts + 1 ELSE m.synced]
           p == IF m.parts + 1 = C!Complete THEN "receipt" ELSE "write"
<1>1. job.pc = "write" /\ UNCHANGED <<source, created>> /\ dirs' = (dirs \ {m}) \cup {x}
  BY DEF C!WritePart, C!At, C!Update
<1>2. IF m.parts + 1 = C!Complete THEN job' = [job EXCEPT !.pc = "receipt"] ELSE job' = job
  BY DEF C!WritePart, C!Step
<1>3. /\ Shaped(m) /\ m.number = job.at /\ m.for = job.id /\ m.base = job.expected /\ ~m.active
      /\ m.parts < C!Complete
  BY <1>1, Building DEF C!Building
<1> HIDE DEF m
<1>4. /\ Shaped(x) /\ x.number = m.number /\ x.for = m.for /\ x.base = m.base
      /\ x.active = m.active /\ x.parts = m.parts + 1
      /\ m.parts + 1 = C!Complete => x.synced = C!Complete
  BY <1>3 DEF Shaped, Fields, C!Complete
<1> HIDE DEF x
<1>5. GoesTo(p) /\ p \in C!Building
  <2>1. CASE m.parts + 1 = C!Complete
    BY <1>2, <2>1, Steps DEF C!Building
  <2>2. CASE m.parts + 1 # C!Complete
    BY <1>1, <1>2, <2>2 DEF C!Building, GoesTo
  <2> QED
    BY <2>1, <2>2
<1>6. p = "write" => x.parts < C!Complete
  BY <1>3, <1>4 DEF Shaped, C!Complete
<1> QED
  BY <1>1, <1>3, <1>4, <1>5, <1>6, GoesOn DEF m

LEMMA CommitReceiptKeeps ==
  ASSUME C!CreationInv, C!CommitReceipt
  PROVE  C!CreationInv'
<1> DEFINE m == C!Mine
           x == [m EXCEPT !.receipt = job.expected]
<1>1. /\ job.pc = "receipt" /\ UNCHANGED <<source, created>> /\ dirs' = (dirs \ {m}) \cup {x}
      /\ job' = [job EXCEPT !.pc = "rename"]
  BY DEF C!CommitReceipt, C!At, C!Update, C!Step
<1>2. /\ Shaped(m) /\ m.number = job.at /\ m.for = job.id /\ m.base = job.expected /\ ~m.active
      /\ m.synced = C!Complete
  BY <1>1, Building DEF C!Building
<1> HIDE DEF m
<1>3. /\ Shaped(x) /\ x.number = m.number /\ x.for = m.for /\ x.base = m.base /\ x.receipt = job.expected
      /\ x.active = m.active /\ x.synced = m.synced
  BY <1>2, ReceiptFields
<1> HIDE DEF x
<1>4. GoesTo("rename") /\ "rename" \in C!Building
  BY <1>1, Steps DEF C!Building
<1> QED
  BY <1>1, <1>2, <1>3, <1>4, GoesOn DEF m

LEMMA ActivateKeeps ==
  ASSUME C!CreationInv, C!Activate
  PROVE  C!CreationInv'
<1> DEFINE m == C!Mine
           x == [m EXCEPT !.active = TRUE]
<1>1. /\ job.pc = "rename" /\ UNCHANGED <<source, created>> /\ dirs' = (dirs \ {m}) \cup {x}
      /\ job' = [job EXCEPT !.pc = "sync"]
  BY DEF C!Activate, C!At, C!Update, C!Step
<1>2. /\ Shaped(m) /\ m.number = job.at /\ m.for = job.id /\ m.base = job.expected /\ ~m.active
      /\ m.synced = C!Complete /\ m.receipt = job.expected
  BY <1>1, Building DEF C!Building
<1> HIDE DEF m
<1>3. /\ Shaped(x) /\ x.number = m.number /\ x.for = m.for /\ x.base = m.base /\ x.receipt = m.receipt
      /\ x.active = TRUE /\ x.synced = m.synced
  BY <1>2, ActiveFields, ZenonT(60)
<1> HIDE DEF x
<1>4. GoesTo("sync") /\ "sync" \in C!Building
  BY <1>1, Steps DEF C!Building
<1> QED
  BY <1>1, <1>2, <1>3, <1>4, GoesOn DEF m

\* A sync of the root finds a creation where it was, or makes its name durable.
LEMMA SyncedJob ==
  ASSUME C!CreationInv, dirs' = C!RootSynced, NEW p, GoesTo(p),
         p = job.pc \/ (job.pc = "sync" /\ p = "answer")
  PROVE  C!JobStands'
<1>1. C!JobStands /\ C!DirectoriesStand
  BY DEF C!CreationInv
<1>2. CASE job.pc \notin C!Building
  BY <1>1, <1>2 DEF C!JobStands, C!Building, GoesTo
<1>3. CASE job.pc \in C!Building
  <2> DEFINE f == [d \in dirs |-> [d EXCEPT !.kept = d.active]]
             m == C!Mine
  <2>1. dirs' = {f[d] : d \in dirs}
    BY DEF C!RootSynced
  <2>2. \A d \in dirs :
           /\ f[d].number = d.number /\ f[d].for = d.for /\ f[d].base = d.base
           /\ f[d].receipt = d.receipt /\ f[d].active = d.active /\ f[d].kept = d.active
           /\ f[d].parts = d.parts /\ f[d].synced = d.synced
    BY <1>1, ShapedDirectories, SyncedFields
  <2> HIDE DEF f
  <2>3. /\ m \in dirs /\ m.number = job.at /\ m.for = job.id /\ m.base = job.expected
        /\ job.pc \in {"write", "receipt", "rename"} => \A d \in dirs : d.active => d.for # job.id
        /\ job.pc = "write" => m.parts < C!Complete
        /\ job.pc # "write" => m.synced = C!Complete
        /\ job.pc \in {"rename", "sync", "answer"} => m.receipt = job.expected
        /\ job.pc \in {"sync", "answer"} => m.active
    BY <1>3, Building
  <2> HIDE DEF m
  <2>4. p \in {"write", "receipt", "rename"} => C!Active(job.id)' = {}
    <3>1. p \in {"write", "receipt", "rename"} => \A d \in dirs' : ~(d.active /\ d.for = job'.id)
      BY <2>1, <2>2, <2>3 DEF GoesTo
    <3> QED
      BY <3>1 DEF C!Active
  <2>5. /\ f[m] \in dirs' /\ f[m].number = job.at /\ f[m].for = job.id /\ f[m].base = job.expected
        /\ p = "write" => f[m].parts < C!Complete
        /\ p # "write" => f[m].synced = C!Complete
        /\ p \in {"rename", "sync", "answer"} => f[m].receipt = job.expected
        /\ p \in {"sync", "answer"} => f[m].active
        /\ p = "answer" => f[m].kept
    BY <2>1, <2>2, <2>3
  <2>6. p \in C!Building /\ job.expected \in Generations /\ {"pc", "id", "expected"} \subseteq DOMAIN job
    BY <1>1, <1>3 DEF C!JobStands, C!Building
  <2> QED
    BY <2>4, <2>5, <2>6 DEF C!JobStands, C!Building, GoesTo
<1> QED
  BY <1>2, <1>3

LEMMA SyncRootKeeps ==
  ASSUME C!CreationInv, C!SyncRoot
  PROVE  C!CreationInv'
<1>1. /\ job.pc = "sync" /\ dirs' = C!RootSynced /\ UNCHANGED <<source, created>>
      /\ job' = [job EXCEPT !.pc = "answer"]
  BY DEF C!SyncRoot, C!At, C!Step
<1>2. C!JobStands'
  BY <1>1, SyncedJob, Steps
<1>3. C!DirectoriesStand' /\ C!ActiveIsWhole'
  <2>1. \A c \in created' : \E d \in dirs : d.active /\ d.for = c.id /\ d.base = c.expected
    BY <1>1 DEF C!CreationInv, C!ActiveIsWhole
  <2> QED
    BY <1>1, <2>1, RootSyncKeeps DEF C!CreationInv
<1> QED
  BY <1>1, <1>2, <1>3 DEF C!CreationInv

LEMMA RestartHostKeeps ==
  ASSUME C!CreationInv, C!RestartHost
  PROVE  C!CreationInv'
<1>1. dirs' = C!RootSynced /\ UNCHANGED <<source, job, created>>
  BY DEF C!RestartHost
<1>2. C!JobStands'
  <2>1. GoesTo(job.pc)
    BY <1>1 DEF GoesTo
  <2> QED
    BY <1>1, <2>1, SyncedJob
<1>3. C!DirectoriesStand' /\ C!ActiveIsWhole'
  <2>1. \A c \in created' : \E d \in dirs : d.active /\ d.for = c.id /\ d.base = c.expected
    BY <1>1 DEF C!CreationInv, C!ActiveIsWhole
  <2> QED
    BY <1>1, <2>1, RootSyncKeeps DEF C!CreationInv
<1> QED
  BY <1>1, <1>2, <1>3 DEF C!CreationInv

\* The answer tells the client of a resource whose name is on disk.
LEMMA AnswerCreatedKeeps ==
  ASSUME C!CreationInv, C!AnswerCreated
  PROVE  C!CreationInv'
<1>1. /\ job.pc = "answer" /\ UNCHANGED <<source, dirs>> /\ job' = C!Idle
      /\ created' = created \cup {[id |-> job.id, expected |-> job.expected]}
  BY DEF C!AnswerCreated, C!At, C!GiveUp, C!Answered
<1>2. /\ C!Mine \in dirs /\ C!Mine.for = job.id /\ C!Mine.base = job.expected /\ C!Mine.active /\ C!Mine.kept
      /\ C!DirectoriesStand /\ C!ActiveIsWhole
  BY <1>1, Building DEF C!Building
<1>3. C!DirectoriesStand'
  BY <1>1, <1>2, SameFinite, SameCardinality DEF C!DirectoriesStand, C!Complete
<1>4. C!ActiveIsWhole'
  BY <1>1, <1>2 DEF C!ActiveIsWhole, C!Complete
<1> QED
  BY <1>1, <1>3, <1>4, IdleJob DEF C!CreationInv

\* A failed call: nothing happened, or the receipt or the rename did.
LEMMA CreationFailsKeeps ==
  ASSUME C!CreationInv, C!CreationFails
  PROVE  C!CreationInv'
<1> DEFINE m == C!Mine
<1>1. job' = C!Idle /\ UNCHANGED <<source, created>> /\ C!DirectoriesStand /\ C!ActiveIsWhole
  BY DEF C!CreationFails, C!GiveUp, C!CreationInv
<1>2. \/ dirs' = dirs
      \/ job.pc = "receipt" /\ dirs' = (dirs \ {m}) \cup {[m EXCEPT !.receipt = job.expected]}
      \/ job.pc = "rename" /\ dirs' = (dirs \ {m}) \cup {[m EXCEPT !.active = TRUE]}
  BY DEF C!CreationFails
<1>3. CASE dirs' = dirs
  BY <1>1, <1>3, SameDirectories, IdleJob DEF C!CreationInv
<1>4. CASE job.pc = "receipt" /\ dirs' = (dirs \ {m}) \cup {[m EXCEPT !.receipt = job.expected]}
  <2> DEFINE x == [m EXCEPT !.receipt = job.expected]
  <2>1. m \in dirs /\ Shaped(m) /\ ~m.active
    BY <1>4, Building DEF C!Building
  <2> HIDE DEF m
  <2>2. Shaped(x) /\ x.number = m.number /\ x.receipt = job.expected /\ x.active = m.active
    BY <2>1 DEF Shaped, Fields
  <2>3. C!DirectoriesStand' /\ C!ActiveIsWhole'
    BY <1>1, <1>4, <2>1, <2>2, UpdateKeeps
  <2> QED
    BY <1>1, <2>3, IdleJob DEF C!CreationInv
<1>5. CASE job.pc = "rename" /\ dirs' = (dirs \ {m}) \cup {[m EXCEPT !.active = TRUE]}
  <2> DEFINE x == [m EXCEPT !.active = TRUE]
  <2>1. /\ m \in dirs /\ Shaped(m) /\ ~m.active /\ m.for = job.id /\ m.base = job.expected
        /\ m.synced = C!Complete /\ m.receipt = job.expected
        /\ \A d \in dirs : d.active => d.for # job.id
    BY <1>5, Building DEF C!Building
  <2>2. job.expected # NoGeneration
    BY <1>5, SessionsAssumption DEF C!CreationInv, C!JobStands
  <2> HIDE DEF m
  <2>3. /\ Shaped(x) /\ x.number = m.number /\ x.for = m.for /\ x.base = m.base /\ x.receipt = m.receipt
        /\ x.parts = m.parts /\ x.synced = m.synced
    BY <2>1, ActiveFields, ZenonT(60)
  <2>4. m.parts = C!Complete
    BY <2>1 DEF Shaped, C!Complete
  <2> HIDE DEF x
  <2>5. C!DirectoriesStand' /\ C!ActiveIsWhole'
    BY <1>1, <1>5, <2>1, <2>2, <2>3, <2>4, UpdateKeeps DEF x
  <2> QED
    BY <1>1, <2>5, IdleJob DEF C!CreationInv
<1> QED
  BY <1>2, <1>3, <1>4, <1>5

LEMMA KillHostKeeps ==
  ASSUME C!CreationInv, C!KillHost
  PROVE  C!CreationInv'
<1>1. job' = C!Idle /\ UNCHANGED <<source, dirs, created>>
  BY DEF C!KillHost, C!GiveUp
<1> QED
  BY <1>1, SameDirectories, IdleJob DEF C!CreationInv

\* What a stop of the machine leaves of a directory.
LEMMA SurvivorFields ==
  ASSUME NEW d, Shaped(d), NEW x \in C!Survivors(d)
  PROVE  /\ Shaped(x) /\ x.number = d.number /\ x.for = d.for /\ x.base = d.base /\ x.receipt = d.receipt
         /\ x.active => d.active /\ x.kept
         /\ d.kept => x.active /\ x.kept
         /\ d.synced = C!Complete => x.parts = C!Complete /\ x.synced = C!Complete
<1>1. PICK a \in {d.active, d.kept}, n \in d.synced..d.parts : x = C!Survivor(d, a, n)
  BY DEF C!Survivors
<1>2. /\ DOMAIN x = Fields /\ x.number = d.number /\ x.for = d.for /\ x.base = d.base /\ x.receipt = d.receipt
      /\ x.active = a /\ x.kept = a /\ x.parts = n /\ x.synced = n
  BY <1>1 DEF Shaped, Fields, C!Survivor
<1>3. a \in BOOLEAN /\ (a => d.active) /\ (d.kept => a)
  BY DEF Shaped
<1>4. n \in 0..C!Complete /\ n \in 0..n /\ (d.synced = C!Complete => n = C!Complete)
  BY DEF Shaped, C!Complete
<1> QED
  BY <1>2, <1>3, <1>4 DEF Shaped

LEMMA StopMachineKeeps ==
  ASSUME C!CreationInv, C!StopMachine
  PROVE  C!CreationInv'
<1>1. job' = C!Idle /\ UNCHANGED <<source, created>> /\ C!DirectoriesStand /\ C!ActiveIsWhole
  BY DEF C!StopMachine, C!GiveUp, C!CreationInv
<1>2. PICK f : (\A d \in dirs : f[d] \in C!Survivors(d)) /\ dirs' = {f[d] : d \in dirs}
  BY DEF C!StopMachine
<1>3. \A d \in dirs :
         /\ Shaped(f[d]) /\ f[d].number = d.number /\ f[d].for = d.for /\ f[d].base = d.base
         /\ f[d].receipt = d.receipt
         /\ f[d].active => d.active /\ f[d].kept
         /\ d.kept => f[d].active /\ f[d].kept
         /\ d.synced = C!Complete => f[d].parts = C!Complete /\ f[d].synced = C!Complete
  BY <1>1, <1>2, ShapedDirectories, SurvivorFields
<1>4. C!DirectoriesStand'
  BY <1>1, <1>2, <1>3, Renewed
<1>5. \A x \in dirs' : x.active => /\ x.parts = C!Complete /\ x.synced = C!Complete
                                   /\ x.receipt = x.base /\ x.base # NoGeneration
  BY <1>1, <1>2, <1>3 DEF C!ActiveIsWhole
<1>6. \A x, y \in dirs' : x.active /\ y.active /\ x.for = y.for => x = y
  BY <1>1, <1>2, <1>3 DEF C!ActiveIsWhole
<1>7. \A c \in created' : \E x \in dirs' : x.active /\ x.for = c.id /\ x.kept /\ x.base = c.expected
  <2> SUFFICES ASSUME NEW c \in created
               PROVE  \E x \in dirs' : x.active /\ x.for = c.id /\ x.kept /\ x.base = c.expected
    BY <1>1
  <2>1. PICK d \in dirs : d.active /\ d.for = c.id /\ d.kept /\ d.base = c.expected
    BY <1>1 DEF C!ActiveIsWhole
  <2>2. f[d] \in dirs'
    BY <1>2
  <2> QED
    BY <1>3, <2>1, <2>2
<1>8. C!ActiveIsWhole'
  BY <1>5, <1>6, <1>7 DEF C!ActiveIsWhole
<1> QED
  BY <1>1, <1>4, <1>8, IdleJob DEF C!CreationInv

LEMMA ChangeSourceKeeps ==
  ASSUME C!CreationInv, C!ChangeSource
  PROVE  C!CreationInv'
<1>1. UNCHANGED <<dirs, job, created>> /\ source' \in Generations
  BY DEF C!ChangeSource
<1>2. C!JobStands'
  BY <1>1 DEF C!CreationInv, C!JobStands, C!Active, C!Building, C!Complete
<1> QED
  BY <1>1, <1>2, SameDirectories DEF C!CreationInv

LEMMA CreationStepKeeps ==
  ASSUME C!CreationInv, C!CreationNext
  PROVE  C!CreationInv'
BY SubmitKeeps, OutcomeKeeps, AdmitKeeps, CaptureKeeps, WritePartKeeps, CommitReceiptKeeps,
   ActivateKeeps, SyncRootKeeps, AnswerCreatedKeeps, CreationFailsKeeps, KillHostKeeps,
   RestartHostKeeps, StopMachineKeeps, ChangeSourceKeeps DEF C!CreationNext

-----------------------------------------------------------------------------
(* The creation in a session.                                              *)

LEMMA CreationStarts ==
  ASSUME C!CreationInit
  PROVE  C!CreationInv
<1>1. C!DirectoriesStand /\ C!ActiveIsWhole
  BY FS_EmptySet, SameFinite DEF C!CreationInit, C!DirectoriesStand, C!ActiveIsWhole
<1>2. C!JobStands
  BY DEF C!CreationInit, C!JobStands, C!Idle, C!Building
<1> QED
  BY <1>1, <1>2 DEF C!CreationInv, C!CreationInit

LEMMA SameCreation ==
  ASSUME C!CreationInv, UNCHANGED creation
  PROVE  C!CreationInv'
<1>1. UNCHANGED <<source, dirs, job, created>>
  BY DEF creation
<1>2. C!JobStands'
  BY <1>1 DEF C!CreationInv, C!JobStands, C!Active, C!Building, C!Complete
<1> QED
  BY <1>1, <1>2, SameDirectories DEF C!CreationInv

\* The directories, the resources with their names and the creation in progress
\* stand in every state, whatever fails, is killed or loses power
\* (native_resident.rs, create_fork of native_host.rs).
THEOREM CreationInvariant == SessionsSpec => []C!CreationInv
<1>1. SessionsInit => C!CreationInv
  BY CreationStarts DEF SessionsInit
<1>2. C!CreationInv /\ [SessionsNext]_all => C!CreationInv'
  <2> SUFFICES ASSUME C!CreationInv, [SessionsNext]_all PROVE C!CreationInv'
    OBVIOUS
  <2>1. CASE C!CreationNext
    BY <2>1, CreationStepKeeps
  <2>2. CASE UNCHANGED creation
    BY <2>2, SameCreation
  <2> QED
    BY <2>1, <2>2 DEF SessionsNext, all
<1> QED
  BY <1>1, <1>2, PTL DEF SessionsSpec

LEMMA AtMostOne ==
  ASSUME NEW X, \A x, y \in X : x = y
  PROVE  Cardinality(X) <= 1
<1>1. CASE X = {}
  BY <1>1, FS_EmptySet
<1>2. CASE X # {}
  <2>1. PICK x \in X : TRUE
    BY <1>2
  <2>2. X = {x}
    BY <2>1
  <2>3. Cardinality(X) = 1
    BY <2>2, FS_Singleton, Zenon
  <2> QED
    BY <2>3
<1> QED
  BY <1>1, <1>2

\* A creation request makes one whole resource, and an answered one is there for
\* good, wherever a failure, a kill or a power loss hits between the receipt,
\* the rename and the sync of the root (create_canonical, create_child,
\* creation_outcome).
THEOREM CreationStands == SessionsSpec => []AnsweredCreationStands
<1>1. C!CreationInv => AnsweredCreationStands
  <2> SUFFICES ASSUME C!CreationInv PROVE C!CreatedOnce
    BY DEF AnsweredCreationStands
  <2>1. C!ActiveIsWhole
    BY DEF C!CreationInv
  <2>2. ASSUME NEW id \in Creations PROVE C!Cardinality(C!Active(id)) <= 1
    <3>1. \A x, y \in C!Active(id) : x = y
      BY <2>1 DEF C!ActiveIsWhole, C!Active
    <3> QED
      BY <3>1, AtMostOne, SameCardinality
  <2> QED
    BY <2>1, <2>2 DEF C!CreatedOnce, C!ActiveIsWhole, C!Active
<1> QED
  BY <1>1, CreationInvariant, PTL

-----------------------------------------------------------------------------
(* Journals.                                                               *)

LEMMA OfItsElements ==
  ASSUME NEW X, NEW t \in Seq(X)
  PROVE  t \in Seq({t[k] : k \in DOMAIN t})
OBVIOUS

LEMMA AppendOf ==
  ASSUME NEW X, NEW s \in Seq(X), NEW e \in X
  PROVE  /\ Append(s, e) \in Seq(X)
         /\ Len(s) \in Nat /\ Len(Append(s, e)) = Len(s) + 1
         /\ DOMAIN s = 1..Len(s) /\ DOMAIN Append(s, e) = 1..(Len(s) + 1)
         /\ \A k \in 1..Len(s) : Append(s, e)[k] = s[k]
         /\ Append(s, e)[Len(s) + 1] = e
OBVIOUS

LEMMA PrefixOf ==
  ASSUME NEW X, NEW s \in Seq(X), NEW n \in 0..Len(s)
  PROVE  /\ SubSeq(s, 1, n) \in Seq(X)
         /\ Len(SubSeq(s, 1, n)) = n /\ DOMAIN SubSeq(s, 1, n) = 1..n
         /\ DOMAIN s = 1..Len(s)
         /\ \A k \in 1..n : SubSeq(s, 1, n)[k] = s[k]
OBVIOUS

\* A journal of whatever records it has.
Journal(log) == log \in Seq({log[k] : k \in DOMAIN log})

LEMMA OfJournal ==
  ASSUME NEW log, Journal(log)
  PROVE  Len(log) \in Nat /\ DOMAIN log = 1..Len(log)
BY DEF Journal

\* t is s with e appended.
Extended(s, e, t) ==
    /\ Journal(t)
    /\ Len(s) \in Nat /\ Len(t) = Len(s) + 1 /\ DOMAIN s = 1..Len(s) /\ DOMAIN t = 1..(Len(s) + 1)
    /\ \A k \in 1..Len(s) : t[k] = s[k]
    /\ t[Len(s) + 1] = e

LEMMA Appending ==
  ASSUME NEW s, Journal(s), NEW e, NEW t, t = Append(s, e)
  PROVE  Extended(s, e, t)
<1> DEFINE X == {s[k] : k \in DOMAIN s} \cup {e}
<1>1. s \in Seq(X) /\ e \in X
  BY DEF Journal
<1> HIDE DEF X
<1>2. t \in Seq(X)
  BY <1>1, AppendOf
<1>3. Journal(t)
  BY ONLY <1>2, OfItsElements, Zenon DEF Journal
<1>4. /\ Len(s) \in Nat /\ Len(t) = Len(s) + 1 /\ DOMAIN s = 1..Len(s) /\ DOMAIN t = 1..(Len(s) + 1)
      /\ \A k \in 1..Len(s) : t[k] = s[k]
      /\ t[Len(s) + 1] = e
  BY <1>1, AppendOf
<1> QED
  BY ONLY <1>3, <1>4, Zenon DEF Extended

\* t is the first n records of s.
CutTo(s, n, t) ==
    /\ Journal(t)
    /\ Len(t) = n /\ DOMAIN s = 1..Len(s) /\ DOMAIN t = 1..n
    /\ \A k \in 1..n : t[k] = s[k]

LEMMA Prefixing ==
  ASSUME NEW s, Journal(s), NEW n \in 0..Len(s), NEW t, t = SubSeq(s, 1, n)
  PROVE  CutTo(s, n, t)
<1> DEFINE X == {s[k] : k \in DOMAIN s}
<1>1. s \in Seq(X)
  BY DEF Journal
<1> HIDE DEF X
<1>2. t \in Seq(X)
  BY <1>1, PrefixOf
<1>3. Journal(t)
  BY ONLY <1>2, OfItsElements, Zenon DEF Journal
<1>4. /\ Len(t) = n /\ DOMAIN s = 1..Len(s) /\ DOMAIN t = 1..n
      /\ \A k \in 1..n : t[k] = s[k]
  BY <1>1, PrefixOf
<1> QED
  BY ONLY <1>3, <1>4, Zenon DEF CutTo

\* Taking the last record out of a journal leaves the journal before it.
LEMMA LastRemoved ==
  ASSUME NEW X, NEW s \in Seq(X), NEW e \in X
  PROVE  LET u == S!RemoveAt(Append(s, e), Len(s) + 1)
         IN  Len(u) = Len(s) /\ \A k \in 1..Len(s) : u[k] = s[k]
<1> DEFINE t == Append(s, e)
<1>1. t \in Seq(X) /\ Len(t) = Len(s) + 1 /\ Len(s) \in Nat /\ \A k \in 1..Len(s) : t[k] = s[k]
  BY AppendOf
<1> HIDE DEF t
<1> DEFINE a == SubSeq(t, 1, Len(s))
           b == SubSeq(t, Len(s) + 2, Len(s) + 1)
<1>2. a \in Seq(X) /\ Len(a) = Len(s) /\ \A k \in 1..Len(s) : a[k] = s[k]
  BY <1>1
<1>3. b \in Seq(X) /\ Len(b) = 0
  BY <1>1
<1>4. S!RemoveAt(t, Len(s) + 1) = a \o b
  BY <1>1 DEF S!RemoveAt
<1> HIDE DEF a, b
<1>5. Len(a \o b) = Len(s) /\ \A k \in 1..Len(s) : (a \o b)[k] = a[k]
  BY <1>1, <1>2, <1>3
<1> QED
  BY <1>2, <1>4, <1>5 DEF t

\* A replay starts at Start and goes on record by record.
LEMMA ReplaysStep ==
  ASSUME NEW log
  PROVE  /\ S!Replays(log)[0] = S!Start
         /\ \A k \in Nat \ {0} : S!Replays(log)[k] = S!Replay(S!Replays(log)[k - 1], log[k])
BY ReplaysUnfold

\* Journals with the same first records replay alike up to there.
LEMMA ReplaysAgree ==
  ASSUME NEW a, NEW b, NEW n \in Nat, \A k \in 1..n : a[k] = b[k]
  PROVE  \A k \in 0..n : S!Replays(a)[k] = S!Replays(b)[k]
<1>1. Replaying(a, n, S!Replays(a)) /\ Replaying(b, n, S!Replays(b))
  BY ReplaysStep DEF Replaying
<1> QED
  BY <1>1, ReplayingIsUnique

\* The state of a journal after one more record.
Follows(s, e, t) ==
    /\ \A k \in 0..Len(s) : S!Replays(t)[k] = S!Replays(s)[k]
    /\ S!State(t) = S!Replay(S!State(s), e)
    /\ S!Replays(t)[Len(s) + 1] = S!State(t) /\ S!Replays(s)[Len(s)] = S!State(s)

LEMMA StateAfter ==
  ASSUME NEW s, Journal(s), NEW e, NEW t, t = Append(s, e)
  PROVE  Follows(s, e, t)
<1>1. /\ Len(s) \in Nat /\ Len(t) = Len(s) + 1
      /\ \A k \in 1..Len(s) : t[k] = s[k]
      /\ t[Len(s) + 1] = e
  BY Appending DEF Extended
<1>2. \A k \in 0..Len(s) : S!Replays(t)[k] = S!Replays(s)[k]
  BY <1>1, ReplaysAgree
<1>3. S!Replays(t)[Len(s) + 1] = S!Replay(S!Replays(t)[Len(s)], e)
  <2>1. Len(s) + 1 \in Nat \ {0} /\ (Len(s) + 1) - 1 = Len(s)
    BY <1>1
  <2> QED
    BY <1>1, <2>1, ReplaysStep, ZenonT(60)
<1>4. S!Replays(t)[Len(t)] = S!State(t) /\ S!Replays(s)[Len(s)] = S!State(s)
  BY DEF S!State
<1>5. Len(s) \in 0..Len(s)
  BY <1>1
<1> QED
  BY <1>1, <1>2, <1>3, <1>4, <1>5 DEF Follows

-----------------------------------------------------------------------------
(* Requests and their records.                                             *)

JournalInv == Journal(records) /\ settled \in 1..Len(records) /\ S!AnswersStand

AnswerFrom(r) == [request |-> r.request, input |-> r.input, response |-> r.response]

LEMMA JournalGrows ==
  ASSUME JournalInv, NEW r, records' = Append(records, r),
         r.request # Own => \A k \in DOMAIN records : records[k].request # r.request,
         settled' \in {settled, Len(records')},
         answers' = answers \/ (settled' = Len(records') /\ answers' = answers \cup {AnswerFrom(r)})
  PROVE  JournalInv'
<1> DEFINE n == Len(records)
<1>0. Journal(records) /\ settled \in 1..n /\ S!AnswersStand
  BY DEF JournalInv
<1>a. Extended(records, r, records')
  BY <1>0, Appending
<1>1. /\ Journal(records') /\ n \in Nat /\ Len(records') = n + 1
      /\ DOMAIN records = 1..n /\ DOMAIN records' = 1..(n + 1)
      /\ \A k \in 1..n : records'[k] = records[k]
      /\ records'[n + 1] = r
  BY <1>a DEF Extended
<1> HIDE DEF n
<1>2. settled' \in 1..(n + 1) /\ settled <= settled'
  BY <1>0, <1>1
<1>3. \A a \in answers' : \E k \in 1..settled' :
          records'[k].request = a.request /\ records'[k].input = a.input /\ records'[k].response = a.response
  <2> SUFFICES ASSUME NEW a \in answers'
               PROVE  \E k \in 1..settled' : /\ records'[k].request = a.request /\ records'[k].input = a.input
                                             /\ records'[k].response = a.response
    OBVIOUS
  <2>1. CASE a \in answers
    <3>1. PICK k \in 1..settled : records[k].request = a.request /\ records[k].input = a.input
                                  /\ records[k].response = a.response
      BY <1>0, <2>1 DEF S!AnswersStand
    <3>2. k \in 1..settled' /\ k \in 1..n
      BY <1>0, <1>1, <1>2
    <3> QED
      BY <1>1, <3>1, <3>2
  <2>2. CASE a \notin answers
    <3>1. settled' = n + 1 /\ a = AnswerFrom(r)
      BY <1>1, <2>2
    <3>2. n + 1 \in 1..settled' /\ a.request = r.request /\ a.input = r.input /\ a.response = r.response
      BY <1>1, <3>1 DEF AnswerFrom
    <3> QED
      BY <1>1, <3>2
  <2> QED
    BY <2>1, <2>2
<1>4. \A i, j \in DOMAIN records' :
          records'[i].request = records'[j].request => i = j \/ records'[i].request = Own
  <2> SUFFICES ASSUME NEW i \in 1..(n + 1), NEW j \in 1..(n + 1), records'[i].request = records'[j].request,
                      records'[i].request # Own
               PROVE  i = j
    BY <1>1
  <2>1. CASE i \in 1..n /\ j \in 1..n
    BY <1>0, <1>1, <2>1 DEF S!AnswersStand
  <2>2. CASE i = n + 1 /\ j = n + 1
    BY <2>2
  <2>3. CASE i = n + 1 /\ j \in 1..n
    BY <1>1, <2>3
  <2>4. CASE i \in 1..n /\ j = n + 1
    BY <1>1, <2>4
  <2> QED
    BY <1>1, <2>1, <2>2, <2>3, <2>4
<1> QED
  BY <1>1, <1>2, <1>3, <1>4 DEF JournalInv, S!AnswersStand

LEMMA JournalStays ==
  ASSUME JournalInv, records' = records, settled' \in {settled, Len(records)},
         answers' = answers \/ (settled' = Len(records) /\ \E k \in DOMAIN records :
                                                              answers' = answers \cup {AnswerFrom(records[k])})
  PROVE  JournalInv'
<1> DEFINE n == Len(records)
<1>0. Journal(records) /\ settled \in 1..n /\ S!AnswersStand /\ n \in Nat /\ DOMAIN records = 1..n
  BY OfJournal DEF JournalInv
<1> HIDE DEF n
<1>1. settled' \in 1..n /\ settled <= settled'
  BY <1>0 DEF n
<1>2. ASSUME NEW a \in answers'
      PROVE  \E k \in 1..settled' : /\ records[k].request = a.request /\ records[k].input = a.input
                                    /\ records[k].response = a.response
  <2>1. CASE a \in answers
    <3>1. PICK k \in 1..settled : records[k].request = a.request /\ records[k].input = a.input
                                  /\ records[k].response = a.response
      BY <1>0, <2>1 DEF S!AnswersStand
    <3>2. k \in 1..settled'
      BY <1>0, <1>1
    <3> QED
      BY <3>1, <3>2
  <2>2. CASE a \notin answers
    <3>1. PICK k \in 1..n : settled' = n /\ a = AnswerFrom(records[k])
      BY <1>0, <2>2 DEF n
    <3> QED
      BY <3>1 DEF AnswerFrom
  <2> QED
    BY <2>1, <2>2
<1> QED
  BY <1>0, <1>1, <1>2 DEF JournalInv, S!AnswersStand, n

\* A power loss takes no record that anybody was told of.
LEMMA JournalCut ==
  ASSUME JournalInv, NEW n \in settled..Len(records), records' = SubSeq(records, 1, n),
         settled' = n, answers' = answers
  PROVE  JournalInv'
<1>0. Journal(records) /\ settled \in 1..Len(records) /\ S!AnswersStand /\ Len(records) \in Nat
  BY OfJournal DEF JournalInv
<1>1. n \in 0..Len(records) /\ n \in 1..n /\ settled \in 1..n
  BY <1>0
<1>a. CutTo(records, n, records')
  BY <1>0, <1>1, Prefixing
<1>2. /\ Journal(records') /\ Len(records') = n /\ DOMAIN records = 1..Len(records) /\ DOMAIN records' = 1..n
      /\ \A k \in 1..n : records'[k] = records[k]
  BY <1>a DEF CutTo
<1>3. ASSUME NEW a \in answers'
      PROVE  \E k \in 1..n : /\ records'[k].request = a.request /\ records'[k].input = a.input
                             /\ records'[k].response = a.response
  <2>1. PICK k \in 1..settled : records[k].request = a.request /\ records[k].input = a.input
                                /\ records[k].response = a.response
    BY <1>0 DEF S!AnswersStand
  <2>2. k \in 1..n
    BY <1>0, <1>1
  <2> QED
    BY <1>2, <2>1, <2>2
<1>4. \A k \in 1..n : k \in DOMAIN records
  BY <1>0, <1>1, <1>2
<1>5. \A i, j \in DOMAIN records' :
          records'[i].request = records'[j].request => i = j \/ records'[i].request = Own
  BY <1>0, <1>2, <1>4 DEF S!AnswersStand
<1> QED
  BY <1>1, <1>2, <1>3, <1>5 DEF JournalInv, S!AnswersStand

\* What every record that a request prepares has.
LEMMA PreparedIs ==
  ASSUME NEW q, NEW input
  PROVE  LET r == S!Prepared(q, input) IN r.request = q /\ r.input = input
BY DEF S!Prepared, S!Committed

LEMMA AcceptedIsNew ==
  ASSUME NEW r, S!Accepts(records, r)
  PROVE  r.request # Own => \A k \in DOMAIN records : records[k].request # r.request
BY DEF S!Accepts

LEMMA RequestKeepsJournal ==
  ASSUME JournalInv, NEW q, NEW input,
         \/ S!Perform(q, input) \/ S!Repeat(q, input) \/ S!OutcomeUnknown(q, input)
         \/ S!PublicationFails(q, input) \/ S!CalculationFails(q, input) \/ S!KilledInCommit(q, input)
  PROVE  JournalInv'
<1> DEFINE r == S!Prepared(q, input)
<1>0. r.request = q /\ r.input = input
  BY PreparedIs
<1> HIDE DEF r
<1>1. CASE S!Perform(q, input)
  <2>1. S!Accepts(records, r) /\ records' = Append(records, r) /\ settled' = Len(records')
    BY <1>1 DEF S!Perform, r
  <2>2. answers' = answers \cup {[request |-> q, input |-> input, response |-> r.response]}
    BY <1>1 DEF S!Perform, S!Answer, r
  <2>3. answers' = answers \cup {AnswerFrom(r)}
    BY <1>0, <2>2 DEF AnswerFrom
  <2> QED
    BY <2>1, <2>3, AcceptedIsNew, JournalGrows
<1>2. CASE S!Repeat(q, input)
  <2>1. records' = records /\ settled' = Len(records)
    BY <1>2 DEF S!Repeat
  <2>2. PICK k \in S!Retained(q, input) :
           answers' = answers \cup {[request |-> q, input |-> input, response |-> records[k].response]}
    BY <1>2 DEF S!Repeat, S!Answer
  <2>3. k \in DOMAIN records /\ records[k].request = q /\ records[k].input = input
    BY <2>2 DEF S!Retained, S!Recorded
  <2>4. answers' = answers \cup {AnswerFrom(records[k])}
    BY <2>2, <2>3 DEF AnswerFrom
  <2> QED
    BY <2>1, <2>3, <2>4, JournalStays
<1>3. CASE S!OutcomeUnknown(q, input)
  <2>1. /\ records' = records \/ (records' = Append(records, r) /\ S!Accepts(records, r))
        /\ UNCHANGED <<settled, answers>>
    BY <1>3 DEF S!OutcomeUnknown, r
  <2> QED
    BY <2>1, AcceptedIsNew, JournalGrows, JournalStays
<1>4. CASE S!PublicationFails(q, input)
  <2>1. S!Accepts(records, r) /\ records' = Append(records, r) /\ settled' = Len(records') /\ answers' = answers
    BY <1>4 DEF S!PublicationFails, r
  <2> QED
    BY <2>1, AcceptedIsNew, JournalGrows
<1>5. CASE S!CalculationFails(q, input)
  BY <1>5, JournalStays DEF S!CalculationFails
<1>6. CASE S!KilledInCommit(q, input)
  <2>1. S!Accepts(records, r) /\ records' = Append(records, r) /\ UNCHANGED <<settled, answers>>
    BY <1>6 DEF S!KilledInCommit, r
  <2> QED
    BY <2>1, AcceptedIsNew, JournalGrows
<1> QED
  BY <1>1, <1>2, <1>3, <1>4, <1>5, <1>6

LEMMA QueryKeepsJournal ==
  ASSUME JournalInv, NEW q, S!QueryOutcome(q)
  PROVE  JournalInv'
<1>1. records' = records /\ settled' = Len(records)
  BY DEF S!QueryOutcome
<1>2. PICK k \in S!Recorded(q) :
         answers' = answers \cup {[request |-> q, input |-> records[k].input, response |-> records[k].response]}
  BY DEF S!QueryOutcome, S!Answer
<1>3. k \in DOMAIN records /\ answers' = answers \cup {AnswerFrom(records[k])}
  BY <1>2 DEF S!Recorded, AnswerFrom
<1> QED
  BY <1>1, <1>3, JournalStays

\* Records of the host itself: plans of file exports and restarts.
LEMMA OwnRecordKeepsJournal ==
  ASSUME JournalInv, S!Attach \/ \E q \in Clients : S!PlanFileExport(q)
  PROVE  JournalInv'
<1>1. PICK r : r.request = Own /\ records' = Append(records, r) /\ settled' = Len(records') /\ answers' = answers
  <2>1. CASE S!Attach
    <3> DEFINE r == S!Committed(Own, S!NoInput, "Restart", Nothing, "None",
                                S!State(records).revision + 1, S!NoResponse)
    <3>1. r.request = Own
      BY DEF S!Committed
    <3>2. records' = Append(records, r) /\ settled' = Len(records') /\ answers' = answers
      BY <2>1 DEF S!Attach
    <3> QED
      BY <3>1, <3>2
  <2>2. ASSUME NEW q \in Clients, S!PlanFileExport(q)
        PROVE  \E r : r.request = Own /\ records' = Append(records, r) /\ settled' = Len(records')
                      /\ answers' = answers
    <3> DEFINE r == S!Committed(Own, [S!NoInput EXCEPT !.op = "file_export"], "Receipt",
                                q, "None", runtime.revision, S!NoResponse)
    <3>1. r.request = Own
      BY DEF S!Committed
    <3>2. records' = Append(records, r) /\ settled' = Len(records') /\ answers' = answers
      BY <2>2 DEF S!PlanFileExport
    <3> QED
      BY <3>1, <3>2
  <2> QED
    BY <2>1, <2>2
<1> QED
  BY <1>1, JournalGrows

LEMMA StepKeepsJournal ==
  ASSUME JournalInv, S!SessionNext
  PROVE  JournalInv'
<1>1. CASE \E q \in Clients : S!Execute(q)
  <2>1. PICK q \in Clients : S!Execute(q)
    BY <1>1
  <2> QED
    BY <2>1, RequestKeepsJournal, QueryKeepsJournal, OwnRecordKeepsJournal DEF S!Execute
<1>2. CASE S!Attach
  BY <1>2, OwnRecordKeepsJournal
<1>3. CASE S!AttachTerminal \/ S!Detach
  BY <1>3, JournalStays DEF S!AttachTerminal, S!Detach
<1>4. CASE S!LosePower
  <2>1. PICK n \in settled..Len(records) : records' = SubSeq(records, 1, n) /\ settled' = n /\ answers' = answers
    BY <1>4 DEF S!LosePower
  <2> QED
    BY <2>1, JournalCut
<1> QED
  BY <1>1, <1>2, <1>3, <1>4 DEF S!SessionNext

LEMMA JournalStarts ==
  ASSUME S!SessionInit
  PROVE  JournalInv
<1>1. records = <<S!CreationReceipt>> /\ settled = 1 /\ answers = {}
  BY DEF S!SessionInit
<1>2. Journal(records) /\ Len(records) = 1 /\ DOMAIN records = {1}
  BY <1>1 DEF Journal
<1> QED
  BY <1>1, <1>2 DEF JournalInv, S!AnswersStand

LEMMA SameJournal ==
  ASSUME JournalInv, UNCHANGED session
  PROVE  JournalInv'
BY JournalStays DEF session

LEMMA JournalInvariant == SessionsSpec => []JournalInv
<1>1. SessionsInit => JournalInv
  BY JournalStarts DEF SessionsInit
<1>2. JournalInv /\ [SessionsNext]_all => JournalInv'
  <2> SUFFICES ASSUME JournalInv, [SessionsNext]_all PROVE JournalInv'
    OBVIOUS
  <2>1. CASE S!SessionNext
    BY <2>1, StepKeepsJournal
  <2>2. CASE UNCHANGED session
    BY <2>2, SameJournal
  <2> QED
    BY <2>1, <2>2 DEF SessionsNext, all
<1> QED
  BY <1>1, <1>2, PTL DEF SessionsSpec

\* Whatever a client was answered stays so: one record, which no power loss
\* takes, holds the request with that very response, after any lost answer,
\* poisoned owner, restart, later edit or discard
\* (ResidentSessionRuntime::execute, OutcomeStorage).
THEOREM RequestsAgree == SessionsSpec => []RepeatedRequestsAgree
<1>1. JournalInv => RepeatedRequestsAgree
  BY DEF JournalInv, RepeatedRequestsAgree
<1> QED
  BY <1>1, JournalInvariant, PTL

-----------------------------------------------------------------------------
(* What a journal replays to.                                              *)

Listed(r) == r.transition = "CalculationPublish" \/ r.input.op \in {"write", "apply_staged"}
NamesBefore(log, k) ==
    Listed(log[k]) => /\ k > 1
                      /\ log[k].response # S!NoResponse => log[k].response.before = log[k - 1].revision
RevisionsRise(log, k) == log[k].revision \in Nat /\ \A j \in 1..k : log[j].revision <= log[k].revision
Marks(log, k) ==
    LET marks == S!Replays(log)[k].checkpoints
    IN  IsFiniteSet(marks) /\ \A c \in marks : \E j \in 1..k : c.id = log[j].request
Flags(log, k) ==
    LET h == S!Replays(log)[k]
    IN  h.current \in BOOLEAN /\ h.discarded \in BOOLEAN /\ (h.discarded => k = Len(log))
HistoryAt(log, k) == Flags(log, k) /\ Marks(log, k) /\ RevisionsRise(log, k) /\ NamesBefore(log, k)
History(log) == \A k \in 1..Len(log) : HistoryAt(log, k)

LEMMA HistoryMeans ==
  ASSUME S!HistoryStands, Journal(records)
  PROVE  History(records)
<1> SUFFICES ASSUME NEW k \in 1..Len(records) PROVE HistoryAt(records, k)
  BY DEF History
<1> DEFINE h == S!Replays(records)[k]
           r == records[k]
<1>1. DOMAIN records = 1..Len(records) /\ Len(records) \in Nat /\ k \in Nat
  BY OfJournal, SMTT(60)
<1>2. /\ h.current \in BOOLEAN /\ h.discarded \in BOOLEAN
      /\ h.discarded => k = Len(records)
      /\ S!IsFiniteSet(h.checkpoints)
      /\ S!Ids(h.checkpoints) \subseteq {records[j].request : j \in 1..k}
      /\ r.revision \in Nat
      /\ \A j \in 1..k : records[j].revision <= r.revision
      /\ k \in DOMAIN S!OperationHistory =>
            k > 1 /\ S!OperationHistory[k].before = records[k - 1].revision
  BY <1>1, ZenonT(60) DEF S!HistoryStands
<1>3. Marks(records, k)
  BY <1>2, SameFinite DEF Marks, S!Ids
<1>4. NamesBefore(records, k)
  BY <1>1, <1>2 DEF NamesBefore, S!OperationHistory, Listed
<1> QED
  BY <1>2, <1>3, <1>4 DEF HistoryAt, Flags, RevisionsRise

LEMMA HistoryHolds ==
  ASSUME History(records)', Journal(records)'
  PROVE  S!HistoryStands'
<1>1. DOMAIN records' = 1..Len(records') /\ Len(records') \in Nat
  BY OfJournal
<1> SUFFICES ASSUME NEW k \in DOMAIN records'
             PROVE  (LET h == S!Replays(records)[k]
                         r == records[k]
                     IN  /\ h.current \in BOOLEAN /\ h.discarded \in BOOLEAN
                         /\ h.discarded => k = Len(records)
                         /\ S!IsFiniteSet(h.checkpoints)
                         /\ S!Ids(h.checkpoints) \subseteq {records[j].request : j \in 1..k}
                         /\ r.revision \in Nat
                         /\ \A j \in 1..k : records[j].revision <= r.revision
                         /\ k \in DOMAIN S!OperationHistory =>
                               k > 1 /\ S!OperationHistory[k].before = records[k - 1].revision)'
  BY DEF S!HistoryStands
<1>2. Flags(records', k) /\ Marks(records', k) /\ RevisionsRise(records', k) /\ NamesBefore(records', k)
  BY <1>1 DEF History, HistoryAt
<1>3. S!IsFiniteSet(S!Replays(records')[k].checkpoints)
      /\ S!Ids(S!Replays(records')[k].checkpoints) \subseteq {records'[j].request : j \in 1..k}
  BY <1>2, SameFinite DEF Marks, S!Ids
<1>4. k \in DOMAIN S!OperationHistory' =>
         k > 1 /\ S!OperationHistory'[k].before = records'[k - 1].revision
  BY <1>1, <1>2 DEF NamesBefore, S!OperationHistory, Listed
<1> QED
  BY <1>2, <1>3, <1>4 DEF Flags, RevisionsRise

LEMMA ReplayFields ==
  ASSUME NEW h, NEW r
  PROVE  LET x == S!Replay(h, r) IN
         /\ x.revision = r.revision /\ x.staged = S!StagedAfter(h.staged, r)
         /\ x.current = S!CurrentAfter(h.current, r)
         /\ x.discarded = (h.discarded \/ r.input.op = "discard_fork")
         /\ x.checkpoints = IF r.transition = "Checkpoint"
                            THEN h.checkpoints \cup {[id |-> r.request, at |-> r.revision]}
                            ELSE IF r.transition = "CheckpointDelete"
                            THEN {c \in h.checkpoints : c.id # r.item}
                            ELSE h.checkpoints
BY DEF S!Replay

\* The revision of a journal is the one of its last record.
LEMMA StateRevision ==
  ASSUME NEW log, Journal(log), Len(log) >= 1
  PROVE  S!State(log).revision = log[Len(log)].revision
<1>1. Len(log) \in Nat \ {0}
  BY OfJournal
<1>2. S!State(log) = S!Replay(S!Replays(log)[Len(log) - 1], log[Len(log)])
  BY <1>1, ReplaysStep DEF S!State
<1> QED
  BY <1>2 DEF S!Replay

\* A record the journal takes.
Fits(log, r) ==
    /\ ~S!State(log).discarded
    /\ r.revision \in Nat /\ S!State(log).revision <= r.revision
    /\ Listed(r) /\ r.response # S!NoResponse => r.response.before = S!State(log).revision

\* One more record leaves the history of those before it as it was.
Alike(s, t, k) ==
    /\ k \in 1..Len(s) /\ \A j \in 1..k : t[j] = s[j]
    /\ S!Replays(t)[k] = S!Replays(s)[k]
    /\ S!Replays(s)[k].discarded => k = Len(t)

LEMMA HistoryBefore ==
  ASSUME NEW s, Journal(s), History(s), NEW t, NEW k, Alike(s, t, k)
  PROVE  HistoryAt(t, k)
<1> USE DEF Alike
<1>1. HistoryAt(s, k)
  BY DEF History
<1>2. k \in Nat /\ k \in 1..k /\ t[k] = s[k] /\ (k > 1 => k - 1 \in 1..k /\ t[k - 1] = s[k - 1])
  BY OfJournal
<1>3. Flags(t, k)
  BY <1>1 DEF HistoryAt, Flags
<1>4. Marks(t, k)
  BY <1>1, <1>2 DEF HistoryAt, Marks
<1>5. RevisionsRise(t, k)
  BY <1>1, <1>2 DEF HistoryAt, RevisionsRise
<1>6. NamesBefore(t, k)
  BY <1>1, <1>2 DEF HistoryAt, NamesBefore
<1> QED
  BY <1>3, <1>4, <1>5, <1>6 DEF HistoryAt

LEMMA HistoryGrows ==
  ASSUME NEW s, Journal(s), Len(s) >= 1, History(s), NEW e, NEW t, t = Append(s, e), Fits(s, e)
  PROVE  History(t)
<1> DEFINE n == Len(s)
<1>1. /\ Journal(t) /\ n \in Nat /\ Len(t) = n + 1 /\ \A k \in 1..n : t[k] = s[k]
      /\ t[n + 1] = e
  <2>1. Extended(s, e, t)
    BY Appending
  <2> QED
    BY <2>1 DEF Extended
<1>2. /\ \A k \in 0..n : S!Replays(t)[k] = S!Replays(s)[k]
      /\ S!Replays(t)[n + 1] = S!Replay(S!State(s), e)
      /\ S!Replays(s)[n] = S!State(s)
  <2>1. Follows(s, e, t)
    BY StateAfter
  <2> QED
    BY <1>1, <2>1 DEF Follows
<1>3. S!State(s).revision = s[n].revision
  BY StateRevision
<1>4. HistoryAt(s, n)
  BY <1>1 DEF History
<1> HIDE DEF n
<1>5. ASSUME NEW k \in 1..n PROVE HistoryAt(t, k)
  <2>1. k \in 1..Len(s) /\ k \in 1..Len(t) /\ k \in 0..n /\ \A j \in 1..k : t[j] = s[j]
    BY <1>1 DEF n
  <2>2. ~S!Replays(s)[k].discarded
    <3>1. HistoryAt(s, k)
      BY <2>1 DEF History
    <3>2. S!Replays(s)[k].discarded => k = n
      BY <3>1 DEF HistoryAt, Flags, n
    <3> QED
      BY <1>2, <3>2 DEF Fits
  <2> QED
    <3>1. Alike(s, t, k)
      BY <1>1, <1>2, <2>1, <2>2 DEF Alike
    <3> QED
      BY <3>1, HistoryBefore
<1>6. HistoryAt(t, n + 1)
  <2> DEFINE h == S!State(s)
             x == S!Replay(h, e)
  <2>1. /\ h.current \in BOOLEAN /\ h.discarded = FALSE
        /\ IsFiniteSet(h.checkpoints)
        /\ \A c \in h.checkpoints : \E j \in 1..n : c.id = s[j].request
        /\ \A j \in 1..n : s[j].revision <= s[n].revision
        /\ s[n].revision \in Nat
    BY <1>2, <1>4 DEF HistoryAt, Flags, Marks, RevisionsRise, Fits
  <2>2. /\ x.revision = e.revision
        /\ x.current = S!CurrentAfter(h.current, e)
        /\ x.discarded = (h.discarded \/ e.input.op = "discard_fork")
        /\ x.checkpoints = IF e.transition = "Checkpoint"
                           THEN h.checkpoints \cup {[id |-> e.request, at |-> e.revision]}
                           ELSE IF e.transition = "CheckpointDelete"
                           THEN {c \in h.checkpoints : c.id # e.item}
                           ELSE h.checkpoints
    BY ReplayFields
  <2> HIDE DEF h, x
  <2>3. S!Replays(t)[n + 1] = x
    BY <1>2 DEF h, x
  <2>4. Flags(t, n + 1)
    <3>1. x.current \in BOOLEAN
      BY <2>1, <2>2 DEF S!CurrentAfter
    <3> QED
      BY <1>1, <2>1, <2>2, <2>3, <3>1 DEF Flags
  <2>5. Marks(t, n + 1)
    <3> DEFINE m == [id |-> e.request, at |-> e.revision]
    <3>1. IsFiniteSet(x.checkpoints)
      <4>1. IsFiniteSet(h.checkpoints \cup {m})
        BY <2>1, FS_AddElement
      <4>2. IsFiniteSet({c \in h.checkpoints : c.id # e.item})
        BY <2>1, FS_Subset
      <4> QED
        BY <2>1, <2>2, <4>1, <4>2
    <3>2. ASSUME NEW c \in x.checkpoints PROVE \E j \in 1..(n + 1) : c.id = t[j].request
      <4>1. c \in h.checkpoints \/ c = m
        BY <2>2
      <4>2. CASE c \in h.checkpoints
        <5>1. PICK j \in 1..n : c.id = s[j].request
          BY <2>1, <4>2
        <5> QED
          BY <1>1, <5>1
      <4>3. CASE c = m
        <5>1. c.id = e.request /\ n + 1 \in 1..(n + 1)
          BY <1>1, <4>3
        <5> QED
          BY <1>1, <5>1
      <4> QED
        BY <4>1, <4>2, <4>3
    <3> QED
      BY <2>3, <3>1, <3>2 DEF Marks
  <2>6. RevisionsRise(t, n + 1)
    <3>1. e.revision \in Nat /\ s[n].revision <= e.revision
      BY <1>3 DEF Fits
    <3>2. ASSUME NEW j \in 1..(n + 1) PROVE t[j].revision <= e.revision
      <4>1. CASE j = n + 1
        BY <1>1, <3>1, <4>1
      <4>2. CASE j \in 1..n
        <5>1. HistoryAt(s, j) /\ t[j] = s[j]
          BY <1>1, <4>2 DEF History, n
        <5>2. s[j].revision \in Nat /\ s[j].revision <= s[n].revision
          BY <2>1, <4>2, <5>1 DEF HistoryAt, RevisionsRise
        <5> QED
          BY <2>1, <3>1, <5>1, <5>2
      <4> QED
        BY <1>1, <4>1, <4>2
    <3> QED
      BY <1>1, <3>1, <3>2 DEF RevisionsRise
  <2>7. NamesBefore(t, n + 1)
    <3>1. n + 1 > 1 /\ (n + 1) - 1 = n /\ t[n] = s[n]
      BY <1>1 DEF n
    <3> QED
      BY <1>1, <1>3, <3>1 DEF NamesBefore, Fits
  <2> QED
    BY <2>4, <2>5, <2>6, <2>7 DEF HistoryAt
<1>7. \A k \in 1..(n + 1) : k \in 1..n \/ k = n + 1
  BY <1>1
<1> QED
  BY <1>1, <1>5, <1>6, <1>7 DEF History

LEMMA HistoryCut ==
  ASSUME NEW s, Journal(s), History(s), NEW n \in 1..Len(s), NEW t, t = SubSeq(s, 1, n)
  PROVE  History(t)
<1>1. Len(s) \in Nat /\ n \in Nat /\ n \in 0..Len(s)
  BY OfJournal
<1>2. Journal(t) /\ Len(t) = n /\ \A k \in 1..n : t[k] = s[k]
  <2>1. CutTo(s, n, t)
    BY <1>1, Prefixing
  <2> QED
    BY <2>1 DEF CutTo
<1>3. \A k \in 0..n : S!Replays(t)[k] = S!Replays(s)[k]
  BY <1>1, <1>2, ReplaysAgree
<1>4. ASSUME NEW k \in 1..n PROVE HistoryAt(t, k)
  <2>1. k \in 1..Len(s) /\ k \in 1..Len(t) /\ k \in 0..n /\ \A j \in 1..k : t[j] = s[j]
    BY <1>1, <1>2
  <2>2. S!Replays(s)[k].discarded => k = Len(t)
    <3>1. HistoryAt(s, k)
      BY <2>1 DEF History
    <3>2. S!Replays(s)[k].discarded => k = Len(s)
      BY <3>1 DEF HistoryAt, Flags
    <3> QED
      BY <1>1, <1>2, <3>2
  <2> QED
    BY <1>1, <1>2, <1>3, <2>1, <2>2, HistoryBefore, ZenonT(60) DEF Alike
<1> QED
  BY <1>2, <1>4 DEF History

\* The journal without its last record replays to the state before it.
LEMMA WithoutLast ==
  ASSUME NEW s, Journal(s), NEW e
  PROVE  S!State(S!RemoveAt(Append(s, e), Len(s) + 1)) = S!State(s)
<1> DEFINE X == {s[k] : k \in DOMAIN s} \cup {e}
           u == S!RemoveAt(Append(s, e), Len(s) + 1)
<1>1. s \in Seq(X) /\ e \in X
  BY DEF Journal
<1> HIDE DEF X
<1>2. Len(u) = Len(s) /\ \A k \in 1..Len(s) : u[k] = s[k]
  BY <1>1, LastRemoved
<1> HIDE DEF u
<1>3. Len(s) \in Nat /\ Len(s) \in 0..Len(s)
  BY OfJournal
<1>4. S!Replays(u)[Len(s)] = S!Replays(s)[Len(s)]
  BY <1>2, <1>3, ReplaysAgree
<1>5. S!State(u) = S!State(s)
  BY <1>2, <1>4 DEF S!State
<1> QED
  BY <1>5 DEF u

-----------------------------------------------------------------------------
(* The runtime.                                                            *)

LEMMA SessionMeans ==
  ASSUME S!SessionInv
  PROVE  JournalInv /\ Journal(records) /\ Len(records) \in Nat /\ Len(records) >= 1
         /\ DOMAIN records = 1..Len(records) /\ History(records) /\ S!RuntimeStands
<1>1. JournalInv /\ Journal(records) /\ S!HistoryStands /\ S!RuntimeStands /\ settled \in 1..Len(records)
  BY DEF S!SessionInv, JournalInv, Journal
<1> QED
  BY <1>1, HistoryMeans, OfJournal

LEMMA SessionHolds ==
  ASSUME JournalInv', History(records)', S!RuntimeStands'
  PROVE  S!SessionInv'
<1>1. Journal(records)' /\ S!AnswersStand' /\ settled' \in 1..Len(records')
  BY DEF JournalInv
<1>2. S!HistoryStands'
  BY <1>1, HistoryHolds
<1> QED
  BY <1>1, <1>2 DEF S!SessionInv, Journal

LEMMA RevisionNow ==
  ASSUME S!SessionInv
  PROVE  S!State(records).revision \in Nat /\ S!State(records).current \in BOOLEAN
         /\ S!State(records).discarded \in BOOLEAN
<1>1. HistoryAt(records, Len(records)) /\ Journal(records) /\ Len(records) >= 1
  BY SessionMeans DEF History
<1>2. S!State(records).revision = records[Len(records)].revision
  BY <1>1, StateRevision
<1> QED
  BY <1>1, <1>2 DEF HistoryAt, RevisionsRise, Flags, S!State

\* A runtime that serves a request is in step with its journal.
LEMMA InStep ==
  ASSUME S!SessionInv, S!Usable
  PROVE  LET h == S!State(records) IN
         /\ runtime.st = "up" /\ runtime.poison = "none" /\ runtime.culprit = Nothing
         /\ runtime.revision = h.revision /\ runtime.staged = h.staged /\ runtime.current = h.current
         /\ h.discarded = FALSE
<1>1. S!RuntimeStands /\ S!State(records).discarded \in BOOLEAN
  BY SessionMeans, RevisionNow
<1> QED
  BY <1>1 DEF S!RuntimeStands, S!Usable, S!KnownDiscarded, S!Discarded

LEMMA PreparedFields ==
  ASSUME NEW q, NEW input
  PROVE  LET r == S!Prepared(q, input)
             transition == S!Transition(input)
             effect == S!EffectOf(input)
             after == S!Predicted(transition, effect)
         IN  /\ r.request = q /\ r.input = input /\ r.transition = transition /\ r.effect = effect
             /\ r.item = S!ItemOf(q, input) /\ r.revision = after
             /\ r.response = S!PreparedResponse(q, input, transition, effect, after)
BY DEF S!Prepared, S!Committed

LEMMA PreparedFits ==
  ASSUME S!SessionInv, NEW q, NEW input, S!Admissible(q, input), S!Accepts(records, S!Prepared(q, input))
  PROVE  Fits(records, S!Prepared(q, input))
<1> DEFINE r == S!Prepared(q, input)
           h == S!State(records)
<1>1. runtime.revision = h.revision /\ h.discarded = FALSE /\ h.revision \in Nat
  BY InStep, RevisionNow DEF S!Admissible
<1>2. r.revision \in {h.revision, h.revision + 1}
  BY <1>1, PreparedFields DEF S!Predicted
<1>3. r.response # S!NoResponse => r.response.before = h.revision
  BY DEF S!Accepts, S!Validated, S!ValidRevisions
<1> HIDE DEF r, h
<1>4. r.revision \in Nat /\ h.revision <= r.revision
  BY <1>1, <1>2
<1> QED
  BY <1>1, <1>3, <1>4 DEF Fits, r, h

LEMMA SessionGrows ==
  ASSUME S!SessionInv, NEW r, Fits(records, r), records' = Append(records, r)
  PROVE  /\ History(records)' /\ Extended(records, r, records')
         /\ S!State(records') = S!Replay(S!State(records), r)
<1>1. Journal(records) /\ Len(records) >= 1 /\ History(records)
  BY SessionMeans
<1>2. History(records')
  BY <1>1, HistoryGrows
<1>3. Extended(records, r, records') /\ Follows(records, r, records')
  BY <1>1, Appending, StateAfter
<1> QED
  BY <1>2, <1>3 DEF Follows

\* The runtime is gone, or serves a discarded resource.
LEMMA RuntimeDown ==
  ASSUME runtime' = S!Down \/ runtime' = [S!Down EXCEPT !.st = "terminal"]
  PROVE  S!RuntimeStands'
<1>1. /\ DOMAIN runtime' = {"st", "revision", "staged", "current", "discarded", "poison", "culprit"}
      /\ runtime'.st \in {"down", "terminal"} /\ runtime'.discarded = "unread"
      /\ runtime'.poison = "none" /\ runtime'.culprit = Nothing
  BY DEF S!Down
<1> QED
  BY <1>1 DEF S!RuntimeStands

\* A poisoned runtime lacks at most the record of the request that poisoned it.
LEMMA RuntimePoisoned ==
  ASSUME S!SessionInv, NEW q, NEW input, S!Admissible(q, input),
         NEW reason, reason # "none", runtime' = S!Poisoned(reason, q),
         \/ records' = records
         \/ \E r : r.request = q /\ records' = Append(records, r)
  PROVE  S!RuntimeStands'
<1> DEFINE h == S!State(records)
<1>1. /\ runtime.st = "up" /\ runtime.culprit = Nothing
      /\ runtime.revision = h.revision /\ runtime.staged = h.staged
  BY InStep DEF S!Admissible
<1>2. DOMAIN runtime = {"st", "revision", "staged", "current", "discarded", "poison", "culprit"}
      /\ runtime.discarded \in {"unread", "yes", "no"}
  BY SessionMeans DEF S!RuntimeStands
<1>3. S!Recorded(q) = {} /\ Journal(records)
  BY SessionMeans DEF S!Admissible
<1>4. S!KnownDiscarded \in {"unread", "yes", "no"}
  BY <1>2 DEF S!KnownDiscarded
<1>5. /\ DOMAIN runtime' = {"st", "revision", "staged", "current", "discarded", "poison", "culprit"}
      /\ runtime'.st = "up" /\ runtime'.discarded \in {"unread", "yes", "no"}
      /\ runtime'.poison = reason /\ runtime'.culprit = q
      /\ runtime'.revision = h.revision /\ runtime'.staged = h.staged
  BY <1>1, <1>2, <1>4 DEF S!Poisoned
<1>6. S!StateWithout(q)' = h
  <2>1. CASE records' = records
    <3>1. S!Recorded(q)' = {}
      BY <1>3, <2>1 DEF S!Recorded
    <3> QED
      BY <2>1, <3>1 DEF S!StateWithout
  <2>2. ASSUME NEW r, r.request = q, records' = Append(records, r) PROVE S!StateWithout(q)' = h
    <3> DEFINE n == Len(records)
    <3>1. Extended(records, r, records')
      BY <1>3, <2>2, Appending
    <3>2. /\ n \in Nat /\ DOMAIN records = 1..n /\ DOMAIN records' = 1..(n + 1)
          /\ \A k \in 1..n : records'[k] = records[k]
          /\ records'[n + 1] = r
      BY <3>1 DEF Extended
    <3>3. S!State(S!RemoveAt(records', n + 1)) = h
      BY <1>3, <2>2, WithoutLast
    <3> HIDE DEF n
    <3>4. \A k \in 1..n : records[k].request # q
      BY <1>3, <3>2 DEF S!Recorded
    <3>5. S!Recorded(q)' = {n + 1}
      BY <2>2, <3>2, <3>4 DEF S!Recorded
    <3>6. (CHOOSE k \in S!Recorded(q)' : TRUE) = n + 1
      BY <3>5
    <3>7. S!Recorded(q)' # {}
      BY <3>5
    <3>8. S!StateWithout(q)' = S!State(S!RemoveAt(records', CHOOSE k \in S!Recorded(q)' : TRUE))
      BY <3>7 DEF S!StateWithout
    <3> QED
      BY <3>3, <3>6, <3>8
  <2> QED
    BY <2>1, <2>2
<1>7. S!StateWithout(runtime.culprit)' = h
  BY <1>5, <1>6 DEF S!StateWithout, S!Recorded
<1> HIDE DEF h
<1> QED
  BY <1>5, <1>7 DEF S!RuntimeStands

\* The publication of a record keeps the runtime in step.
LEMMA RuntimePublishes ==
  ASSUME S!SessionInv, S!Usable, NEW r, S!State(records') = S!Replay(S!State(records), r),
         runtime' = S!PublishedIn(runtime, r)
  PROVE  S!RuntimeStands'
<1> DEFINE h == S!State(records)
           x == S!Replay(h, r)
<1>1. /\ runtime.st = "up" /\ runtime.poison = "none" /\ runtime.culprit = Nothing
      /\ runtime.revision = h.revision /\ runtime.staged = h.staged /\ runtime.current = h.current
      /\ h.discarded = FALSE
  BY InStep
<1>2. DOMAIN runtime = {"st", "revision", "staged", "current", "discarded", "poison", "culprit"}
  BY SessionMeans DEF S!RuntimeStands
<1>3. /\ x.revision = r.revision /\ x.staged = S!StagedAfter(h.staged, r)
      /\ x.current = S!CurrentAfter(h.current, r)
      /\ x.discarded = (h.discarded \/ r.input.op = "discard_fork")
  BY ReplayFields
<1>4. S!State(records)' = x
  OBVIOUS
<1> HIDE DEF h, x
<1>5. /\ DOMAIN runtime' = {"st", "revision", "staged", "current", "discarded", "poison", "culprit"}
      /\ runtime'.st = "up" /\ runtime'.poison = "none" /\ runtime'.culprit = Nothing
      /\ runtime'.revision = r.revision /\ runtime'.staged = S!StagedAfter(runtime.staged, r)
      /\ runtime'.current = S!CurrentAfter(runtime.current, r)
      /\ runtime'.discarded = IF r.input.op = "discard_fork" THEN "yes" ELSE "no"
  BY <1>1, <1>2 DEF S!PublishedIn
<1>6. /\ runtime'.revision = x.revision /\ runtime'.staged = x.staged /\ runtime'.current = x.current
      /\ x.discarded = (runtime'.discarded = "yes") /\ runtime'.discarded \in {"yes", "no"}
  BY <1>1, <1>3, <1>5
<1> QED
  BY <1>4, <1>5, <1>6 DEF S!RuntimeStands

\* A runtime that only learns whether its resource is discarded.
LEMMA RuntimeLearns ==
  ASSUME S!SessionInv, records' = records, runtime.st = "up",
         NEW d, runtime' = [runtime EXCEPT !.discarded = d],
         d = S!KnownDiscarded \/ (d = "yes" /\ S!State(records).discarded)
  PROVE  S!RuntimeStands'
<1> DEFINE h == S!State(records)
<1>1. S!RuntimeStands /\ h.discarded \in BOOLEAN
  BY SessionMeans, RevisionNow
<1>2. /\ d \in {"yes", "no"}
      /\ runtime.poison = "none" => (d = "yes" => h.discarded) /\ (d = "no" => ~h.discarded)
  BY <1>1 DEF S!KnownDiscarded, S!Discarded, S!RuntimeStands
<1>3. /\ DOMAIN runtime' = DOMAIN runtime /\ runtime'.discarded = d
      /\ runtime'.st = runtime.st /\ runtime'.poison = runtime.poison /\ runtime'.culprit = runtime.culprit
      /\ runtime'.revision = runtime.revision /\ runtime'.staged = runtime.staged
      /\ runtime'.current = runtime.current
  BY <1>1 DEF S!RuntimeStands
<1>4. S!State(records)' = h
  OBVIOUS
<1>5. S!StateWithout(runtime.culprit)' = S!StateWithout(runtime.culprit)
  BY <1>3 DEF S!StateWithout, S!Recorded
<1> HIDE DEF h
<1> QED
  BY <1>1, <1>2, <1>3, <1>4, <1>5 DEF S!RuntimeStands, h

-----------------------------------------------------------------------------
(* Steps of a session.                                                     *)

\* The steps that append the record of a request.
LEMMA CommitKeeps ==
  ASSUME S!SessionInv, NEW q, NEW input, S!Admissible(q, input),
         S!Accepts(records, S!Prepared(q, input)), records' = Append(records, S!Prepared(q, input))
  PROVE  LET r == S!Prepared(q, input)
         IN  History(records)' /\ S!State(records') = S!Replay(S!State(records), r) /\ r.request = q
BY PreparedFits, SessionGrows, PreparedFields

LEMMA SameHistory ==
  ASSUME S!SessionInv, records' = records
  PROVE  History(records)'
BY SessionMeans

LEMMA PerformKeeps ==
  ASSUME S!SessionInv, NEW q, NEW input, S!Perform(q, input)
  PROVE  S!SessionInv'
<1>1. /\ S!Admissible(q, input) /\ S!Accepts(records, S!Prepared(q, input))
      /\ records' = Append(records, S!Prepared(q, input))
      /\ runtime' = S!PublishedIn(runtime, S!Prepared(q, input))
  BY DEF S!Perform
<1>2. History(records)' /\ S!State(records') = S!Replay(S!State(records), S!Prepared(q, input))
  BY <1>1, CommitKeeps
<1>3. S!RuntimeStands'
  BY <1>1, <1>2, RuntimePublishes DEF S!Admissible
<1>4. JournalInv'
  BY SessionMeans, RequestKeepsJournal
<1> QED
  BY <1>2, <1>3, <1>4, SessionHolds

LEMMA OutcomeUnknownKeeps ==
  ASSUME S!SessionInv, NEW q, NEW input, S!OutcomeUnknown(q, input)
  PROVE  S!SessionInv'
<1> DEFINE r == S!Prepared(q, input)
<1>1. /\ S!Admissible(q, input) /\ runtime' = S!Poisoned("outcome unknown", q)
      /\ records' = records \/ (S!Accepts(records, r) /\ records' = Append(records, r))
  BY DEF S!OutcomeUnknown
<1>2. History(records)'
  BY <1>1, CommitKeeps, SameHistory
<1>3. S!RuntimeStands'
  <2>1. r.request = q
    BY PreparedFields
  <2> HIDE DEF r
  <2>2. records' = records \/ \E x : x.request = q /\ records' = Append(records, x)
    BY <1>1, <2>1
  <2> QED
    BY <1>1, <2>2, RuntimePoisoned
<1>4. JournalInv'
  BY SessionMeans, RequestKeepsJournal
<1> QED
  BY <1>2, <1>3, <1>4, SessionHolds

LEMMA PublicationFailsKeeps ==
  ASSUME S!SessionInv, NEW q, NEW input, S!PublicationFails(q, input)
  PROVE  S!SessionInv'
<1> DEFINE r == S!Prepared(q, input)
<1>1. /\ S!Admissible(q, input) /\ runtime' = S!Poisoned("publication", q)
      /\ S!Accepts(records, r) /\ records' = Append(records, r)
  BY DEF S!PublicationFails
<1>2. History(records)'
  BY <1>1, CommitKeeps
<1>3. S!RuntimeStands'
  <2>1. r.request = q
    BY PreparedFields
  <2> HIDE DEF r
  <2>2. \E x : x.request = q /\ records' = Append(records, x)
    BY <1>1, <2>1
  <2> QED
    BY <1>1, <2>2, RuntimePoisoned
<1>4. JournalInv'
  BY SessionMeans, RequestKeepsJournal
<1> QED
  BY <1>2, <1>3, <1>4, SessionHolds

LEMMA CalculationFailsKeeps ==
  ASSUME S!SessionInv, NEW q, NEW input, S!CalculationFails(q, input)
  PROVE  S!SessionInv'
<1>1. S!Admissible(q, input) /\ runtime' = S!Poisoned("calculation", q) /\ records' = records
  BY DEF S!CalculationFails
<1>2. History(records)' /\ S!RuntimeStands'
  BY <1>1, SameHistory, RuntimePoisoned
<1>3. JournalInv'
  BY SessionMeans, RequestKeepsJournal
<1> QED
  BY <1>2, <1>3, SessionHolds

LEMMA KilledInCommitKeeps ==
  ASSUME S!SessionInv, NEW q, NEW input, S!KilledInCommit(q, input)
  PROVE  S!SessionInv'
<1>1. /\ S!Admissible(q, input) /\ runtime' = S!Down
      /\ S!Accepts(records, S!Prepared(q, input)) /\ records' = Append(records, S!Prepared(q, input))
  BY DEF S!KilledInCommit
<1>2. History(records)' /\ S!RuntimeStands'
  BY <1>1, CommitKeeps, RuntimeDown
<1>3. JournalInv'
  BY SessionMeans, RequestKeepsJournal
<1> QED
  BY <1>2, <1>3, SessionHolds

\* A resource with the record of a discard is discarded: no record follows it.
LEMMA DiscardIsThere ==
  ASSUME S!SessionInv, NEW k \in DOMAIN records, records[k].input.op = "discard_fork"
  PROVE  S!State(records).discarded
<1>1. k \in 1..Len(records) /\ Len(records) \in Nat /\ HistoryAt(records, k)
  BY SessionMeans DEF History
<1>2. k \in Nat \ {0}
  BY <1>1
<1>3. S!Replays(records)[k] = S!Replay(S!Replays(records)[k - 1], records[k])
  BY <1>2, ReplaysStep
<1>4. S!Replays(records)[k].discarded
  <2> DEFINE b == S!Replays(records)[k - 1]
  <2>1. S!Replay(b, records[k]).discarded = (b.discarded \/ records[k].input.op = "discard_fork")
    BY ReplayFields
  <2> QED
    BY <1>3, <2>1, Zenon
<1> QED
  BY <1>1, <1>4 DEF HistoryAt, Flags, S!State

LEMMA RepeatKeeps ==
  ASSUME S!SessionInv, NEW q, NEW input, S!Repeat(q, input)
  PROVE  S!SessionInv'
<1>1. /\ records' = records
      /\ runtime' = IF runtime.st = "terminal" THEN runtime
                    ELSE [runtime EXCEPT !.discarded = IF input.op = "discard_fork" THEN "yes"
                                                       ELSE S!KnownDiscarded]
  BY DEF S!Repeat
<1>2. S!RuntimeStands'
  <2>1. CASE runtime.st = "terminal"
    <3>1. runtime' = runtime /\ S!RuntimeStands
      BY <1>1, <2>1, SessionMeans
    <3> QED
      BY <1>1, <2>1, <3>1 DEF S!RuntimeStands
  <2>2. CASE runtime.st # "terminal"
    <3> DEFINE d == IF input.op = "discard_fork" THEN "yes" ELSE S!KnownDiscarded
    <3>1. runtime' = [runtime EXCEPT !.discarded = d] /\ runtime.st = "up"
      BY <1>1, <2>2 DEF S!Repeat, S!Usable
    <3>2. input.op = "discard_fork" => S!State(records).discarded
      <4>1. PICK k \in DOMAIN records : records[k].input = input
        BY DEF S!Repeat, S!Retained, S!Recorded
      <4> QED
        BY <4>1, DiscardIsThere
    <3>3. d = S!KnownDiscarded \/ (d = "yes" /\ S!State(records).discarded)
      BY <3>2
    <3> HIDE DEF d
    <3> QED
      BY <1>1, <3>1, <3>3, RuntimeLearns
  <2> QED
    BY <2>1, <2>2
<1>3. JournalInv' /\ History(records)'
  BY <1>1, SessionMeans, RequestKeepsJournal, SameHistory
<1> QED
  BY <1>2, <1>3, SessionHolds

LEMMA QueryOutcomeKeeps ==
  ASSUME S!SessionInv, NEW q, S!QueryOutcome(q)
  PROVE  S!SessionInv'
<1>1. /\ records' = records
      /\ runtime' = IF runtime.st = "up" THEN [runtime EXCEPT !.discarded = S!KnownDiscarded] ELSE runtime
  BY DEF S!QueryOutcome
<1>2. S!RuntimeStands'
  <2>1. CASE runtime.st = "up"
    BY <1>1, <2>1, RuntimeLearns
  <2>2. CASE runtime.st # "up"
    <3>1. runtime' = runtime /\ S!RuntimeStands
      BY <1>1, <2>2, SessionMeans
    <3> QED
      BY <1>1, <2>2, <3>1 DEF S!RuntimeStands
  <2> QED
    BY <2>1, <2>2
<1>3. JournalInv' /\ History(records)'
  BY <1>1, SessionMeans, QueryKeepsJournal, SameHistory
<1> QED
  BY <1>2, <1>3, SessionHolds

\* The plan of a file export changes nothing the runtime holds.
LEMMA PlanFileExportKeeps ==
  ASSUME S!SessionInv, NEW q \in Clients, S!PlanFileExport(q)
  PROVE  S!SessionInv'
<1> DEFINE h == S!State(records)
           r == S!Committed(Own, [S!NoInput EXCEPT !.op = "file_export"], "Receipt",
                            q, "None", runtime.revision, S!NoResponse)
           x == S!Replay(h, r)
<1>1. S!Usable /\ records' = Append(records, r) /\ runtime' = runtime
  BY DEF S!PlanFileExport
<1>2. /\ r.transition = "Receipt" /\ r.input.op = "file_export" /\ r.revision = runtime.revision
      /\ r.response = S!NoResponse
  BY DEF S!Committed, S!NoInput
<1> HIDE DEF r
<1>3. /\ runtime.st = "up" /\ runtime.poison = "none" /\ runtime.culprit = Nothing
      /\ runtime.revision = h.revision /\ runtime.staged = h.staged /\ runtime.current = h.current
      /\ h.discarded = FALSE
  BY <1>1, InStep
<1>4. Fits(records, r)
  BY <1>2, <1>3, RevisionNow DEF Fits
<1>5. History(records)' /\ S!State(records') = x
  BY <1>1, <1>4, SessionGrows
<1>6. x.revision = h.revision /\ x.staged = h.staged /\ x.current = h.current /\ x.discarded = FALSE
  <2>1. /\ x.revision = r.revision /\ x.staged = S!StagedAfter(h.staged, r)
        /\ x.current = S!CurrentAfter(h.current, r)
        /\ x.discarded = (h.discarded \/ r.input.op = "discard_fork")
    BY ReplayFields
  <2> HIDE DEF x, h
  <2>2. S!StagedAfter(h.staged, r) = h.staged
    BY <1>2 DEF S!StagedAfter
  <2>3. S!CurrentAfter(h.current, r) = h.current
    BY <1>2 DEF S!CurrentAfter
  <2> QED
    BY <1>2, <1>3, <2>1, <2>2, <2>3
<1>7. S!State(records)' = x
  BY <1>5
<1> HIDE DEF h, x
<1>8. S!RuntimeStands'
  <2>1. S!RuntimeStands
    BY SessionMeans
  <2>2. runtime.discarded # "yes"
    BY <1>1 DEF S!Usable, S!KnownDiscarded
  <2> QED
    BY <1>1, <1>3, <1>6, <1>7, <2>1, <2>2 DEF S!RuntimeStands
<1>9. JournalInv'
  BY SessionMeans, OwnRecordKeepsJournal
<1> QED
  BY <1>5, <1>8, <1>9, SessionHolds

LEMMA AttachKeeps ==
  ASSUME S!SessionInv, S!Attach
  PROVE  S!SessionInv'
<1> DEFINE h == S!State(records)
           r == S!Committed(Own, S!NoInput, "Restart", Nothing, "None", h.revision + 1, S!NoResponse)
<1>1. ~h.discarded /\ records' = Append(records, r) /\ runtime' = S!New(S!State(records'))
  BY DEF S!Attach, S!Discarded
<1>2. r.revision = h.revision + 1 /\ r.response = S!NoResponse
  BY DEF S!Committed
<1> HIDE DEF r
<1>3. Fits(records, r)
  BY <1>1, <1>2, RevisionNow DEF Fits
<1>4. History(records)'
  BY <1>1, <1>3, SessionGrows
<1>5. S!RuntimeStands'
  <2> DEFINE x == S!State(records')
  <2>1. S!State(records)' = x
    OBVIOUS
  <2>2. runtime' = S!New(x)
    BY <1>1
  <2> HIDE DEF x
  <2>3. /\ DOMAIN runtime' = {"st", "revision", "staged", "current", "discarded", "poison", "culprit"}
        /\ runtime'.st = "up" /\ runtime'.revision = x.revision /\ runtime'.staged = x.staged
        /\ runtime'.current = x.current /\ runtime'.discarded = "unread" /\ runtime'.poison = "none"
        /\ runtime'.culprit = Nothing
    BY <2>2 DEF S!New
  <2> QED
    BY <2>1, <2>3 DEF S!RuntimeStands
<1>6. JournalInv'
  BY SessionMeans, OwnRecordKeepsJournal
<1> QED
  BY <1>4, <1>5, <1>6, SessionHolds

LEMMA EndKeeps ==
  ASSUME S!SessionInv, S!AttachTerminal \/ S!Detach
  PROVE  S!SessionInv'
<1>1. /\ UNCHANGED <<records, settled, answers>>
      /\ runtime' = S!Down \/ runtime' = [S!Down EXCEPT !.st = "terminal"]
  BY DEF S!AttachTerminal, S!Detach
<1>2. JournalInv'
  BY <1>1, SessionMeans, JournalStays
<1> QED
  BY <1>1, <1>2, SameHistory, RuntimeDown, SessionHolds

LEMMA LosePowerKeeps ==
  ASSUME S!SessionInv, S!LosePower
  PROVE  S!SessionInv'
<1>1. PICK n \in settled..Len(records) : records' = SubSeq(records, 1, n) /\ settled' = n
  BY DEF S!LosePower
<1>2. answers' = answers /\ runtime' = S!Down
  BY DEF S!LosePower
<1>3. JournalInv'
  BY <1>1, <1>2, SessionMeans, JournalCut
<1>4. n \in 1..Len(records)
  BY SessionMeans DEF JournalInv
<1>5. History(records)'
  <2>1. History(records')
    BY <1>1, <1>4, SessionMeans, HistoryCut
  <2> QED
    BY <2>1
<1> QED
  BY <1>2, <1>3, <1>5, RuntimeDown, SessionHolds

LEMMA SessionStepKeeps ==
  ASSUME S!SessionInv, S!SessionNext
  PROVE  S!SessionInv'
<1>1. CASE \E q \in Clients : S!Execute(q)
  <2>1. PICK q \in Clients : S!Execute(q)
    BY <1>1
  <2> QED
    BY <2>1, PerformKeeps, RepeatKeeps, OutcomeUnknownKeeps, PublicationFailsKeeps, CalculationFailsKeeps,
       KilledInCommitKeeps, QueryOutcomeKeeps, PlanFileExportKeeps DEF S!Execute
<1> QED
  BY <1>1, AttachKeeps, EndKeeps, LosePowerKeeps DEF S!SessionNext

LEMMA SessionStarts ==
  ASSUME S!SessionInit
  PROVE  S!SessionInv
<1> DEFINE r == S!CreationReceipt
<1>1. records = <<r>> /\ settled = 1 /\ answers = {} /\ runtime = S!New(S!Start)
  BY DEF S!SessionInit
<1>2. /\ r.transition = "Receipt" /\ r.input.op = "create_fork" /\ r.revision = 1
  BY DEF S!CreationReceipt, S!Committed, S!NoInput
<1> HIDE DEF r
<1>3. Len(records) = 1 /\ DOMAIN records = {1} /\ records[1] = r
  BY <1>1
<1>4. S!Replays(records)[1] = S!Replay(S!Start, r)
  BY <1>3, ReplaysStep
<1> DEFINE h == S!State(records)
<1>5. S!Replays(records)[1] = h
  BY <1>3 DEF S!State
<1>6. /\ h.revision = 1 /\ h.staged = {} /\ h.checkpoints = {} /\ h.current = FALSE /\ h.discarded = FALSE
  <2> DEFINE b == S!Start
             x == S!Replay(b, r)
  <2>1. /\ x.revision = r.revision /\ x.staged = S!StagedAfter(b.staged, r)
        /\ x.current = S!CurrentAfter(b.current, r)
        /\ x.discarded = (b.discarded \/ r.input.op = "discard_fork")
        /\ x.checkpoints = IF r.transition = "Checkpoint"
                           THEN b.checkpoints \cup {[id |-> r.request, at |-> r.revision]}
                           ELSE IF r.transition = "CheckpointDelete"
                           THEN {c \in b.checkpoints : c.id # r.item}
                           ELSE b.checkpoints
    BY ReplayFields
  <2>5. h = x
    BY <1>4, <1>5
  <2> HIDE DEF h, x
  <2>2. b.staged = {} /\ b.current = FALSE /\ b.discarded = FALSE /\ b.checkpoints = {}
    BY DEF S!Start
  <2>3. S!StagedAfter(b.staged, r) = b.staged
    BY <1>2 DEF S!StagedAfter
  <2>4. S!CurrentAfter(b.current, r) = b.current
    BY <1>2 DEF S!CurrentAfter
  <2> QED
    BY <1>2, <2>1, <2>2, <2>3, <2>4, <2>5
<1> HIDE DEF h
<1>7. S!HistoryStands
  <2>1. DOMAIN S!OperationHistory = {}
    BY <1>2, <1>3 DEF S!OperationHistory
  <2>2. S!IsFiniteSet(h.checkpoints) /\ S!Ids(h.checkpoints) = {}
    <3>1. IsFiniteSet(h.checkpoints)
      BY <1>6, FS_EmptySet, Zenon
    <3> QED
      BY <1>6, <3>1, SameFinite DEF S!Ids
  <2>3. \A k \in DOMAIN records : k = 1 /\ S!Replays(records)[k] = h /\ records[k] = r /\ k = Len(records)
    BY <1>3, <1>5
  <2>4. \A k \in DOMAIN records : \A j \in 1..k : records[j].revision <= records[k].revision
    BY <1>2, <1>3
  <2> SUFFICES ASSUME NEW k \in DOMAIN records
               PROVE  /\ h.current \in BOOLEAN /\ h.discarded \in BOOLEAN
                      /\ h.discarded => k = Len(records)
                      /\ S!IsFiniteSet(h.checkpoints)
                      /\ S!Ids(h.checkpoints) \subseteq {records[j].request : j \in 1..k}
                      /\ records[k].revision \in Nat
                      /\ \A j \in 1..k : records[j].revision <= records[k].revision
                      /\ k \in DOMAIN S!OperationHistory =>
                            k > 1 /\ S!OperationHistory[k].before = records[k - 1].revision
    BY <2>3, Zenon DEF S!HistoryStands
  <2>5. h.current \in BOOLEAN /\ h.discarded \in BOOLEAN /\ (h.discarded => k = Len(records))
    BY <1>6
  <2>6. records[k].revision \in Nat
    BY <1>2, <2>3
  <2>7. k \notin DOMAIN S!OperationHistory
    BY <2>1
  <2> QED
    BY <2>2, <2>4, <2>5, <2>6, <2>7, Zenon
<1>8. S!RuntimeStands
  <2>1. /\ DOMAIN runtime = {"st", "revision", "staged", "current", "discarded", "poison", "culprit"}
        /\ runtime.st = "up" /\ runtime.revision = 1 /\ runtime.staged = {} /\ runtime.current = FALSE
        /\ runtime.discarded = "unread" /\ runtime.poison = "none" /\ runtime.culprit = Nothing
    BY <1>1 DEF S!New, S!Start
  <2> QED
    BY <1>6, <2>1 DEF S!RuntimeStands, h
<1> QED
  BY <1>7, <1>8, JournalStarts DEF S!SessionInv, JournalInv, Journal

LEMMA SameSession ==
  ASSUME S!SessionInv, UNCHANGED session
  PROVE  S!SessionInv'
<1>1. records' = records /\ runtime' = runtime
  BY DEF session
<1>2. JournalInv'
  BY SessionMeans, SameJournal
<1>3. S!RuntimeStands'
  <2>1. S!RuntimeStands
    BY SessionMeans
  <2>2. S!StateWithout(runtime.culprit)' = S!StateWithout(runtime.culprit)
    BY <1>1 DEF S!StateWithout, S!Recorded
  <2> QED
    BY <1>1, <2>1, <2>2 DEF S!RuntimeStands
<1> QED
  BY <1>1, <1>2, <1>3, SameHistory, SessionHolds

\* The journal of a session, every prefix a power loss may leave of it, and what
\* the runtime in memory holds of it (session.rs, canonical_outcome.rs).
THEOREM SessionInvariant == SessionsSpec => []S!SessionInv
<1>1. SessionsInit => S!SessionInv
  BY SessionStarts DEF SessionsInit
<1>2. S!SessionInv /\ [SessionsNext]_all => S!SessionInv'
  <2> SUFFICES ASSUME S!SessionInv, [SessionsNext]_all PROVE S!SessionInv'
    OBVIOUS
  <2>1. CASE S!SessionNext
    BY <2>1, SessionStepKeeps
  <2>2. CASE UNCHANGED session
    BY <2>2, SameSession
  <2> QED
    BY <2>1, <2>2 DEF SessionsNext, all
<1> QED
  BY <1>1, <1>2, PTL DEF SessionsSpec

-----------------------------------------------------------------------------
(* The journal takes every response the runtime prepares.                  *)

Operations ==
    {"write", "stage", "session_history", "recalculate", "export_fork", "discard_fork"}
        \cup S!OnStaged \cup S!OnCheckpoints

LEMMA RequestedAre ==
  ASSUME NEW input \in S!Requested
  PROVE  input.op \in Operations /\ (input.op = "session_history" => input.arg \in S!Moves)
BY DEF S!Requested, Operations, S!OnItems, S!OnStaged, S!OnCheckpoints

\* What every response says of the revisions.
LEMMA ResponseRevisions ==
  ASSUME NEW q, NEW input, input.op \in Operations, NEW transition, NEW effect, NEW after
  PROVE  LET a == S!PreparedResponse(q, input, transition, effect, after) IN
         /\ a.op = input.op /\ a.before = input.expected
         /\ a.after = IF input.op = "discard_fork" THEN S!Tombstone ELSE after
BY DEF Operations, S!PreparedResponse, S!WriteResponse, S!RecalculateResponse, S!HistoryResponse,
       S!LifecycleResponse, S!CheckpointResponse, S!StagedResponse, S!Response, S!OnStaged, S!OnCheckpoints

\* A request whose identity is new creates one more checkpoint.
LEMMA OneMoreCheckpoint ==
  ASSUME S!SessionInv, NEW q, S!Recorded(q) = {}, NEW at
  PROVE  LET marks == S!State(records).checkpoints
         IN  Cardinality(marks \cup {[id |-> q, at |-> at]}) = Cardinality(marks) + 1
<1> DEFINE marks == S!State(records).checkpoints
           m == [id |-> q, at |-> at]
<1>1. HistoryAt(records, Len(records)) /\ DOMAIN records = 1..Len(records)
  BY SessionMeans DEF History
<1>2. IsFiniteSet(marks) /\ \A c \in marks : \E j \in 1..Len(records) : c.id = records[j].request
  BY <1>1 DEF HistoryAt, Marks, S!State
<1>3. \A j \in 1..Len(records) : records[j].request # q
  BY <1>1 DEF S!Recorded
<1>4. m \notin marks
  <2>1. m.id = q
    OBVIOUS
  <2> QED
    BY <1>2, <1>3, <2>1
<1> HIDE DEF marks, m
<1> QED
  BY <1>2, <1>4, FS_AddElement DEF marks, m

LEMMA PreparedIsValid ==
  ASSUME S!SessionInv, NEW q, NEW input \in S!Requested, S!Admissible(q, input)
  PROVE  S!Validated(S!State(records), S!Prepared(q, input))
<1> DEFINE h == S!State(records)
           r == S!Prepared(q, input)
           t == S!Transition(input)
           e == S!EffectOf(input)
           n == S!Predicted(t, e)
           a == S!PreparedResponse(q, input, t, e, n)
           x == S!Replay(h, r)
<1>1. /\ input.expected = runtime.revision /\ S!Recorded(q) = {} /\ S!Usable
      /\ input.op \in {"delete_checkpoint", "restore_checkpoint"} => input.arg \in S!Ids(h.checkpoints)
  BY DEF S!Admissible
<1>2. runtime.revision = h.revision /\ runtime.staged = h.staged /\ runtime.current = h.current
  BY <1>1, InStep
<1>3. /\ r.request = q /\ r.input = input /\ r.transition = t /\ r.effect = e
      /\ r.item = S!ItemOf(q, input) /\ r.revision = n /\ r.response = a
  BY PreparedFields
<1>4. a.op = input.op /\ a.before = input.expected /\ a.after = IF input.op = "discard_fork" THEN S!Tombstone ELSE n
  BY RequestedAre, ResponseRevisions
<1>5. input.op \in Operations /\ (input.op = "session_history" => input.arg \in S!Moves)
  BY RequestedAre
<1>6. S!ValidRevisions(h, r)
  <2> HIDE DEF a, r, h, n
  <2> QED
    BY <1>1, <1>2, <1>3, <1>4 DEF S!ValidRevisions
<1>7. /\ x.current = S!CurrentAfter(h.current, r)
      /\ x.checkpoints = IF r.transition = "Checkpoint"
                         THEN h.checkpoints \cup {[id |-> r.request, at |-> r.revision]}
                         ELSE IF r.transition = "CheckpointDelete"
                         THEN {c \in h.checkpoints : c.id # r.item}
                         ELSE h.checkpoints
  BY ReplayFields
<1>8. h.current \in BOOLEAN
  BY RevisionNow
<1>9. r.response.op = input.op
  BY <1>3, <1>4
<1> HIDE DEF h, r, t, e, n, a, x
<1>10. CASE input.op \in {"export_fork", "discard_fork"}
  <2>1. t = "Receipt"
    BY <1>10 DEF t, S!Transition
  <2>2. n = runtime.revision
    BY <2>1 DEF n, S!Predicted, S!CatalogOnly
  <2>3. S!ValidLifecycle(r)
    BY <1>1, <1>3, <2>1, <2>2 DEF S!ValidLifecycle
  <2> QED
    BY <1>6, <1>9, <1>10, <2>3 DEF S!Validated, h, r, S!OnStaged, S!OnCheckpoints
<1>11. CASE input.op \in {"write", "stage"}
  <2>1. t \in {"Mutation", "CatalogStage", "Receipt"}
    BY <1>11 DEF t, S!Transition
  <2>2. a.item = S!ItemOf(q, input)
    BY <1>11 DEF a, S!PreparedResponse, S!WriteResponse, S!Response, S!OnStaged, S!OnCheckpoints
  <2>3. S!ValidWrite(r)
    BY <1>3, <2>1, <2>2 DEF S!ValidWrite
  <2> QED
    BY <1>6, <1>9, <1>11, <2>3 DEF S!Validated, h, r, S!OnStaged, S!OnCheckpoints
<1>12. CASE input.op = "recalculate"
  <2>1. S!ValidCalculation(r)
    BY <1>3, <1>12 DEF S!ValidCalculation, t, S!Transition
  <2> QED
    BY <1>6, <1>9, <1>12, <2>1 DEF S!Validated, h, r, S!OnStaged, S!OnCheckpoints
<1>13. CASE input.op = "session_history"
  <2>1. S!ValidHistory(r)
    BY <1>3, <1>5, <1>13 DEF S!ValidHistory, t, S!Transition
  <2> QED
    BY <1>6, <1>9, <1>13, <2>1 DEF S!Validated, h, r, S!OnStaged, S!OnCheckpoints
<1>14. CASE input.op \in S!OnStaged
  <2>1. a.item = S!ItemOf(q, input)
        /\ a.flag = IF input.op = "apply_staged" THEN S!RecalcNeeded(e) ELSE t = "CatalogDiscard"
    BY <1>14 DEF a, S!PreparedResponse, S!StagedResponse, S!Response, S!OnStaged, S!OnCheckpoints
  <2>2. CASE input.op = "apply_staged"
    <3>1. t = "StageApply"
      BY <2>2 DEF t, S!Transition
    <3>2. x.current = (h.current /\ e # "Invalidate")
      BY <1>3, <1>7, <3>1 DEF S!CurrentAfter
    <3>3. a.flag = (e = "Invalidate" \/ ~h.current)
      BY <1>2, <2>1, <2>2 DEF S!RecalcNeeded
    <3>4. a.flag = ~x.current
      BY <1>8, <3>2, <3>3
    <3>5. S!ValidStaged(r, x)
      BY <1>3, <1>9, <2>1, <2>2, <3>1, <3>4 DEF S!ValidStaged
    <3> QED
      BY <1>6, <1>9, <2>2, <3>5 DEF S!Validated, h, r, x, S!OnStaged, S!OnCheckpoints
  <2>3. CASE input.op = "discard_staged"
    <3>1. t \in {"CatalogDiscard", "Receipt"}
      BY <2>3 DEF t, S!Transition
    <3>2. S!ValidStaged(r, x)
      BY <1>3, <1>9, <2>1, <2>3, <3>1 DEF S!ValidStaged
    <3> QED
      BY <1>6, <1>9, <2>3, <3>2 DEF S!Validated, h, r, x, S!OnStaged, S!OnCheckpoints
  <2> QED
    BY <1>14, <2>2, <2>3 DEF S!OnStaged
<1>15. CASE input.op \in S!OnCheckpoints
  <2> DEFINE marks == h.checkpoints
  <2>1. /\ a.item = S!ItemOf(q, input)
        /\ input.op = "create_checkpoint" => a.count = S!Cardinality(marks) + 1
        /\ input.op = "restore_checkpoint" => /\ a.count = (CHOOSE c \in marks : c.id = input.arg).at
                                              /\ a.kept = S!Ids(marks)
    BY <1>15 DEF a, h, S!PreparedResponse, S!CheckpointResponse, S!Response, S!OnStaged, S!OnCheckpoints
  <2>2. CASE input.op = "create_checkpoint"
    <3>1. t = "Checkpoint" /\ r.item = q
      BY <1>3, <2>2 DEF t, S!Transition, S!ItemOf
    <3>2. x.checkpoints = marks \cup {[id |-> q, at |-> n]}
      BY <1>3, <1>7, <3>1
    <3>3. S!Cardinality(x.checkpoints) = S!Cardinality(marks) + 1
      BY <1>1, <3>2, OneMoreCheckpoint, SameCardinality DEF h
    <3>4. S!ValidCheckpoint(r, x)
      BY <1>3, <1>9, <2>1, <2>2, <3>1, <3>3 DEF S!ValidCheckpoint
    <3> QED
      BY <1>6, <1>9, <2>2, <3>4 DEF S!Validated, h, r, x, S!OnStaged, S!OnCheckpoints
  <2>3. CASE input.op = "delete_checkpoint"
    <3>1. t = "CheckpointDelete"
      BY <2>3 DEF t, S!Transition
    <3>2. S!ValidCheckpoint(r, x)
      BY <1>3, <1>9, <2>1, <2>3, <3>1 DEF S!ValidCheckpoint
    <3> QED
      BY <1>6, <1>9, <2>3, <3>2 DEF S!Validated, h, r, x, S!OnStaged, S!OnCheckpoints
  <2>4. CASE input.op = "restore_checkpoint"
    <3>1. t = "Checkout" /\ r.item = input.arg
      BY <1>3, <2>4 DEF t, S!Transition, S!ItemOf, S!OnItems, S!OnStaged, S!OnCheckpoints
    <3>2. x.checkpoints = marks
      BY <1>3, <1>7, <3>1
    <3>3. \E c \in marks : c.id = input.arg
      BY <1>1, <2>4 DEF S!Ids
    <3>4. \E c \in marks : c.id = input.arg /\ c.at = a.count
      BY <2>1, <2>4, <3>3
    <3>5. S!ValidCheckpoint(r, x)
      BY <1>3, <1>9, <2>1, <2>4, <3>1, <3>2, <3>4 DEF S!ValidCheckpoint
    <3> QED
      BY <1>6, <1>9, <2>4, <3>5 DEF S!Validated, h, r, x, S!OnStaged, S!OnCheckpoints
  <2> QED
    BY <1>15, <2>2, <2>3, <2>4 DEF S!OnCheckpoints
<1> QED
  BY <1>5, <1>10, <1>11, <1>12, <1>13, <1>14, <1>15 DEF Operations

LEMMA PreparedIsAccepted ==
  ASSUME S!SessionInv, NEW q, NEW input \in S!Requested, S!Admissible(q, input)
  PROVE  S!Accepts(records, S!Prepared(q, input))
<1> DEFINE r == S!Prepared(q, input)
<1>1. S!State(records).discarded = FALSE /\ q \notin S!State(records).reserved /\ S!Recorded(q) = {}
  BY InStep DEF S!Admissible
<1>2. r.request = q /\ S!Validated(S!State(records), r)
  BY PreparedFields, PreparedIsValid
<1>3. \A k \in DOMAIN records : records[k].request # q
  BY <1>1 DEF S!Recorded
<1> HIDE DEF r
<1>4. S!Accepts(records, r)
  BY <1>1, <1>2, <1>3 DEF S!Accepts
<1> QED
  BY <1>4 DEF r

\* A runtime that serves requests holds what its journal replays to, the journal
\* accepts every response it prepares, a poisoned one lacks at most the record
\* of the request that poisoned it, nothing follows a discard, and the list of
\* operations accounts for the revisions (session.rs, canonical_outcome.rs).
THEOREM RuntimeMatches == SessionsSpec => []RuntimeMatchesJournal
<1>1. S!SessionInv => RuntimeMatchesJournal
  <2> SUFFICES ASSUME S!SessionInv PROVE S!RecordsExplainTheSession
    BY DEF RuntimeMatchesJournal
  <2> DEFINE h == S!State(records)
             shown == S!OperationHistory
  <2>1. S!Usable => /\ runtime.revision = h.revision /\ runtime.staged = h.staged
                    /\ runtime.current = h.current /\ ~h.discarded
    BY InStep
  <2>2. S!Descriptor.operation_count = S!Cardinality(DOMAIN shown)
        /\ S!Descriptor.recalc_needed = ~runtime.current
    BY DEF S!Descriptor, S!OperationHistory
  <2>3. runtime.poison # "none" => /\ runtime.revision = S!StateWithout(runtime.culprit).revision
                                   /\ runtime.staged = S!StateWithout(runtime.culprit).staged
    BY SessionMeans DEF S!RuntimeStands
  <2>4. \A q \in Clients, input \in S!Requested :
           S!Admissible(q, input) => S!Accepts(records, S!Prepared(q, input))
    BY PreparedIsAccepted
  <2>5. \A k \in DOMAIN records : S!Replays(records)[k].discarded => k = Len(records)
    BY DEF S!SessionInv, S!HistoryStands
  <2>6. \A i, j \in DOMAIN shown : i < j => shown[i].after <= shown[j].before
                                            /\ shown[i].before <= shown[i].after
    <3> SUFFICES ASSUME NEW i \in DOMAIN shown, NEW j \in DOMAIN shown, i < j
                 PROVE  shown[i].after <= shown[j].before /\ shown[i].before <= shown[i].after
      OBVIOUS
    <3>1. DOMAIN records = 1..Len(records) /\ Len(records) \in Nat
      BY SessionMeans
    <3>2. i \in DOMAIN records /\ j \in DOMAIN records /\ shown[i].after = records[i].revision
      BY DEF S!OperationHistory
    <3>3. /\ i > 1 /\ shown[i].before = records[i - 1].revision
          /\ j > 1 /\ shown[j].before = records[j - 1].revision
      BY <3>2 DEF S!SessionInv, S!HistoryStands
    <3> HIDE DEF shown
    <3>4. i \in 1..Len(records) /\ j \in 1..Len(records) /\ i - 1 \in 1..i /\ j - 1 \in 1..Len(records)
          /\ i \in 1..(j - 1)
      BY <3>1, <3>2, <3>3
    <3>5. RevisionsRise(records, i) /\ RevisionsRise(records, j - 1)
      BY <3>4, SessionMeans DEF History, HistoryAt
    <3> QED
      BY <3>2, <3>3, <3>4, <3>5 DEF RevisionsRise
  <2> HIDE DEF h, shown
  <2> QED
    BY <2>1, <2>2, <2>3, <2>4, <2>5, <2>6 DEF S!RecordsExplainTheSession, h, shown
<1> QED
  BY <1>1, SessionInvariant, PTL

-----------------------------------------------------------------------------
(* The workbook keeps what it derives from its document in step with it,   *)
(* for every set of contents, every number of epochs and every bound on    *)
(* the state numbers.                                                      *)

\* The parts of a content, of a revision, of a stamp and of a capture.
LEMMA ContentParts ==
  ASSUME NEW c \in Contents
  PROVE  c.inputs \in Inputs /\ c.looks \in Looks /\ c.caches \in Inputs \cup {Unknown}
BY DEF Contents

LEMMA NewInputs ==
  ASSUME NEW c \in Contents, NEW x \in Inputs
  PROVE  [c EXCEPT !.inputs = x] \in Contents /\ [c EXCEPT !.inputs = x].inputs = x
BY DEF Contents

LEMMA NewCaches ==
  ASSUME NEW c \in Contents, NEW x \in Inputs
  PROVE  /\ [c EXCEPT !.caches = x] \in Contents
         /\ [c EXCEPT !.caches = x].inputs = c.inputs
         /\ [c EXCEPT !.caches = x].caches = x
BY DEF Contents

LEMMA FirstParts ==
  ASSUME NEW e \in Epochs
  PROVE  First(e) \in Revisions /\ NotEvaluated(e) \in Stamps /\ NotEvaluated(e).kind # "Current"
BY DEF Revisions, Stamps, First, NotEvaluated

LEMMA Bumped ==
  ASSUME rev \in Revisions, NEW d \in Nat, NEW n \in Nat
  PROVE  /\ Bump(d, n) \in Revisions
         /\ Bump(d, n).doc = rev.doc + d
         /\ Bump(d, n).state = rev.state + n
BY DEF Revisions, Bump

LEMMA RevisionParts ==
  ASSUME NEW r \in Revisions
  PROVE  r.epoch \in Epochs /\ r.doc \in Nat /\ r.state \in Nat
BY DEF Revisions

LEMMA StampParts ==
  ASSUME stamp \in Stamps, NEW r \in Revisions
  PROVE  /\ Dirty(r) \in Stamps /\ Dirty(r).kind = "Dirty"
         /\ Current(r) \in Stamps /\ Current(r).kind = "Current" /\ Current(r).doc = r.doc
         /\ [kind |-> stamp.kind, doc |-> r.doc, at |-> r] \in Stamps
BY RevisionParts DEF Stamps, Dirty, Current

LEMMA CaptureParts ==
  ASSUME NEW c \in Captures
  PROVE  c.rev \in Revisions /\ c.content \in Contents
BY DEF Captures

LEMMA CaptureTypes ==
  ASSUME TypeOK
  PROVE  /\ Captured \in Contents
         /\ Capture \in Captures /\ Capture.rev = rev /\ Capture.content = Captured
         /\ Ensured \in Inputs
         /\ CaptureForEvaluator \in Captures \cup {None}
<1>1. Captured \in Contents
  BY CaptureParts DEF TypeOK, Captured
<1>2. Capture \in Captures /\ Capture.rev = rev /\ Capture.content = Captured
  BY <1>1 DEF TypeOK, Capture, Captures
<1>3. Ensured \in Inputs
  BY <1>1, ContentParts DEF TypeOK, Ensured
<1> QED
  BY <1>1, <1>2, <1>3 DEF TypeOK, CaptureForEvaluator

\* Every operation keeps the types of the document and of what is derived.
LEMMA TypeStep == TypeOK /\ [Next]_vars => TypeOK'
<1> SUFFICES ASSUME TypeOK, [Next]_vars PROVE TypeOK'
  OBVIOUS
<1> USE WorkbookConstants DEF TypeOK
<1>r. Bump(0, 1) \in Revisions /\ Bump(1, 1) \in Revisions
  BY Bumped
<1>s. \A r \in Revisions : Dirty(r) \in Stamps /\ Current(r) \in Stamps
  BY StampParts
<1>c. /\ Captured \in Contents /\ Capture \in Captures
      /\ Ensured \in Inputs /\ CaptureForEvaluator \in Captures \cup {None}
  BY CaptureTypes
<1>1. CASE TakeSnapshot
  BY <1>1, <1>c DEF TakeSnapshot, Works
<1>2. CASE PublishCells
  <2> PICK x \in Inputs : /\ document' = [document EXCEPT !.inputs = x]
                          /\ evaluator' \in IF evaluator = None THEN {None} ELSE {None, x}
    BY <1>2 DEF PublishCells
  <2> QED
    BY <1>2, <1>r, <1>s, NewInputs DEF PublishCells, Works
<1>3. CASE PublishCellsFails
  BY <1>3, NewInputs DEF PublishCellsFails
<1>4. CASE ReplacePreserving
  <2>1. document' \in Contents
    BY <1>4, <1>c, ContentParts DEF ReplacePreserving, Contents
  <2>2. rev' \in Revisions /\ stamp' \in Stamps
    BY <1>4, <1>r, StampParts DEF ReplacePreserving
  <2> QED
    BY <1>4, <1>c, <2>1, <2>2 DEF ReplacePreserving, Works
<1>5. CASE ReplaceInvalidating
  BY <1>5, <1>r, <1>s, <1>c DEF ReplaceInvalidating, Works
<1>6. CASE ReplaceFails
  BY <1>6, <1>c DEF ReplaceFails
<1>7. CASE InvalidateAfterUnsupportedChange
  BY <1>7, <1>r, <1>s DEF InvalidateAfterUnsupportedChange, Works
<1>8. CASE AdvanceMetadataState
  BY <1>8, <1>r DEF AdvanceMetadataState, Works
<1>9. CASE PrepareCalculation
  <2>1. Captured.inputs \in Inputs
    BY <1>c, ContentParts
  <2> QED
    BY <1>9, <1>c, <2>1 DEF PrepareCalculation, Works
<1>10. CASE PrepareCalculationFails
  BY <1>10, <1>c DEF PrepareCalculationFails
<1>11. CASE PublishCalculation
  <2>1. document' \in Contents
    BY <1>11, NewCaches DEF PublishCalculation
  <2> QED
    BY <1>11, <1>r, <1>s, <2>1 DEF PublishCalculation
<1>12. CASE PublishCalculationFails
  BY <1>12, <1>r, <1>s DEF PublishCalculationFails, Invalidated
<1>13. CASE AbandonCalculation
  BY <1>13 DEF AbandonCalculation
<1>14. CASE Recalculate
  <2>1. document' \in Contents
    BY <1>14, <1>c, NewCaches DEF Recalculate
  <2> QED
    BY <1>14, <1>r, <1>s, <1>c, <2>1 DEF Recalculate, Works
<1>15. CASE RecalculateFails
  BY <1>15, <1>r, <1>s, <1>c DEF RecalculateFails, Invalidated, Works
<1>16. CASE RevokeCalculation
  BY <1>16, <1>r, <1>s DEF RevokeCalculation, Invalidated, Works
<1>17. CASE Reopen
  BY <1>17, ContentParts, FirstParts DEF Reopen
<1>18. CASE StartRecovery
  BY <1>18, <1>s DEF StartRecovery, Revisions
<1>19. CASE FinishRecovery
  <2>1. rev' \in Revisions
    BY <1>19, RevisionParts DEF FinishRecovery, Revisions
  <2> QED
    BY <1>19, <1>s, <2>1 DEF FinishRecovery
<1>20. CASE UNCHANGED vars
  BY <1>20 DEF vars
<1> QED
  BY <1>1, <1>2, <1>3, <1>4, <1>5, <1>6, <1>7, <1>8, <1>9, <1>10, <1>11, <1>12, <1>13,
     <1>14, <1>15, <1>16, <1>17, <1>18, <1>19, <1>20 DEF Next

\* Type correctness of the resident workbook.
THEOREM WorkbookTypes == Spec => []TypeOK
<1>1. Init => TypeOK
  BY ContentParts, FirstParts DEF Init, Opened, TypeOK
<1> QED
  BY <1>1, TypeStep, PTL DEF Spec

-----------------------------------------------------------------------------
\* In a coherent workbook a capture, old or new, is the document, and an
\* evaluator, retained or rebuilt, holds its inputs.
LEMMA Derived ==
  ASSUME TypeOK, Coherent, ~broken
  PROVE  Captured = document /\ Ensured = document.inputs
BY DEF TypeOK, Coherent, SnapshotCoherent, EvaluatorFollowsDocument, Captured, Ensured

\* What every step has to keep, conjunct by conjunct.
LEMMA CoherentStep == TypeOK /\ Coherent /\ [Next]_vars => Coherent'
<1> SUFFICES ASSUME TypeOK, Coherent, [Next]_vars PROVE Coherent'
  OBVIOUS
<1>t. TypeOK'
  BY TypeStep
<1>d. ~broken => /\ Captured = document /\ Ensured = document.inputs
                 /\ Capture.rev = rev /\ Capture.content = document
  BY Derived, CaptureTypes
<1>r. /\ rev.state \in Nat /\ rev.doc \in Nat
      /\ snapshot # None => snapshot.rev \in Revisions /\ snapshot.rev.state \in Nat
  BY RevisionParts, CaptureParts DEF TypeOK
<1>b. /\ Bump(0, 1).state = rev.state + 1 /\ Bump(0, 1).doc = rev.doc
      /\ Bump(1, 1).state = rev.state + 1
  BY <1>r DEF Bump
<1>s. /\ Dirty(rev').kind = "Dirty"
      /\ Current(rev').kind = "Current" /\ Current(rev').doc = rev'.doc
  BY <1>t, StampParts DEF TypeOK
<1> USE DEF Coherent, SnapshotCoherent, EvaluatorFollowsDocument, CurrentMeansComputed, Usable, Live
<1>1. CASE TakeSnapshot
  BY <1>1, <1>d, <1>r DEF TakeSnapshot, Works
<1>2. CASE PublishCells
  <2> PICK x \in Inputs : /\ document' = [document EXCEPT !.inputs = x]
                          /\ evaluator' \in IF evaluator = None THEN {None} ELSE {None, x}
    BY <1>2 DEF PublishCells
  <2>1. document'.inputs = x
    BY NewInputs DEF TypeOK
  <2> QED
    BY <1>2, <1>r, <1>b, <1>s, <2>1 DEF PublishCells, Works
<1>3. CASE PublishCellsFails
  BY <1>3 DEF PublishCellsFails
<1>4. CASE ReplacePreserving
  <2>1. /\ document'.inputs = document.inputs
        /\ phase # "recovering" => document'.caches = document.caches
    BY <1>4, <1>d DEF ReplacePreserving
  <2>2. stamp'.kind = stamp.kind /\ stamp'.doc = rev'.doc
    BY <1>4 DEF ReplacePreserving
  <2>3. snapshot' = Capture /\ Capture.rev.state < rev'.state
    BY <1>4, <1>d, <1>r, <1>b DEF ReplacePreserving
  <2> QED
    BY <1>4, <1>d, <1>r, <1>b, <2>1, <2>2, <2>3 DEF ReplacePreserving, Works
<1>5. CASE ReplaceInvalidating
  BY <1>5, <1>d, <1>r, <1>b, <1>s DEF ReplaceInvalidating, Works
<1>6. CASE ReplaceFails
  BY <1>6 DEF ReplaceFails
<1>7. CASE InvalidateAfterUnsupportedChange
  BY <1>7, <1>r, <1>b, <1>s DEF InvalidateAfterUnsupportedChange, Works
<1>8. CASE AdvanceMetadataState
  BY <1>8, <1>r, <1>b DEF AdvanceMetadataState, Works
<1>9. CASE PrepareCalculation
  BY <1>9, <1>d, <1>r DEF PrepareCalculation, CaptureForEvaluator, Works
<1>10. CASE PrepareCalculationFails
  BY <1>10 DEF PrepareCalculationFails
<1>11. CASE PublishCalculation
  <2>1. document'.inputs = document.inputs /\ document'.caches = prepared
    BY <1>11, NewCaches DEF PublishCalculation, TypeOK
  <2> QED
    BY <1>11, <1>r, <1>b, <1>s, <2>1 DEF PublishCalculation
<1>12. CASE PublishCalculationFails
  BY <1>12, <1>r, <1>b, <1>s DEF PublishCalculationFails, Invalidated
<1>13. CASE AbandonCalculation
  BY <1>13 DEF AbandonCalculation
<1>14. CASE Recalculate
  <2>1. document'.inputs = document.inputs /\ document'.caches = Ensured
    BY <1>14, CaptureTypes, NewCaches DEF Recalculate, TypeOK
  <2> QED
    BY <1>14, <1>d, <1>r, <1>b, <1>s, <2>1 DEF Recalculate, CaptureForEvaluator, Works
<1>15. CASE RecalculateFails
  BY <1>15, <1>d, <1>r, <1>b, <1>s DEF RecalculateFails, Invalidated, CaptureForEvaluator, Works
<1>16. CASE RevokeCalculation
  BY <1>16, <1>r, <1>b, <1>s DEF RevokeCalculation, Invalidated, Works
<1>17. CASE Reopen
  BY <1>17, FirstParts DEF Reopen
<1>18. CASE StartRecovery
  BY <1>18, <1>s DEF StartRecovery
<1>19. CASE FinishRecovery
  <2>1. rev'.state \in Nat /\ rev'.state > rev.state
    BY <1>19, <1>r, WorkbookConstants DEF FinishRecovery
  <2> QED
    BY <1>19, <1>r, <1>s, <2>1 DEF FinishRecovery
<1>20. CASE UNCHANGED vars
  BY <1>20 DEF vars
<1> QED
  BY <1>1, <1>2, <1>3, <1>4, <1>5, <1>6, <1>7, <1>8, <1>9, <1>10, <1>11, <1>12, <1>13,
     <1>14, <1>15, <1>16, <1>17, <1>18, <1>19, <1>20 DEF Next

\* The invariant behind the three properties holds in every reachable state.
THEOREM WorkbookCoherent == Spec => []Coherent
<1>1. Init => Coherent
  BY FirstParts
     DEF Init, Opened, Coherent, SnapshotCoherent, EvaluatorFollowsDocument, CurrentMeansComputed
<1> QED
  BY <1>1, WorkbookTypes, CoherentStep, PTL DEF Spec

\* The capture served for a revision is the document of that revision.
THEOREM SnapshotsAreCoherent == Spec => []SnapshotCoherent
<1>1. Coherent => SnapshotCoherent
  BY DEF Coherent
<1> QED
  BY <1>1, WorkbookCoherent, PTL

\* A retained evaluator holds the inputs of the document.
THEOREM EvaluatorFollows == Spec => []EvaluatorFollowsDocument
<1>1. Coherent => EvaluatorFollowsDocument
  BY DEF Coherent
<1> QED
  BY <1>1, WorkbookCoherent, PTL

\* A stamp Current vouches for results computed from the present inputs.
THEOREM CurrentIsComputed == Spec => []CurrentMeansComputed
<1>1. Coherent => CurrentMeansComputed
  BY DEF Coherent
<1> QED
  BY <1>1, WorkbookCoherent, PTL

=============================================================================
