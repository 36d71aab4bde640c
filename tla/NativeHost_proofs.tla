------------------------- MODULE NativeHost_proofs -------------------------
(***************************************************************************)
(* The native host for any number of requests, resources, owners and queue *)
(* places: one owner per resource within the capacity, accepted work is    *)
(* executed, nothing follows a discard.                                    *)
(***************************************************************************)
EXTENDS NativeHost, FiniteSetTheorems, TLAPS

LEMMA InitInv == Init => HostInv
<1> SUFFICES ASSUME Init PROVE HostInv
  OBVIOUS
<1> USE HostAssumption DEF Init
<1>1. TypeOK
  <2>1. bound \subseteq Resources /\ IsFiniteSet(bound) /\ load \in Workloads
    BY DEF Initial
  <2>2. req \in [Requests -> [op : Operations \cup {"none"}, res : Resources \cup {NoResource},
                              other : Resources \cup {NoResource}]]
    OBVIOUS
  <2> QED
    BY <2>1, <2>2 DEF TypeOK, Steps
<1>2. TasksStand
  BY DEF TasksStand, TaskStands, Fits, Visiting
<1>3. AdmissionHeld
  <2>1. Owned = {}
    BY DEF Owned
  <2>2. IsFiniteSet(Owned) /\ Cardinality(Owned) = 0
    BY <2>1, FS_EmptySet
  <2>3. MaxOwners \in Nat \ {0}
    BY DEF MaxOwners
  <2> QED
    BY <2>2, <2>3 DEF AdmissionHeld, Admitted, HasRoom, LastVisit
<1>4. LocksHeld /\ HostHolds /\ References /\ DetachIsLast /\ WaitersQueued /\ DiscardIsLast
  BY DEF LocksHeld, HostHolds, References, DetachIsLast, WaitersQueued, DiscardIsLast
<1> QED
  BY <1>1, <1>2, <1>3, <1>4 DEF HostInv

\* The table loses entries and gains none.
LEMMA TableShrinks ==
  ASSUME AdmissionHeld, TypeOK, load' = load,
         \A x \in Resources : table'[x] \in {table[x], NoLane}
  PROVE  /\ Owned' \subseteq Owned /\ IsFiniteSet(Owned')
         /\ Cardinality(Owned') <= Cardinality(Owned)
         /\ Cardinality(Owned') \in Nat /\ Cardinality(Owned) \in Nat
         /\ Cardinality(Owned') <= MaxOwners' /\ MaxOwners' = MaxOwners /\ MaxOwners \in Nat
<1>1. Owned' \subseteq Owned
  BY DEF Owned
<1>2. IsFiniteSet(Owned)
  BY DEF AdmissionHeld
<1>3. /\ IsFiniteSet(Owned') /\ Cardinality(Owned') <= Cardinality(Owned)
  BY <1>1, <1>2, FS_Subset
<1>4. Cardinality(Owned') \in Nat /\ Cardinality(Owned) \in Nat
  BY <1>2, <1>3, FS_CardinalityType
<1>5. MaxOwners' = MaxOwners /\ MaxOwners \in Nat
  BY HostAssumption DEF MaxOwners, TypeOK
<1> QED
  BY <1>1, <1>3, <1>4, <1>5 DEF AdmissionHeld

\* A task goes on: it may find a lane in the table, take or release the mutexes,
\* and take lanes out of the table, but it starts none and sends nothing.
LEMMA TaskMoves ==
  ASSUME HostInv, NEW r \in Requests, TypeOK', TaskStands(r)',
         UNCHANGED <<load, host, lanes, lockOf, journal>>,
         \A x \in Resources : table'[x] \in {table[x], NoLane},
         guard = Host => guard' = Host /\ table' = table,
         \A s \in Requests \ {r} : /\ pc'[s] = pc[s] /\ req'[s] = req[s] /\ left'[s] = left[s]
                                   /\ held'[s] = held[s] /\ raising'[s] = raising[s],
         admission' = admission \/ admission \in {r, Nobody},
         Admitted(r)' => admission' = r,
         HasRoom(r)' => HasRoom(r) \/ Cardinality(Owned') < MaxOwners,
         raising'[r] \in {raising[r], NoLane},
         held'[r] \in {held[r], NoLane} \cup {table[x] : x \in Resources},
         pc'[r] \notin {"wait", "detaching"},
         held'[r] = held[r] /\ held[r] # NoLane
            /\ pc[r] \in {"wait", "replied", "join"} /\ req[r].op = "detach" =>
            pc'[r] \in {"wait", "replied", "join"} /\ req'[r] = req[r]
  PROVE  HostInv'
<1> USE HostAssumption
<1> USE DEF HostInv
<1>1. TasksStand'
  <2> SUFFICES ASSUME NEW s \in Requests \ {r} PROVE TaskStands(s)'
    BY DEF TasksStand
  <2>1. TaskStands(s)
    BY DEF TasksStand
  <2> QED
    BY <2>1 DEF TaskStands, Fits, Routed
<1>2. AdmissionHeld'
  <2>1. \A s \in Requests \ {r} : (Admitted(s)' <=> Admitted(s)) /\ (HasRoom(s)' <=> HasRoom(s))
    BY DEF Admitted, HasRoom, LastVisit
  <2>2. \A s \in Requests : Admitted(s)' => admission' = s
    BY <2>1 DEF AdmissionHeld
  <2>3. \A s \in Requests : HasRoom(s)' => Cardinality(Owned') < MaxOwners'
    BY <2>1, TableShrinks DEF AdmissionHeld
  <2> QED
    BY <2>2, <2>3, TableShrinks DEF AdmissionHeld
<1>3. LocksHeld' /\ DiscardIsLast'
  BY DEF LocksHeld, Live, DiscardIsLast
<1>4. HostHolds'
  BY DEF HostHolds, host, Owned
<1>5. /\ \A l \in DOMAIN lanes : Unraised(l) => Unraised(l)'
      /\ \A l \in DOMAIN lanes : Unlisted(l) => Unlisted(l)'
  BY SMTT(60) DEF Unraised, Unlisted, host, TypeOK
<1>6. \A l \in DOMAIN lanes : Unlisted(l) => \A s \in Held(l)' : s \in Held(l) /\ held'[s] = held[s]
  <2> SUFFICES ASSUME NEW l \in DOMAIN lanes, Unlisted(l), NEW s \in Requests, held'[s] = l
               PROVE  held[s] = l
    BY DEF Held
  <2>1. CASE s # r
    BY <2>1
  <2>2. CASE s = r
    <3>1. l # NoLane
      BY DEF TypeOK
    <3>2. \A x \in Resources : table[x] # l
      BY DEF Unlisted
    <3> QED
      BY <2>2, <3>1, <3>2
  <2> QED
    BY <2>1, <2>2
<1>7. References'
  <2>1. \A x \in Resources : table'[x] # NoLane => lanes'[table'[x]].res = x /\ Unraised(table[x])'
    BY <1>5, SMTT(60) DEF References, TypeOK
  <2>2. \A l \in doomed' : Unraised(l)'
    BY <1>5 DEF References, host, TypeOK
  <2>3. \A s \in Requests : held'[s] # NoLane => Unraised(held[s])'
    <3> SUFFICES ASSUME NEW s \in Requests, held'[s] # NoLane PROVE Unraised(held[s])'
      OBVIOUS
    <3>1. held'[s] \in DOMAIN lanes
      BY DEF TypeOK
    <3>2. Unraised(held'[s])
      BY DEF References
    <3> QED
      BY <1>5, <3>1, <3>2 DEF Unraised
  <2>4. \A l \in DOMAIN lanes' : lanes'[l].st = "starting" =>
          lanes'[l].queue = << >> /\ Unlisted(l)' /\ Held(l)' = {}
    BY <1>5, <1>6 DEF References
  <2>5. \A s \in Requests : pc'[s] = "detaching" => Unlisted(held[s])' /\ Held(held[s])' = {s}
    <3> SUFFICES ASSUME NEW s \in Requests, pc'[s] = "detaching"
                 PROVE  Unlisted(held[s])' /\ Held(held[s])' = {s}
      OBVIOUS
    <3>1. pc[s] = "detaching" /\ s # r /\ held'[s] = held[s] /\ held[s] \in DOMAIN lanes
      BY SMTT(60) DEF TasksStand, TaskStands, TypeOK
    <3>2. Unlisted(held[s]) /\ Held(held[s]) = {s}
      BY <3>1 DEF References
    <3>3. \A t \in Held(held[s])' : t = s
      BY <3>1, <3>2, <1>6
    <3>4. s \in Held(held[s])'
      BY DEF Held
    <3> QED
      BY <1>5, <3>1, <3>2, <3>3, <3>4
  <2> QED
    BY <2>1, <2>2, <2>3, <2>4, <2>5 DEF References
<1>8. DetachIsLast'
  <2> SUFFICES ASSUME NEW l \in DOMAIN lanes, NEW k \in DOMAIN lanes[l].queue,
                      lanes[l].queue[k].kind = "detach"
               PROVE  /\ k = Len(lanes[l].queue) /\ Unlisted(l)' /\ Unraised(l)'
                      /\ \A s \in Held(l)' : pc'[s] \in {"wait", "replied", "join"} /\ req'[s].op = "detach"
    BY DEF DetachIsLast
  <2>1. /\ k = Len(lanes[l].queue) /\ Unlisted(l) /\ Unraised(l)
        /\ \A s \in Held(l) : pc[s] \in {"wait", "replied", "join"} /\ req[s].op = "detach"
    BY DEF DetachIsLast
  <2>2. \A s \in Held(l)' : pc'[s] \in {"wait", "replied", "join"} /\ req'[s].op = "detach"
    <3> SUFFICES ASSUME NEW s \in Held(l)'
                 PROVE  pc'[s] \in {"wait", "replied", "join"} /\ req'[s].op = "detach"
      OBVIOUS
    <3>1. s \in Requests /\ s \in Held(l) /\ held'[s] = held[s] /\ held[s] = l /\ l # NoLane
      BY <2>1, <1>6 DEF Held, TypeOK
    <3> QED
      BY <2>1, <3>1
  <2> QED
    BY <2>1, <2>2, <1>5
<1>9. WaitersQueued'
  BY DEF WaitersQueued
<1> QED
  BY <1>1, <1>2, <1>3, <1>4, <1>7, <1>8, <1>9

\* The handler returns, wherever it is.
LEMMA TaskEnds ==
  ASSUME HostInv, NEW r \in Requests, NEW what, Finish(r, what), pc[r] # "new",
         UNCHANGED <<load, host, lanes, lockOf, journal>>,
         bound' \subseteq Resources, IsFiniteSet(bound'),
         table' \in [Resources -> DOMAIN lanes \cup {NoLane}],
         \A x \in Resources : table'[x] \in {table[x], NoLane},
         guard = Host => table' = table
  PROVE  HostInv'
<1> USE HostAssumption DEF Finish, Goto, Release
<1>1. TypeOK'
  BY DEF HostInv, TypeOK, Steps, host, QueueCapacity
<1>2. /\ pc'[r] = "done" /\ req' = req /\ held'[r] = NoLane /\ raising'[r] = NoLane
      /\ \A s \in Requests \ {r} : /\ pc'[s] = pc[s] /\ left'[s] = left[s]
                                   /\ held'[s] = held[s] /\ raising'[s] = raising[s]
  BY DEF HostInv, TypeOK
<1>3. TaskStands(r)'
  BY <1>2 DEF HostInv, TasksStand, TaskStands, Fits, Visiting
<1>4. ~Admitted(r)' /\ ~HasRoom(r)'
  BY <1>2 DEF Admitted, HasRoom, LastVisit
<1>5. held'[r] = held[r] => held[r] = NoLane
  BY <1>2
<1>6. guard = Host => guard' = Host
  OBVIOUS
<1>7. admission' = admission \/ admission = r
  OBVIOUS
<1> HIDE DEF Finish, Goto, Release
<1> QED
  BY <1>1, <1>2, <1>3, <1>4, <1>5, <1>6, <1>7, TaskMoves

\* Only the step of a task changes.
LEMMA TaskAdvances ==
  ASSUME HostInv, NEW r \in Requests, NEW p \in Steps \ {"wait", "detaching"}, Advance(r, p),
         UNCHANGED <<load, host, lanes, lockOf, disk, guard>>,
         table' \in [Resources -> DOMAIN lanes \cup {NoLane}],
         \A x \in Resources : table'[x] \in {table[x], NoLane},
         guard = Host => table' = table,
         admission' \in Requests \cup {Nobody, Host},
         admission' = admission \/ admission \in {r, Nobody},
         TaskStands(r)',
         Admitted(r)' => admission' = r,
         HasRoom(r)' => HasRoom(r) \/ Cardinality(Owned') < MaxOwners,
         pc[r] \in {"wait", "replied", "join"} /\ req[r].op = "detach" => p = "join"
  PROVE  HostInv'
<1> USE HostAssumption DEF Advance, Goto
<1>1. TypeOK'
  BY DEF HostInv, TypeOK, host, disk, QueueCapacity
<1>2. /\ pc'[r] = p /\ req' = req /\ held' = held /\ raising' = raising /\ left' = left
      /\ \A s \in Requests \ {r} : pc'[s] = pc[s]
  BY DEF HostInv, TypeOK
<1> HIDE DEF Advance, Goto
<1> QED
  BY <1>1, <1>2, TaskMoves DEF disk

\* The table without its closed lanes.
LEMMA PrunedTable ==
  ASSUME TypeOK
  PROVE  /\ Pruned \in [Resources -> DOMAIN lanes \cup {NoLane}]
         /\ \A x \in Resources : Pruned[x] \in {table[x], NoLane}
BY DEF TypeOK, Pruned

-----------------------------------------------------------------------------
(* The steps of a task, one by one.                                        *)

LEMMA Unmoved ==
  ASSUME HostInv, UNCHANGED <<load, req, pc, held, raising, left, table, admission, guard, host, lanes,
                              lockOf, disk>>
  PROVE  HostInv'
<1> USE DEF HostInv, host, disk
<1>1. TypeOK' /\ LocksHeld' /\ HostHolds' /\ DiscardIsLast' /\ WaitersQueued'
  BY DEF TypeOK, QueueCapacity, LocksHeld, Live, HostHolds, Owned, DiscardIsLast, WaitersQueued
<1>2. TasksStand'
  BY DEF TasksStand, TaskStands, Fits, Routed
<1>3. AdmissionHeld'
  BY DEF AdmissionHeld, Admitted, HasRoom, LastVisit, Owned, MaxOwners
<1>4. References' /\ DetachIsLast'
  BY DEF References, DetachIsLast, Unlisted, Unraised, Held
<1> QED
  BY <1>1, <1>2, <1>3, <1>4

LEMMA RouteShape ==
  ASSUME NEW op, NEW x, NEW y, NEW X, x \in X, y \in X
  PROVE  /\ Route(op, x, y) \in Seq(X)
         /\ op # "create" => Route(op, x, y) # << >>
         /\ op \notin {"verify", "compare", "create"} => Route(op, x, y) = <<x>>
         /\ op = "verify" => Route(op, x, y) = <<x, x>>
         /\ op = "compare" => Route(op, x, y) = <<y, y, x>>
         /\ op = "create" /\ x # NoResource => Route(op, x, y) = <<x, x>>
<1>1. CASE op = "verify"
  <2>1. Route(op, x, y) = <<x, x>>
    BY <1>1 DEF Route
  <2>2. <<x, x>> \in Seq(X) /\ <<x, x>> # << >>
    OBVIOUS
  <2> QED
    BY <1>1, <2>1, <2>2
<1>2. CASE op = "compare"
  <2>1. Route(op, x, y) = <<y, y, x>>
    BY <1>2 DEF Route
  <2>2. <<y, y, x>> \in Seq(X) /\ <<y, y, x>> # << >>
    OBVIOUS
  <2> QED
    BY <1>2, <2>1, <2>2
<1>3. CASE op = "create"
  <2>1. Route(op, x, y) = IF x = NoResource THEN << >> ELSE <<x, x>>
    BY <1>3 DEF Route
  <2>2. <<x, x>> \in Seq(X) /\ << >> \in Seq(X)
    OBVIOUS
  <2> QED
    BY <1>3, <2>1, <2>2
<1>4. CASE op \notin {"verify", "compare", "create"}
  <2>1. Route(op, x, y) = <<x>>
    BY <1>4 DEF Route
  <2>2. <<x>> \in Seq(X) /\ <<x>> # << >>
    OBVIOUS
  <2> QED
    BY <1>4, <2>1, <2>2
<1> QED
  BY <1>1, <1>2, <1>3, <1>4

LEMMA ArriveKeeps ==
  ASSUME HostInv, NEW r \in Requests, NEW op \in Offered,
         NEW x \in load.known \cup {NoResource}, NEW y \in load.known \cup {NoResource},
         Arrive(r, op, x, y), load' = load
  PROVE  HostInv'
<1> USE HostAssumption DEF Arrive
<1>1. /\ op \in Operations /\ x \in Resources \cup {NoResource} /\ y \in Resources \cup {NoResource}
      /\ op # "shutdown" /\ pc[r] = "new" /\ load \in Workloads
  BY DEF HostInv, TypeOK, Offered
<1>2. Route(op, x, y) \in Seq(Resources \cup {NoResource})
  BY <1>1, RouteShape
<1>3. Start(op) \in {"prune", "call", "find", "outcome", "fence"}
  BY <1>1 DEF Start, Operations, Executes
<1>4. TypeOK'
  BY <1>1, <1>2, <1>3 DEF HostInv, TypeOK, Goto, Steps, host, disk, QueueCapacity
<1>5. /\ pc'[r] = Start(op) /\ req'[r].op = op /\ req'[r].res = x /\ req'[r].other = y
      /\ left'[r] = Route(op, x, y)
      /\ \A s \in Requests \ {r} : pc'[s] = pc[s] /\ req'[s] = req[s] /\ left'[s] = left[s]
  BY DEF HostInv, TypeOK, Goto
<1>6. raising[r] = NoLane
  BY <1>1 DEF HostInv, TasksStand, TaskStands
<1>7. TaskStands(r)'
  <2>1. Fits(r)'
    BY <1>1, <1>5 DEF Fits, Start, Operations, Executes
  <2>2. op \notin {"create", "list"} => x \in Resources
    BY <1>1
  <2>3. op = "create" => y \in Resources
    BY DEF HostInv, TypeOK
  <2>4. op \notin {"create", "list", "bind"} => Routed(r)'
    <3> SUFFICES ASSUME op \notin {"create", "list", "bind"} PROVE Routed(r)'
      OBVIOUS
    <3>1. x \in Resources /\ (op = "compare" => y \in Resources)
      BY <1>1, <2>2
    <3>2. CASE op = "compare"
      BY <1>5, <3>1, <3>2, RouteShape DEF Routed
    <3>3. CASE op # "compare"
      <4>1. Route(op, x, x) \in Seq(Resources) /\ Route(op, x, x) # << >>
        BY <3>1, RouteShape
      <4>2. Route(op, x, y) = Route(op, x, x)
        BY <3>3 DEF Route
      <4>3. op # "verify" => Route(op, x, y) = <<x>>
        BY <3>3 DEF Route
      <4>4. op # "verify" => Len(Route(op, x, y)) = 1
        BY <4>3
      <4> QED
        BY <1>5, <4>1, <4>2, <4>4 DEF Routed
    <3> QED
      BY <3>2, <3>3
  <2>5. op = "create" => pc'[r] = "outcome" /\ (x # NoResource => Routed(r)')
    <3> SUFFICES ASSUME op = "create" PROVE pc'[r] = "outcome" /\ (x # NoResource => Routed(r)')
      OBVIOUS
    <3>1. pc'[r] = "outcome"
      BY <1>5 DEF Start, Executes
    <3>2. ASSUME x # NoResource PROVE left'[r] = <<x, x>> /\ x \in Resources
      BY <1>1, <1>5, <3>2 DEF Route
    <3>3. x \in Resources => <<x, x>> \in Seq(Resources) /\ <<x, x>> # << >>
      OBVIOUS
    <3> QED
      BY <1>5, <3>1, <3>2, <3>3 DEF Routed
  <2>6. op \in {"list", "bind"} => pc'[r] = "fence"
    BY <1>5 DEF Start, Executes
  <2> QED
    BY <1>3, <1>5, <1>6, <2>1, <2>2, <2>3, <2>4, <2>5, <2>6 DEF TaskStands, Visiting
<1>8. ~Admitted(r)' /\ ~HasRoom(r)'
  BY <1>3, <1>5 DEF Admitted, HasRoom, LastVisit
<1> QED
  BY <1>1, <1>3, <1>4, <1>5, <1>7, <1>8, TaskMoves DEF disk

LEMMA VanishKeeps ==
  ASSUME HostInv, NEW r \in Requests, Vanish(r), load' = load
  PROVE  HostInv'
<1>1. CASE req[r].op \in Blocking
  BY <1>1, Unmoved DEF Vanish
<1>2. CASE req[r].op \notin Blocking
  BY <1>2, TaskEnds DEF Vanish, disk, HostInv, TypeOK
<1> QED
  BY <1>1, <1>2

LEMMA PruneKeeps ==
  ASSUME HostInv, NEW r \in Requests, Prune(r), load' = load
  PROVE  HostInv'
<1> DEFINE p == IF pc[r] = "prune" THEN "peek" ELSE "find"
<1>1. Advance(r, p) /\ p \in Steps \ {"wait", "detaching"} /\ guard = Nobody /\ pc[r] \in {"prune", "call"}
  BY DEF Prune, Steps
<1>2. pc'[r] = p /\ UNCHANGED <<req, held, raising, left>>
  BY <1>1 DEF Advance, Goto, HostInv, TypeOK
<1>3. TaskStands(r)'
  BY <1>1, <1>2 DEF HostInv, TasksStand, TaskStands, Fits, Routed, Visiting, Prune
<1>4. ~Admitted(r)' /\ ~HasRoom(r)'
  BY <1>2 DEF Admitted, HasRoom, LastVisit
<1> QED
  BY <1>1, <1>3, <1>4, TaskAdvances, PrunedTable, HostAssumption DEF Prune, HostInv, TypeOK

LEMMA PeekKeeps ==
  ASSUME HostInv, NEW r \in Requests, Peek(r), load' = load
  PROVE  HostInv'
<1>1. CASE req[r].res \notin bound
  BY <1>1, TaskEnds DEF Peek, HostInv, TypeOK, disk
<1>2. CASE req[r].res \in bound
  <2> DEFINE p == IF table[req[r].res] = NoLane THEN "judge"
                  ELSE IF req[r].op = "compare" THEN "call" ELSE "find"
  <2>1. Advance(r, p) /\ p \in Steps \ {"wait", "detaching"} /\ pc[r] = "peek"
    BY <1>2 DEF Peek, Steps
  <2>2. pc'[r] = p /\ UNCHANGED <<req, held, raising, left>>
    BY <2>1 DEF Advance, Goto, HostInv, TypeOK
  <2>3. TaskStands(r)'
    BY <2>1, <2>2 DEF HostInv, TasksStand, TaskStands, Fits, Routed, Visiting, Peek
  <2>4. ~Admitted(r)' /\ ~HasRoom(r)'
    BY <2>2 DEF Admitted, HasRoom, LastVisit
  <2> QED
    BY <1>2, <2>1, <2>3, <2>4, TaskAdvances DEF Peek, HostInv, TypeOK
<1> QED
  BY <1>1, <1>2

LEMMA JudgeKeeps ==
  ASSUME HostInv, NEW r \in Requests, Judge(r), load' = load
  PROVE  HostInv'
<1>1. CASE Terminal(req[r].res)
  BY <1>1, TaskEnds DEF Judge, HostInv, TypeOK, disk
<1>2. CASE ~Terminal(req[r].res)
  <2> DEFINE p == IF req[r].op = "compare" THEN "call" ELSE "find"
  <2>1. Advance(r, p) /\ p \in Steps \ {"wait", "detaching"} /\ pc[r] = "judge"
    BY <1>2 DEF Judge, Steps
  <2>2. pc'[r] = p /\ UNCHANGED <<req, held, raising, left>>
    BY <2>1 DEF Advance, Goto, HostInv, TypeOK
  <2>3. TaskStands(r)'
    BY <2>1, <2>2 DEF HostInv, TasksStand, TaskStands, Fits, Routed, Visiting, Judge
  <2>4. ~Admitted(r)' /\ ~HasRoom(r)'
    BY <2>2 DEF Admitted, HasRoom, LastVisit
  <2> QED
    BY <1>2, <2>1, <2>3, <2>4, TaskAdvances DEF Judge, HostInv, TypeOK
<1> QED
  BY <1>1, <1>2

\* A lane found in the table is used, or the admission mutex is awaited first.
LEMMA EquipKeeps ==
  ASSUME HostInv, NEW r \in Requests, NEW x \in Resources, table[x] # NoLane, Equip(r, table[x]),
         UNCHANGED <<load, raising, table, guard, host, lanes, lockOf, disk>>,
         pc[r] \in {"find", "recheck"},
         admission' = IF pc[r] = "find" THEN admission ELSE Nobody
  PROVE  HostInv'
<1> USE HostAssumption
<1> DEFINE p == IF req[r].op = "create" /\ Len(left[r]) = 1 THEN "fence" ELSE "send"
<1>1. TypeOK'
  BY DEF HostInv, TypeOK, Equip, Goto, Steps, host, disk, QueueCapacity
<1>2. /\ pc'[r] = p /\ req' = req /\ left' = left /\ raising' = raising /\ held'[r] = table[x]
      /\ \A s \in Requests \ {r} : pc'[s] = pc[s] /\ held'[s] = held[s]
  BY DEF HostInv, TypeOK, Equip, Goto
<1>3. TaskStands(r)'
  BY <1>2 DEF HostInv, TasksStand, TaskStands, Fits, Routed, Visiting, Executes, Operations
<1>4. pc[r] = "recheck" => admission = r
  BY DEF HostInv, AdmissionHeld, Admitted
<1>5. ~Admitted(r)' /\ ~HasRoom(r)'
  BY <1>2 DEF Admitted, HasRoom, LastVisit, HostInv, TasksStand, TaskStands, Fits, Executes
<1> QED
  BY <1>1, <1>2, <1>3, <1>4, <1>5, TaskMoves DEF disk

LEMMA FindKeeps ==
  ASSUME HostInv, NEW r \in Requests, Find(r), load' = load
  PROVE  HostInv'
<1>1. pc[r] = "find" /\ Target(r) \in Resources
  BY DEF Find, HostInv, TasksStand, TaskStands, Visiting, Routed, Target
<1>2. CASE table[Target(r)] # NoLane
  BY <1>1, <1>2, EquipKeeps DEF Find
<1>3. CASE table[Target(r)] = NoLane /\ req[r].op # "diagnostics"
  <2>1. Advance(r, "admit")
    BY <1>3 DEF Find
  <2>2. pc'[r] = "admit" /\ UNCHANGED <<req, held, raising, left>>
    BY <2>1 DEF Advance, Goto, HostInv, TypeOK
  <2>3. TaskStands(r)'
    BY <1>1, <1>3, <2>2 DEF HostInv, TasksStand, TaskStands, Fits, Routed, Visiting, Find
  <2>4. ~Admitted(r)' /\ ~HasRoom(r)'
    BY <2>2 DEF Admitted, HasRoom, LastVisit
  <2> QED
    BY <1>1, <1>3, <2>1, <2>3, <2>4, TaskAdvances DEF Find, Steps, HostInv, TypeOK
<1>4. CASE table[Target(r)] = NoLane /\ req[r].op = "diagnostics"
  BY <1>1, <1>4, TaskEnds DEF Find, HostInv, TypeOK, disk
<1> QED
  BY <1>2, <1>3, <1>4

LEMMA AdmitKeeps ==
  ASSUME HostInv, NEW r \in Requests, Admit(r), load' = load
  PROVE  HostInv'
<1>1. CASE Closing
  BY <1>1, TaskEnds DEF Admit, HostInv, TypeOK, disk
<1>2. CASE ~Closing
  <2>1. Advance(r, "recheck") /\ admission' = r /\ pc[r] = "admit"
    BY <1>2 DEF Admit
  <2>2. pc'[r] = "recheck" /\ UNCHANGED <<req, held, raising, left>>
    BY <2>1 DEF Advance, Goto, HostInv, TypeOK
  <2>3. TaskStands(r)'
    BY <2>1, <2>2 DEF HostInv, TasksStand, TaskStands, Fits, Routed, Visiting, Admit
  <2>4. ~HasRoom(r)'
    BY <2>2 DEF HasRoom, LastVisit
  <2> QED
    BY <1>2, <2>1, <2>3, <2>4, TaskAdvances DEF Admit, Steps, HostInv, TypeOK
<1> QED
  BY <1>1, <1>2

LEMMA RecheckKeeps ==
  ASSUME HostInv, NEW r \in Requests, Recheck(r), load' = load
  PROVE  HostInv'
<1>1. pc[r] = "recheck" /\ Target(r) \in Resources
  BY DEF Recheck, HostInv, TasksStand, TaskStands, Visiting, Routed, Target
<1>2. CASE table[Target(r)] # NoLane
  BY <1>1, <1>2, EquipKeeps DEF Recheck
<1>3. CASE table[Target(r)] = NoLane
  <2>1. Advance(r, "vet") /\ admission' = admission
    BY <1>3 DEF Recheck
  <2>2. pc'[r] = "vet" /\ UNCHANGED <<req, held, raising, left>>
    BY <2>1 DEF Advance, Goto, HostInv, TypeOK
  <2>3. TaskStands(r)'
    BY <1>1, <2>2 DEF HostInv, TasksStand, TaskStands, Fits, Routed, Visiting, Recheck
  <2>4. ~HasRoom(r)' /\ admission = r
    BY <1>1, <2>2 DEF HasRoom, LastVisit, HostInv, AdmissionHeld, Admitted
  <2> QED
    BY <1>1, <1>3, <2>1, <2>3, <2>4, TaskAdvances DEF Recheck, Steps, HostInv, TypeOK
<1> QED
  BY <1>2, <1>3

LEMMA StartedKeeps ==
  ASSUME HostInv, NEW r \in Requests, Started(r), load' = load
  PROVE  HostInv'
<1>1. CASE lanes[raising[r]].st = "open"
  <2>1. Advance(r, "insert") /\ UNCHANGED <<admission, guard>> /\ pc[r] = "starting"
    BY <1>1 DEF Started
  <2>2. pc'[r] = "insert" /\ UNCHANGED <<req, held, raising, left>>
    BY <2>1 DEF Advance, Goto, HostInv, TypeOK
  <2>3. TaskStands(r)'
    BY <1>1, <2>1, <2>2 DEF HostInv, TasksStand, TaskStands, Fits, Routed, Visiting, Started
  <2>4. HasRoom(r) /\ admission = r
    BY <2>1 DEF HasRoom, HostInv, AdmissionHeld, Admitted
  <2> QED
    BY <1>1, <2>1, <2>3, <2>4, TaskAdvances DEF Started, Steps, HostInv, TypeOK
<1>2. CASE lanes[raising[r]].st # "open"
  BY <1>2, TaskEnds DEF Started, HostInv, TypeOK, disk
<1> QED
  BY <1>1, <1>2

LEMMA LastOne ==
  ASSUME NEW X, NEW q \in Seq(X), q # << >>
  PROVE  /\ Tail(q) \in Seq(X) /\ Head(q) \in X /\ Len(q) \in Nat \ {0}
         /\ Tail(q) = << >> <=> Len(q) = 1
<1>1. /\ Tail(q) \in Seq(X) /\ Head(q) \in X /\ Len(q) \in Nat \ {0} /\ Len(Tail(q)) = Len(q) - 1
  OBVIOUS
<1>2. \A t \in Seq(X) : t = << >> <=> Len(t) = 0
  OBVIOUS
<1>3. Tail(q) = << >> <=> Len(Tail(q)) = 0
  BY <1>1, <1>2, Zenon
<1> QED
  BY <1>1, <1>3

\* Where a reply leads: the steps of each operation.
LEMMA AfterReplyShape ==
  ASSUME HostInv, NEW r \in Requests, pc[r] \in {"replied", "look"}
  PROVE  LET p == AfterReply(r)  op == req[r].op  more == Tail(left[r]) # << >>
         IN  /\ op = "detach" => p = "join"
             /\ op = "discard" => p = "unlist"
             /\ op = "create" => p = IF more THEN "call" ELSE "prepare"
             /\ op = "list" => p = IF more THEN "look" ELSE "done"
             /\ op \in {"verify", "compare"} => IF more THEN p \in {"send", "find"} ELSE p = "done"
             /\ op \notin {"detach", "discard", "create", "list", "verify", "compare"} => p = "done"
             /\ p \in {"join", "unlist", "call", "prepare", "look", "done", "send", "find"}
<1> DEFINE op == req[r].op  rest == Tail(left[r])
<1>1. op \in Operations \ {"bind", "shutdown"}
  BY DEF HostInv, TypeOK, TasksStand, TaskStands, Fits, Operations
<1>2. op \notin {"verify", "compare", "create", "list"} => rest = << >>
  BY LastOne DEF HostInv, TasksStand, TaskStands, Visiting, Routed
<1>3. CASE op = "detach"
  BY <1>3 DEF AfterReply
<1>4. CASE op = "discard"
  BY <1>4 DEF AfterReply
<1>5. CASE op = "create"
  BY <1>5 DEF AfterReply
<1>6. CASE op = "list"
  BY <1>6 DEF AfterReply
<1>7. CASE op \in {"verify", "compare"}
  BY <1>7 DEF AfterReply
<1>8. CASE op \notin {"detach", "discard", "create", "list", "verify", "compare"}
  BY <1>2, <1>8 DEF AfterReply
<1> QED
  BY <1>3, <1>4, <1>5, <1>6, <1>7, <1>8

\* A visit is over: the answer, or the next step with one visit less.
LEMMA OnwardKeeps ==
  ASSUME HostInv, NEW r \in Requests, pc[r] \in {"replied", "look"}, Onward(r, AfterReply(r)),
         UNCHANGED <<load, table, host, lanes, lockOf, disk>>
  PROVE  HostInv'
<1> DEFINE p == AfterReply(r)
<1>1. CASE p = "done"
  BY <1>1, TaskEnds DEF Onward, HostInv, TypeOK, disk
<1>2. CASE p # "done"
  <2> USE HostAssumption
  <2>1. /\ Goto(r, p)
        /\ left' = [left EXCEPT ![r] = Tail(@)]
        /\ held' = [held EXCEPT ![r] = IF p \in {"call", "look", "find"} THEN NoLane ELSE @]
        /\ UNCHANGED <<req, raising, answer, vanished, admission, guard>>
    BY <1>2 DEF Onward
  <2>2. p \in {"join", "unlist", "call", "prepare", "look", "send", "find"}
    BY <1>2, AfterReplyShape
  <2>3. left[r] \in Seq(Resources) /\ left[r] # << >> /\ TaskStands(r)
    BY DEF HostInv, TasksStand, TaskStands, Visiting, Routed
  <2>4. Tail(left[r]) \in Seq(Resources) /\ Tail(left[r]) \in Seq(Resources \cup {NoResource})
    BY <2>3, LastOne
  <2> HIDE DEF p
  <2>5. TypeOK'
    BY <2>1, <2>2, <2>4 DEF HostInv, TypeOK, Goto, Steps, host, disk, QueueCapacity
  <2>6. /\ pc'[r] = p /\ req' = req /\ left'[r] = Tail(left[r]) /\ raising' = raising
        /\ held'[r] = IF p \in {"call", "look", "find"} THEN NoLane ELSE held[r]
        /\ \A s \in Requests \ {r} : pc'[s] = pc[s] /\ held'[s] = held[s] /\ left'[s] = left[s]
    BY <2>1 DEF HostInv, TypeOK, Goto
  <2>7. /\ p = "join" => req[r].op = "detach"
        /\ p = "unlist" => req[r].op = "discard"
        /\ p = "prepare" => req[r].op = "create" /\ Tail(left[r]) = << >>
        /\ p = "call" => req[r].op = "create" /\ Tail(left[r]) # << >>
        /\ p = "look" => req[r].op = "list" /\ Tail(left[r]) # << >>
        /\ p \in {"send", "find"} => req[r].op \in {"verify", "compare"} /\ Tail(left[r]) # << >>
        /\ req[r].op = "detach" => p = "join"
    BY <1>2, AfterReplyShape DEF p
  <2>8. p \in {"join", "unlist", "send"} => pc[r] = "replied"
    BY <2>3, <2>7 DEF TaskStands, Fits
  <2>9. TaskStands(r)'
    <3>1. Fits(r)'
      BY <2>2, <2>3, <2>6, <2>7 DEF TaskStands, Fits, Executes
    <3>2. pc'[r] \in Visiting => Routed(r)'
      BY <2>2, <2>4, <2>6, <2>7 DEF Routed, Visiting
    <3> QED
      BY <2>2, <2>3, <2>6, <2>8, <3>1, <3>2 DEF TaskStands
  <2>10. Admitted(r)' => admission' = r
    <3>1. p = "prepare" => Len(left[r]) = 1
      BY <2>3, <2>7, LastOne
    <3>2. p \in {"join", "prepare", "look"} => Admitted(r)
      BY <2>2, <2>3, <2>7, <3>1 DEF Admitted, LastVisit, TaskStands, Fits
    <3>3. p \in {"unlist", "call", "send", "find"} => ~Admitted(r)'
      BY <2>6, <2>7 DEF Admitted, LastVisit
    <3> QED
      BY <2>1, <2>2, <3>2, <3>3 DEF HostInv, AdmissionHeld
  <2>11. HasRoom(r)' => HasRoom(r)
    <3>1. p = "prepare" => Len(left[r]) = 1
      BY <2>3, <2>7, LastOne
    <3> QED
      BY <2>2, <2>3, <2>6, <2>7, <3>1 DEF HasRoom, LastVisit, TaskStands, Fits
  <2> QED
    BY <2>1, <2>2, <2>5, <2>6, <2>7, <2>9, <2>10, <2>11, TaskMoves DEF disk
<1> QED
  BY <1>1, <1>2

LEMMA ContinueKeeps ==
  ASSUME HostInv, NEW r \in Requests, Continue(r), load' = load
  PROVE  HostInv'
<1>1. CASE answer[r] = "terminal" /\ req[r].op # "list"
  BY <1>1, TaskEnds DEF Continue, HostInv, TypeOK, disk
<1>2. CASE ~(answer[r] = "terminal" /\ req[r].op # "list")
  BY <1>2, OnwardKeeps DEF Continue
<1> QED
  BY <1>1, <1>2

LEMMA LookKeeps ==
  ASSUME HostInv, NEW r \in Requests, Look(r), load' = load
  PROVE  HostInv'
<1>1. CASE table[Target(r)] = NoLane
  BY <1>1, OnwardKeeps DEF Look
<1>2. CASE table[Target(r)] # NoLane
  <2> USE HostAssumption
  <2>1. TaskStands(r) /\ pc[r] = "look" /\ Target(r) \in Resources /\ req[r].op = "list"
    BY LastOne DEF HostInv, TasksStand, TaskStands, Fits, Visiting, Routed, Look, Target
  <2>2. /\ held' = [held EXCEPT ![r] = table[Target(r)]] /\ Goto(r, "send")
        /\ UNCHANGED <<req, raising, left, answer, vanished, admission, guard>>
        /\ UNCHANGED <<table, host, lanes, lockOf, disk>>
    BY <1>2 DEF Look
  <2>3. TypeOK'
    BY <2>1, <2>2 DEF HostInv, TypeOK, Goto, Steps, host, disk, QueueCapacity
  <2>4. /\ pc'[r] = "send" /\ held'[r] = table[Target(r)]
        /\ \A s \in Requests \ {r} : pc'[s] = pc[s] /\ held'[s] = held[s]
    BY <2>2 DEF HostInv, TypeOK, Goto
  <2>5. TaskStands(r)'
    BY <1>2, <2>1, <2>2, <2>4 DEF TaskStands, Fits, Visiting, Routed
  <2>6. admission = r /\ ~HasRoom(r)'
    BY <2>1, <2>2, <2>4 DEF HostInv, AdmissionHeld, Admitted, HasRoom, LastVisit
  <2> QED
    BY <2>1, <2>2, <2>3, <2>4, <2>5, <2>6, TaskMoves DEF disk
<1> QED
  BY <1>1, <1>2

LEMMA UnlistKeeps ==
  ASSUME HostInv, NEW r \in Requests, Unlist(r), load' = load
  PROVE  HostInv'
BY TaskEnds, HostAssumption DEF Unlist, HostInv, TypeOK, disk

LEMMA OutcomeKeeps ==
  ASSUME HostInv, NEW r \in Requests, Outcome(r), load' = load
  PROVE  HostInv'
<1>1. CASE req[r].other \in bound
  BY <1>1, TaskEnds DEF Outcome, HostInv, TypeOK, disk
<1>2. CASE req[r].other \notin bound
  <2> DEFINE p == IF req[r].res = NoResource THEN "fence" ELSE "call"
  <2>1. Advance(r, p) /\ pc[r] = "outcome" /\ UNCHANGED <<admission, guard>>
    BY <1>2 DEF Outcome
  <2>2. pc'[r] = p /\ UNCHANGED <<req, held, raising, left>>
    BY <2>1 DEF Advance, Goto, HostInv, TypeOK
  <2>3. req[r].res # NoResource => Routed(r)
    BY <2>1 DEF HostInv, TasksStand, TaskStands
  <2>4. TaskStands(r)'
    BY <2>1, <2>2, <2>3 DEF HostInv, TasksStand, TaskStands, Fits, Routed, Visiting, Outcome
  <2>5. ~Admitted(r)' /\ ~HasRoom(r)'
    BY <2>2 DEF Admitted, HasRoom, LastVisit
  <2> QED
    BY <1>2, <2>1, <2>4, <2>5, TaskAdvances DEF Outcome, Steps, HostInv, TypeOK
<1> QED
  BY <1>1, <1>2

\* The catalog of a listing, in some order.
LEMMA Enumerated ==
  ASSUME NEW S, IsFiniteSet(S), S # {}
  PROVE  SetToSeq(S) \in Seq(S) /\ SetToSeq(S) # << >>
<1>1. Cardinality(S) \in Nat /\ ExistsBijection(1..Cardinality(S), S)
  BY FS_CardinalityType
<1>2. PICK f \in [1..Cardinality(S) -> S] : IsInjective(f)
  BY <1>1 DEF ExistsBijection, Bijection, Injection, IsInjective
<1>3. SetToSeq(S) \in [1..Cardinality(S) -> S]
  BY <1>2 DEF SetToSeq
<1>4. Cardinality(S) # 0
  BY FS_EmptySet
<1>5. SetToSeq(S) \in Seq(S) /\ Len(SetToSeq(S)) = Cardinality(S)
  BY <1>1, <1>3
<1> QED
  BY <1>1, <1>4, <1>5, LastOne

LEMMA FenceKeeps ==
  ASSUME HostInv, NEW r \in Requests, Fence(r), load' = load
  PROVE  HostInv'
<1> DEFINE over == (Closing /\ req[r].op \in {"create", "bind"}) \/ (req[r].op = "list" /\ bound = {})
<1>1. CASE over
  BY <1>1, TaskEnds DEF Fence, HostInv, TypeOK, disk
<1>2. CASE ~over
  <2> USE HostAssumption
  <2> DEFINE q == IF req[r].op = "list" THEN SetToSeq(bound) ELSE left[r]
             op == req[r].op
  <2>1. TaskStands(r) /\ pc[r] = "fence" /\ op \in {"create", "list", "bind", "detach"}
    BY DEF Fence, HostInv, TasksStand, TaskStands, Fits
  <2>2. PICK p \in {"settle", "look", "publish", "grab"} :
          /\ Goto(r, p)
          /\ p = "settle" <=> op = "create"
          /\ p = "look" <=> op = "list"
          /\ p = "publish" <=> op = "bind"
          /\ p = "grab" <=> op = "detach"
    <3>1. CASE op = "create"
      BY <1>2, <3>1 DEF Fence
    <3>2. CASE op = "list"
      BY <1>2, <3>2 DEF Fence
    <3>3. CASE op = "bind"
      BY <1>2, <3>3 DEF Fence
    <3>4. CASE op = "detach"
      BY <1>2, <3>4 DEF Fence
    <3> QED
      BY <2>1, <3>1, <3>2, <3>3, <3>4
  <2>3. /\ admission = Nobody /\ admission' = r
        /\ left' = [left EXCEPT ![r] = q]
        /\ UNCHANGED <<req, held, raising, answer, vanished, guard, table, host, lanes, lockOf, disk>>
    BY <1>2 DEF Fence
  <2>4. op = "list" => SetToSeq(bound) \in Seq(Resources) /\ SetToSeq(bound) # << >>
    BY <1>2, Enumerated, SMTT(60) DEF HostInv, TypeOK
  <2>5. q \in Seq(Resources \cup {NoResource})
    BY <2>4 DEF HostInv, TypeOK
  <2>6. TypeOK'
    BY <2>2, <2>3, <2>5 DEF HostInv, TypeOK, Goto, Steps, host, disk, QueueCapacity
  <2>7. /\ pc'[r] = p /\ left'[r] = q
        /\ \A s \in Requests \ {r} : pc'[s] = pc[s] /\ left'[s] = left[s]
    BY <2>2, <2>3 DEF HostInv, TypeOK, Goto
  <2>8. TaskStands(r)'
    <3>1. Fits(r)'
      BY <2>1, <2>2, <2>3, <2>7 DEF TaskStands, Fits
    <3>2. op \in {"list", "detach"} => Routed(r)'
      BY <2>1, <2>3, <2>4, <2>7 DEF TaskStands, Routed
    <3>3. op = "create" /\ req[r].res # NoResource => Routed(r)' /\ Len(left'[r]) = 1 /\ held'[r] # NoLane
      BY <2>1, <2>3, <2>7 DEF TaskStands, Routed
    <3> QED
      BY <2>1, <2>2, <2>3, <2>7, <3>1, <3>2, <3>3 DEF TaskStands, Visiting
  <2>9. ~HasRoom(r)'
    BY <2>7 DEF HasRoom, LastVisit
  <2> QED
    BY <2>1, <2>2, <2>3, <2>6, <2>7, <2>8, <2>9, TaskMoves DEF disk
<1> QED
  BY <1>1, <1>2

LEMMA SettleKeeps ==
  ASSUME HostInv, NEW r \in Requests, Settle(r), load' = load
  PROVE  HostInv'
<1>1. CASE req[r].other \in bound
  BY <1>1, TaskEnds DEF Settle, HostInv, TypeOK, disk
<1>2. CASE req[r].other \notin bound
  <2>1. Advance(r, "trim") /\ pc[r] = "settle" /\ UNCHANGED <<admission, guard>>
    BY <1>2 DEF Settle
  <2>2. pc'[r] = "trim" /\ UNCHANGED <<req, held, raising, left>>
    BY <2>1 DEF Advance, Goto, HostInv, TypeOK
  <2>3. TaskStands(r)'
    BY <2>1, <2>2 DEF HostInv, TasksStand, TaskStands, Fits, Routed, Visiting, Settle
  <2>4. admission = r /\ ~HasRoom(r)'
    BY <2>1, <2>2 DEF HostInv, AdmissionHeld, Admitted, HasRoom, LastVisit
  <2> QED
    BY <1>2, <2>1, <2>3, <2>4, TaskAdvances DEF Settle, Steps, HostInv, TypeOK
<1> QED
  BY <1>1, <1>2

LEMMA TrimKeeps ==
  ASSUME HostInv, NEW r \in Requests, Trim(r), load' = load
  PROVE  HostInv'
<1> DEFINE Kept == {x \in Resources : Pruned[x] # NoLane}
<1>1. CASE Cardinality(Kept) >= MaxOwners
  BY <1>1, TaskEnds, PrunedTable, HostAssumption DEF Trim, HostInv, TypeOK, disk
<1>2. CASE ~(Cardinality(Kept) >= MaxOwners)
  <2> DEFINE p == IF req[r].res = NoResource THEN "prepare" ELSE "send"
  <2>1. Advance(r, p) /\ pc[r] = "trim" /\ UNCHANGED <<admission, guard>> /\ table' = Pruned
    BY <1>2 DEF Trim
  <2>2. pc'[r] = p /\ UNCHANGED <<req, held, raising, left>>
    BY <2>1 DEF Advance, Goto, HostInv, TypeOK
  <2>3. TaskStands(r)'
    BY <2>1, <2>2 DEF HostInv, TasksStand, TaskStands, Fits, Routed, Visiting, Trim
  <2>4. admission = r
    BY <2>1 DEF HostInv, AdmissionHeld, Admitted
  <2>5. Cardinality(Owned') < MaxOwners
    <3>1. Owned' = Kept
      BY <2>1 DEF Owned
    <3>2. \A x \in Resources : table'[x] \in {table[x], NoLane}
      BY <2>1, PrunedTable DEF HostInv
    <3>3. Cardinality(Owned') \in Nat /\ MaxOwners \in Nat
      BY <3>2, TableShrinks DEF HostInv
    <3> QED
      BY <1>2, <3>1, <3>3
  <2> QED
    BY <2>1, <2>3, <2>4, <2>5, TaskAdvances, PrunedTable, HostAssumption DEF Trim, Steps, HostInv, TypeOK
<1> QED
  BY <1>1, <1>2

LEMMA PublishKeeps ==
  ASSUME HostInv, NEW r \in Requests, Publish(r), load' = load
  PROVE  HostInv'
<1>1. req[r].res \in Resources
  BY DEF Publish, HostInv, TasksStand, TaskStands, Fits
<1>2. bound' \subseteq Resources /\ IsFiniteSet(bound')
  BY <1>1, FS_AddElement, ZenonT(60) DEF Publish, HostInv, TypeOK
<1> QED
  BY <1>2, TaskEnds DEF Publish, HostInv, TypeOK

LEMMA JoinKeeps ==
  ASSUME HostInv, NEW r \in Requests, Join(r), load' = load
  PROVE  HostInv'
BY TaskEnds DEF Join, HostInv, TypeOK, disk

-----------------------------------------------------------------------------
(* Lanes start and enter the table.                                        *)

LEMMA StartLaneKeeps ==
  ASSUME HostInv, NEW r \in Requests, NEW x \in Resources, NEW by \in Requests \cup {Nobody},
         StartLane(r, x, by), UNCHANGED <<load, table, host, lockOf, disk>>,
         pc[r] \in {"vet", "prepare"}, Routed(r) \/ by = r, Cardinality(Owned) < MaxOwners
  PROVE  HostInv'
<1> USE HostAssumption
<1> USE DEF HostInv
<1> DEFINE n == Len(lanes) + 1
           new == [res |-> x, st |-> "starting", queue |-> << >>, by |-> by]
<1>1. lanes \in Seq(Lanes) /\ new \in Lanes /\ lanes' = Append(lanes, new)
  BY DEF TypeOK, Lanes, StartLane
<1>2. /\ lanes' \in Seq(Lanes) /\ DOMAIN lanes' = DOMAIN lanes \cup {n} /\ n \notin DOMAIN lanes
      /\ lanes'[n] = new /\ n \in Nat
      /\ \A l \in DOMAIN lanes : lanes'[l] = lanes[l] /\ l \in Nat
  BY <1>1
<1> HIDE DEF n
<1>3. /\ pc' = [pc EXCEPT ![r] = "starting"] /\ raising' = [raising EXCEPT ![r] = n]
      /\ UNCHANGED <<req, held, left, answer, vanished, admission, guard>>
  BY DEF StartLane, Goto, n
<1>4. TypeOK'
  <2>1. \A l \in DOMAIN lanes' : Len(lanes'[l].queue) <= QueueCapacity'
    BY <1>2 DEF TypeOK, QueueCapacity
  <2> QED
    BY <1>2, <1>3, <2>1 DEF TypeOK, Steps, host, disk
<1>5. /\ pc'[r] = "starting" /\ raising'[r] = n
      /\ \A s \in Requests \ {r} : pc'[s] = pc[s] /\ raising'[s] = raising[s]
  BY <1>3 DEF TypeOK
<1>6. TasksStand'
  <2>1. TaskStands(r)'
    <3>1. TaskStands(r)
      BY DEF TasksStand
    <3>2. Fits(r)'
      BY <1>3, <1>5, <3>1 DEF TaskStands, Fits, Executes
    <3>3. Routed(r)' \/ lanes'[n].by = r
      BY <1>2, <1>3 DEF Routed
    <3>4. n # NoLane
      BY <1>2
    <3> QED
      BY <1>3, <1>5, <3>1, <3>2, <3>3, <3>4 DEF TaskStands, Visiting
  <2>2. ASSUME NEW s \in Requests \ {r} PROVE TaskStands(s)'
    <3>1. TaskStands(s)
      BY DEF TasksStand
    <3>2. raising[s] # NoLane => lanes'[raising[s]] = lanes[raising[s]]
      BY <1>2 DEF TypeOK
    <3> QED
      BY <1>3, <1>5, <3>1, <3>2 DEF TaskStands, Fits, Routed
  <2> QED
    BY <2>1, <2>2 DEF TasksStand
<1>7. AdmissionHeld'
  <2>1. Owned' = Owned /\ MaxOwners' = MaxOwners
    BY DEF Owned, MaxOwners
  <2>2. \A s \in Requests : Admitted(s)' => admission' = s
    BY <1>3, <1>5 DEF AdmissionHeld, Admitted, LastVisit
  <2> QED
    BY <2>1, <2>2 DEF AdmissionHeld
<1>8. LocksHeld' /\ HostHolds' /\ DiscardIsLast'
  BY <1>2, <1>3 DEF LocksHeld, HostHolds, DiscardIsLast, Live, host, Owned, disk
<1>9. /\ \A l \in DOMAIN lanes : Unraised(l)' <=> Unraised(l)
      /\ \A l \in DOMAIN lanes' : Unlisted(l)' <=> Unlisted(l)
      /\ \A l \in DOMAIN lanes' : Held(l)' = Held(l)
      /\ Unlisted(n) /\ Held(n) = {}
  <2>1. raising[r] = NoLane
    BY DEF TasksStand, TaskStands
  <2>2. \A l \in DOMAIN lanes : Unraised(l)' <=> Unraised(l)
    BY <1>2, <1>5, <2>1 DEF Unraised
  <2> QED
    BY <1>2, <1>3, <2>2 DEF Unlisted, Held, host, TypeOK
<1>10. References'
  <2>1. \A y \in Resources : table'[y] # NoLane => lanes'[table'[y]].res = y /\ Unraised(table[y])'
    <3> SUFFICES ASSUME NEW y \in Resources, table[y] # NoLane
                 PROVE  lanes'[table[y]].res = y /\ Unraised(table[y])'
      OBVIOUS
    <3>1. table[y] \in DOMAIN lanes /\ Unraised(table[y]) /\ lanes[table[y]].res = y
      BY DEF References, TypeOK
    <3>2. Unraised(table[y])' <=> \A s \in Requests : raising'[s] # table[y]
      BY DEF Unraised
    <3> QED
      BY <1>2, <1>9, <3>1, <3>2 DEF Unraised
  <2>2. \A l \in doomed' : Unraised(l)'
    BY <1>9 DEF References, host, TypeOK
  <2>3. ASSUME NEW s \in Requests, held'[s] # NoLane PROVE Unraised(held[s])'
    <3>1. held[s] \in DOMAIN lanes /\ Unraised(held[s]) /\ held' = held
      BY <1>3, <2>3 DEF References, TypeOK
    <3>2. Unraised(held[s])' <=> \A t \in Requests : raising'[t] # held[s]
      BY <3>1 DEF Unraised
    <3> QED
      BY <1>9, <3>1, <3>2 DEF Unraised
  <2>4. \A l \in DOMAIN lanes' : lanes'[l].st = "starting" =>
          lanes'[l].queue = << >> /\ Unlisted(l)' /\ Held(l)' = {}
    BY <1>2, <1>9 DEF References
  <2>5. ASSUME NEW s \in Requests, pc'[s] = "detaching"
        PROVE  Unlisted(held[s])' /\ Held(held[s])' = {s}
    <3>1. pc[s] = "detaching" /\ held' = held
      BY <1>3, <1>5, <2>5
    <3>2. held[s] \in DOMAIN lanes /\ Unlisted(held[s]) /\ Held(held[s]) = {s}
      BY <3>1 DEF References, TypeOK, TasksStand, TaskStands
    <3> QED
      BY <1>3, <3>2 DEF Unlisted, Held, host
  <2> QED
    BY <2>1, <2>2, <2>3, <2>4, <2>5 DEF References
<1>11. DetachIsLast'
  <2> SUFFICES ASSUME NEW l \in DOMAIN lanes', NEW k \in DOMAIN lanes'[l].queue,
                      lanes'[l].queue[k].kind = "detach"
               PROVE  /\ k = Len(lanes'[l].queue) /\ Unlisted(l)' /\ Unraised(l)'
                      /\ \A s \in Held(l)' : pc'[s] \in {"wait", "replied", "join"} /\ req'[s].op = "detach"
    BY DEF DetachIsLast
  <2>1. l \in DOMAIN lanes /\ lanes'[l] = lanes[l]
    BY <1>2
  <2>2. /\ k = Len(lanes[l].queue) /\ Unlisted(l) /\ Unraised(l)
        /\ \A s \in Held(l) : pc[s] \in {"wait", "replied", "join"} /\ req[s].op = "detach"
    BY <2>1 DEF DetachIsLast
  <2> QED
    BY <1>2, <1>3, <1>5, <1>9, <2>1, <2>2 DEF Held
<1>12. WaitersQueued'
  <2>1. ASSUME NEW s \in Requests, pc'[s] = "wait"
        PROVE  pc[s] = "wait" /\ held'[s] = held[s] /\ lanes'[held[s]] = lanes[held[s]]
    BY <1>2, <1>3, <1>5, <2>1 DEF TypeOK, TasksStand, TaskStands
  <2> QED
    BY <1>2, <2>1 DEF WaitersQueued
<1> QED
  BY <1>4, <1>6, <1>7, <1>8, <1>10, <1>11, <1>12

LEMMA VetKeeps ==
  ASSUME HostInv, NEW r \in Requests, Vet(r), load' = load
  PROVE  HostInv'
<1>1. pc[r] = "vet" /\ Target(r) \in Resources /\ Routed(r)
  BY LastOne DEF Vet, HostInv, TasksStand, TaskStands, Visiting, Routed, Target
<1>2. ASSUME NEW what, Finish(r, what), UNCHANGED lanes PROVE HostInv'
  BY <1>1, <1>2, TaskEnds DEF Vet, HostInv, TypeOK, disk
<1>3. CASE StartLane(r, Target(r), Nobody) /\ ~Full
  <2>1. Cardinality(Owned) < MaxOwners
    <3>1. Cardinality(Owned) \in Nat /\ MaxOwners \in Nat
      BY FS_CardinalityType, HostAssumption DEF HostInv, AdmissionHeld, MaxOwners, TypeOK
    <3> QED
      BY <1>3, <3>1 DEF Full
  <2> QED
    BY <1>1, <1>3, <2>1, StartLaneKeeps DEF Vet
<1> QED
  BY <1>2, <1>3 DEF Vet

LEMMA PrepareChildKeeps ==
  ASSUME HostInv, NEW r \in Requests, PrepareChild(r), load' = load
  PROVE  HostInv'
<1>1. CASE req[r].other \in bound
  BY <1>1, TaskEnds DEF PrepareChild, HostInv, TypeOK, disk
<1>2. CASE req[r].other \notin bound
  <2>1. pc[r] = "prepare" /\ req[r].other \in Resources
    BY DEF PrepareChild, HostInv, TasksStand, TaskStands, Fits
  <2>2. Cardinality(Owned) < MaxOwners
    BY <2>1 DEF HostInv, AdmissionHeld, HasRoom
  <2> QED
    BY <1>2, <2>1, <2>2, StartLaneKeeps DEF PrepareChild
<1> QED
  BY <1>1, <1>2

\* The new lane replaces what the table has for its resource: nobody else is
\* starting one, nobody has it yet, and there is room.
LEMMA InsertKeeps ==
  ASSUME HostInv, NEW r \in Requests, Insert(r), load' = load
  PROVE  HostInv'
<1> USE HostAssumption
<1> USE DEF HostInv
<1>1. TaskStands(r) /\ pc[r] = "insert" /\ guard = Nobody
  BY DEF Insert, TasksStand
<1>2. PICK l \in DOMAIN lanes : l = raising[r] /\ l # NoLane /\ lanes[l].st # "starting"
  <2>1. raising[r] # NoLane /\ lanes[raising[r]].st # "starting"
    BY <1>1 DEF TaskStands
  <2> QED
    BY <2>1 DEF TypeOK
<1> DEFINE x == lanes[l].res
<1>a. x \in Resources /\ DOMAIN lanes \subseteq Nat
  <2>1. lanes \in Seq(Lanes)
    BY DEF TypeOK
  <2>2. lanes[l] \in Lanes /\ DOMAIN lanes \subseteq Nat
    BY <1>2, <2>1
  <2> QED
    BY <2>2 DEF Lanes
<1>3. admission = r
  BY <1>1 DEF AdmissionHeld, Admitted
<1>4. \A s \in Requests : s # r => raising[s] # l
  <2> SUFFICES ASSUME NEW s \in Requests, s # r, raising[s] = l PROVE FALSE
    OBVIOUS
  <2>1. pc[s] \in {"starting", "insert"}
    BY <1>2 DEF TasksStand, TaskStands
  <2> QED
    BY <1>3, <2>1 DEF AdmissionHeld, Admitted
<1> HIDE DEF x
<1>5. table' = [table EXCEPT ![x] = l] /\ UNCHANGED <<load, host, lanes, lockOf, disk>>
  BY <1>2 DEF Insert, x
<1>6. /\ req' = req /\ admission' = Nobody /\ guard' = Nobody
      /\ raising' = [raising EXCEPT ![r] = NoLane]
      /\ \A s \in Requests \ {r} : pc'[s] = pc[s] /\ held'[s] = held[s] /\ left'[s] = left[s]
  BY <1>1, <1>3 DEF Insert, Finish, Goto, Release, Equip, TypeOK
<1>7. \/ pc'[r] = "done" /\ held'[r] = NoLane /\ left'[r] = << >>
      \/ /\ lanes[l].by # r /\ held'[r] = l /\ left' = left
         /\ pc'[r] = IF req[r].op = "create" /\ Len(left[r]) = 1 THEN "fence" ELSE "send"
  BY <1>2 DEF Insert, Finish, Goto, Equip, TypeOK
<1>8. TypeOK'
  <2>1. pc' \in [Requests -> Steps]
    <3>1. PICK p \in {"done", "fence", "send"} : pc' = [pc EXCEPT ![r] = p]
      BY DEF Insert, Finish, Goto, Equip
    <3> QED
      BY <3>1 DEF TypeOK, Steps
  <2>2. held' \in [Requests -> DOMAIN lanes \cup {NoLane}]
    BY <1>2 DEF Insert, Finish, Equip, TypeOK
  <2>3. left' \in [Requests -> Seq(Resources \cup {NoResource})]
    <3>1. left' = left \/ left' = [left EXCEPT ![r] = << >>]
      BY DEF Insert, Finish, Equip
    <3>2. << >> \in Seq(Resources \cup {NoResource}) /\ left \in [Requests -> Seq(Resources \cup {NoResource})]
      BY DEF TypeOK
    <3> QED
      BY <3>1, <3>2
  <2>4. table' \in [Resources -> DOMAIN lanes \cup {NoLane}]
    BY <1>2, <1>a, <1>5 DEF TypeOK
  <2> QED
    BY <1>5, <1>6, <2>1, <2>2, <2>3, <2>4 DEF TypeOK, host, disk, QueueCapacity
<1>9. TasksStand'
  <2>1. TaskStands(r)'
    <3>1. pc'[r] # "done" => Routed(r)'
      BY <1>1, <1>2, <1>6, <1>7 DEF TaskStands, Routed
    <3>2. Fits(r)'
      BY <1>1, <1>6, <1>7 DEF TaskStands, Fits, Executes
    <3>3. raising'[r] = NoLane
      BY <1>6 DEF TypeOK
    <3> QED
      BY <1>1, <1>2, <1>6, <1>7, <3>1, <3>2, <3>3 DEF TaskStands, Visiting
  <2>2. ASSUME NEW s \in Requests \ {r} PROVE TaskStands(s)'
    <3>1. TaskStands(s) /\ raising'[s] = raising[s]
      BY <1>6 DEF TasksStand, TypeOK
    <3> QED
      BY <1>5, <1>6, <3>1 DEF TaskStands, Fits, Routed
  <2> QED
    BY <2>1, <2>2 DEF TasksStand
<1>10. AdmissionHeld'
  <2>1. Cardinality(Owned) < MaxOwners /\ MaxOwners \in Nat /\ Cardinality(Owned) \in Nat /\ IsFiniteSet(Owned)
    BY <1>1, FS_CardinalityType DEF AdmissionHeld, HasRoom, MaxOwners, TypeOK
  <2>2. Owned' = Owned \cup {x}
    BY <1>2, <1>a, <1>5 DEF Owned, TypeOK
  <2>3. IsFiniteSet(Owned') /\ Cardinality(Owned') <= MaxOwners
    <3>1. /\ IsFiniteSet(Owned \cup {x})
          /\ Cardinality(Owned \cup {x}) = IF x \in Owned THEN Cardinality(Owned) ELSE Cardinality(Owned) + 1
      BY <2>1, FS_AddElement
    <3> QED
      BY <2>1, <2>2, <3>1
  <2>4. \A s \in Requests : ~Admitted(s)'
    <3>1. ~Admitted(r)'
      BY <1>1, <1>6, <1>7 DEF Admitted, LastVisit, TaskStands, Fits, Executes
    <3>2. \A s \in Requests \ {r} : Admitted(s)' => Admitted(s)
      BY <1>6 DEF Admitted, LastVisit
    <3> QED
      BY <1>3, <3>1, <3>2 DEF AdmissionHeld
  <2>5. \A s \in Requests : HasRoom(s)' => Admitted(s)'
    BY DEF HasRoom, Admitted
  <2>6. MaxOwners' = MaxOwners
    BY DEF MaxOwners
  <2> QED
    BY <2>3, <2>4, <2>5, <2>6 DEF AdmissionHeld
<1>11. LocksHeld' /\ HostHolds' /\ DiscardIsLast'
  BY <1>1, <1>5 DEF LocksHeld, HostHolds, DiscardIsLast, Live, host, disk
<1>12. /\ \A m \in DOMAIN lanes : Unraised(m) => Unraised(m)'
       /\ Unraised(l)' /\ ~Unraised(l)
       /\ \A m \in DOMAIN lanes : m # l => (Unlisted(m) => Unlisted(m)')
       /\ \A m \in DOMAIN lanes : m # l => \A s \in Held(m)' : s \in Held(m) /\ s # r
  <2>1. \A s \in Requests : raising'[s] = IF s = r THEN NoLane ELSE raising[s]
    BY <1>6 DEF TypeOK
  <2>2. \A m \in DOMAIN lanes : Unraised(m) => Unraised(m)'
    BY <1>2, <1>a, <2>1 DEF Unraised
  <2>3. Unraised(l)' /\ ~Unraised(l)
    BY <1>2, <1>4, <2>1 DEF Unraised
  <2>4. \A m \in DOMAIN lanes : m # l => (Unlisted(m) => Unlisted(m)')
    BY <1>2, <1>a, <1>5 DEF Unlisted, host, TypeOK
  <2>5. \A m \in DOMAIN lanes : m # l => \A s \in Held(m)' : s \in Held(m) /\ s # r
    BY <1>2, <1>6, <1>7, SMTT(60) DEF Held
  <2> QED
    BY <2>2, <2>3, <2>4, <2>5
<1>13. References'
  <2>1. ASSUME NEW y \in Resources, table'[y] # NoLane
        PROVE  lanes'[table'[y]].res = y /\ Unraised(table[y])'
    <3>1. CASE y = x
      <4>1. table'[y] = l
        BY <1>5, <3>1 DEF TypeOK
      <4> QED
        BY <1>5, <1>12, <3>1, <4>1 DEF Unraised, x
    <3>2. CASE y # x
      <4>1. table'[y] = table[y] /\ table[y] \in DOMAIN lanes /\ Unraised(table[y]) /\ lanes[table[y]].res = y
        BY <1>5, <2>1, <3>2 DEF TypeOK, References
      <4> QED
        BY <1>5, <1>12, <4>1 DEF Unraised
    <3> QED
      BY <3>1, <3>2
  <2>2. \A m \in doomed' : Unraised(m)'
    BY <1>5, <1>12 DEF References, host, TypeOK
  <2>3. ASSUME NEW s \in Requests, held'[s] # NoLane PROVE Unraised(held[s])'
    <3>1. held'[s] = l \/ held'[s] = held[s]
      BY <1>6, <1>7, <2>3
    <3>2. held'[s] = held[s] => held[s] \in DOMAIN lanes /\ Unraised(held[s])
      BY <2>3 DEF References, TypeOK
    <3> QED
      BY <1>12, <3>1, <3>2 DEF Unraised
  <2>4. \A m \in DOMAIN lanes' : lanes'[m].st = "starting" =>
          lanes'[m].queue = << >> /\ Unlisted(m)' /\ Held(m)' = {}
    BY <1>2, <1>a, <1>5, <1>12 DEF References
  <2>5. ASSUME NEW s \in Requests, pc'[s] = "detaching"
        PROVE  Unlisted(held[s])' /\ Held(held[s])' = {s}
    <3>1. s # r /\ pc[s] = "detaching"
      BY <1>6, <1>7, <2>5
    <3> QED
      BY <1>3, <3>1 DEF AdmissionHeld, Admitted
  <2> QED
    BY <2>1, <2>2, <2>3, <2>4, <2>5 DEF References
<1>14. DetachIsLast'
  <2> SUFFICES ASSUME NEW m \in DOMAIN lanes, NEW k \in DOMAIN lanes[m].queue,
                      lanes[m].queue[k].kind = "detach"
               PROVE  /\ k = Len(lanes[m].queue) /\ Unlisted(m)' /\ Unraised(m)'
                      /\ \A s \in Held(m)' : pc'[s] \in {"wait", "replied", "join"} /\ req'[s].op = "detach"
    BY <1>5 DEF DetachIsLast
  <2>1. /\ k = Len(lanes[m].queue) /\ Unlisted(m) /\ Unraised(m)
        /\ \A s \in Held(m) : pc[s] \in {"wait", "replied", "join"} /\ req[s].op = "detach"
    BY DEF DetachIsLast
  <2>2. m # l
    BY <1>12, <2>1
  <2> QED
    BY <1>6, <1>12, <2>1, <2>2 DEF Held
<1>15. WaitersQueued'
  BY <1>5, <1>6, <1>7 DEF WaitersQueued
<1> QED
  BY <1>8, <1>9, <1>10, <1>11, <1>13, <1>14, <1>15

-----------------------------------------------------------------------------
(* Messages enter the queues.                                              *)

LEMMA LaneType ==
  ASSUME TypeOK
  PROVE  /\ lanes \in Seq(Lanes) /\ DOMAIN lanes \subseteq Nat /\ QueueCapacity \in Nat \ {0}
         /\ \A l \in DOMAIN lanes : /\ lanes[l] \in Lanes /\ lanes[l].res \in Resources
                                    /\ lanes[l].by \in Requests \cup {Nobody}
                                    /\ lanes[l].queue \in Seq(Messages)
                                    /\ Len(lanes[l].queue) \in Nat
                                    /\ Len(lanes[l].queue) <= QueueCapacity
<1>1. lanes \in Seq(Lanes) /\ DOMAIN lanes \subseteq Nat
  BY DEF TypeOK
<1>2. QueueCapacity \in Nat \ {0}
  BY HostAssumption DEF TypeOK, QueueCapacity
<1>3. ASSUME NEW l \in DOMAIN lanes
      PROVE  /\ lanes[l] \in Lanes /\ lanes[l].res \in Resources
             /\ lanes[l].by \in Requests \cup {Nobody} /\ lanes[l].queue \in Seq(Messages)
  <2>1. lanes[l] \in Lanes
    BY <1>1
  <2> QED
    BY <2>1 DEF Lanes
<1>4. \A l \in DOMAIN lanes : Len(lanes[l].queue) \in Nat
  BY <1>3
<1> QED
  BY <1>1, <1>2, <1>3, <1>4 DEF TypeOK

\* One lane changes.
LEMMA LaneChanges ==
  ASSUME TypeOK, NEW l \in DOMAIN lanes, NEW new \in Lanes, Len(new.queue) <= QueueCapacity,
         lanes' = [lanes EXCEPT ![l] = new]
  PROVE  /\ lanes' \in Seq(Lanes) /\ DOMAIN lanes' = DOMAIN lanes /\ DOMAIN lanes \subseteq Nat
         /\ lanes'[l] = new
         /\ \A j \in DOMAIN lanes : j # l => lanes'[j] = lanes[j]
         /\ \A j \in DOMAIN lanes : Len(lanes'[j].queue) <= QueueCapacity
<1>1. lanes \in Seq(Lanes)
  BY DEF TypeOK
<1>2. lanes' \in Seq(Lanes) /\ DOMAIN lanes' = DOMAIN lanes /\ DOMAIN lanes \subseteq Nat
  BY <1>1
<1>3. lanes'[l] = new /\ \A j \in DOMAIN lanes : j # l => lanes'[j] = lanes[j]
  BY <1>1
<1> QED
  BY <1>2, <1>3 DEF TypeOK

LEMMA Appended ==
  ASSUME NEW X, NEW q \in Seq(X), NEW m \in X
  PROVE  /\ Append(q, m) \in Seq(X) /\ Len(Append(q, m)) = Len(q) + 1 /\ Len(q) \in Nat
         /\ DOMAIN Append(q, m) = DOMAIN q \cup {Len(q) + 1} /\ Len(q) + 1 \notin DOMAIN q
         /\ Append(q, m)[Len(q) + 1] = m
         /\ \A k \in DOMAIN q : Append(q, m)[k] = q[k]
OBVIOUS

\* References and locks do not see the queues.
LEMMA QueuesApart ==
  ASSUME HostInv, DOMAIN lanes' = DOMAIN lanes,
         \A j \in DOMAIN lanes : /\ lanes'[j].st = lanes[j].st /\ lanes'[j].res = lanes[j].res
                                 /\ lanes'[j].by = lanes[j].by
                                 /\ lanes[j].st = "starting" => lanes'[j].queue = lanes[j].queue,
         UNCHANGED <<load, req, held, raising, left, table, lockOf, journal>>,
         doomed' \subseteq doomed,
         \A s \in Requests : pc'[s] = "detaching" => pc[s] = "detaching"
  PROVE  LocksHeld' /\ References' /\ DiscardIsLast'
         /\ \A l \in DOMAIN lanes : (Unraised(l)' <=> Unraised(l)) /\ (Unlisted(l) => Unlisted(l)') /\ Held(l)' = Held(l)
<1> USE DEF HostInv
<1>1. \A l \in DOMAIN lanes : (Unraised(l)' <=> Unraised(l)) /\ (Unlisted(l) => Unlisted(l)') /\ Held(l)' = Held(l)
  BY DEF Unraised, Unlisted, Held
<1>2. LocksHeld' /\ DiscardIsLast'
  BY DEF LocksHeld, Live, DiscardIsLast
<1>3. References'
  <2>1. ASSUME NEW y \in Resources, table'[y] # NoLane
        PROVE  lanes'[table'[y]].res = y /\ Unraised(table[y])'
    <3>1. table[y] \in DOMAIN lanes /\ lanes[table[y]].res = y /\ Unraised(table[y])
      BY <2>1 DEF References, TypeOK
    <3> QED
      BY <3>1 DEF Unraised
  <2>2. \A m \in doomed' : Unraised(m)'
    BY DEF References, TypeOK, Unraised
  <2>3. ASSUME NEW s \in Requests, held'[s] # NoLane PROVE Unraised(held[s])'
    BY <2>3 DEF References, Unraised
  <2>4. \A m \in DOMAIN lanes' : lanes'[m].st = "starting" =>
          lanes'[m].queue = << >> /\ Unlisted(m)' /\ Held(m)' = {}
    BY <1>1 DEF References
  <2>5. ASSUME NEW s \in Requests, pc'[s] = "detaching"
        PROVE  Unlisted(held[s])' /\ Held(held[s])' = {s}
    BY <2>5 DEF References, Unlisted, Held
  <2> QED
    BY <2>1, <2>2, <2>3, <2>4, <2>5 DEF References
<1> QED
  BY <1>1, <1>2, <1>3

\* A task puts its message into the queue of the lane it holds and waits.
LEMMA SendsKeep ==
  ASSUME HostInv, NEW r \in Requests, pc[r] \in {"send", "detaching"}, NEW m \in Messages, m.from = r,
         (m.kind = "detach") <=> (pc[r] = "detaching"),
         ~Closed(held[r]), Len(lanes[held[r]].queue) < QueueCapacity,
         lanes' = [lanes EXCEPT ![held[r]].queue = Append(@, m)], Advance(r, "wait"),
         UNCHANGED <<load, table, admission, guard, host, lockOf, disk>>
  PROVE  HostInv'
<1> USE HostAssumption
<1> USE DEF HostInv
<1>1. PICK l \in DOMAIN lanes : l = held[r] /\ TaskStands(r)
  BY DEF TasksStand, TaskStands, TypeOK
<1> DEFINE new == [lanes[l] EXCEPT !.queue = Append(@, m)]
<1>a. /\ lanes[l] \in Lanes /\ lanes[l].queue \in Seq(Messages) /\ QueueCapacity \in Nat
      /\ DOMAIN lanes \subseteq Nat
  BY <1>1, LaneType
<1>b. /\ new \in Lanes /\ new.queue = Append(lanes[l].queue, m)
      /\ new.st = lanes[l].st /\ new.res = lanes[l].res /\ new.by = lanes[l].by
  BY <1>a, Appended DEF Lanes
<1>c. lanes' = [lanes EXCEPT ![l] = new]
  BY <1>1
<1>d. Len(new.queue) <= QueueCapacity
  BY <1>1, <1>a, <1>b, Appended
<1> HIDE DEF new
<1>2. /\ lanes' \in Seq(Lanes) /\ DOMAIN lanes' = DOMAIN lanes /\ lanes'[l] = new
      /\ \A j \in DOMAIN lanes : j # l => lanes'[j] = lanes[j]
      /\ \A j \in DOMAIN lanes : Len(lanes'[j].queue) <= QueueCapacity
  BY <1>1, <1>b, <1>c, <1>d, LaneChanges
<1>e. PICK q \in Seq(Messages), n \in Nat :
        /\ lanes[l].queue = q /\ new.queue = Append(q, m) /\ n = Len(q) + 1
        /\ Len(new.queue) = n /\ DOMAIN new.queue = DOMAIN q \cup {n} /\ n \notin DOMAIN q
        /\ new.queue[n] = m /\ \A k \in DOMAIN q : new.queue[k] = q[k]
  BY <1>a, <1>b, Appended
<1>3. /\ pc' = [pc EXCEPT ![r] = "wait"] /\ pc'[r] = "wait"
      /\ UNCHANGED <<req, held, raising, left, answer, vanished>>
      /\ \A s \in Requests \ {r} : pc'[s] = pc[s]
  BY DEF Advance, Goto, TypeOK
<1>4. TypeOK'
  BY <1>2, <1>3 DEF TypeOK, Steps, host, disk, QueueCapacity
<1>5. TasksStand'
  <2>1. TaskStands(r)'
    BY <1>1, <1>3 DEF TaskStands, Fits, Routed, Visiting
  <2>2. ASSUME NEW s \in Requests \ {r} PROVE TaskStands(s)'
    <3>1. TaskStands(s)
      BY DEF TasksStand
    <3>2. raising[s] # NoLane => /\ lanes'[raising[s]].st = lanes[raising[s]].st
                                 /\ lanes'[raising[s]].by = lanes[raising[s]].by
      BY <1>2, <1>b, SMTT(60) DEF TypeOK
    <3> QED
      BY <1>3, <3>1, <3>2 DEF TaskStands, Fits, Routed
  <2> QED
    BY <2>1, <2>2 DEF TasksStand
<1>6. AdmissionHeld'
  <2>1. Owned' = Owned /\ MaxOwners' = MaxOwners
    BY DEF Owned, MaxOwners
  <2>2. \A s \in Requests : (Admitted(s)' => Admitted(s)) /\ (HasRoom(s)' => HasRoom(s))
    BY <1>1, <1>3 DEF Admitted, HasRoom, LastVisit, TaskStands, Fits
  <2> QED
    BY <2>1, <2>2 DEF AdmissionHeld
<1>7. HostHolds'
  BY DEF HostHolds, host, Owned
<1>8. lanes[l].st # "starting"
  BY <1>1 DEF References, Held
<1>9. /\ LocksHeld' /\ References' /\ DiscardIsLast'
      /\ \A j \in DOMAIN lanes : (Unraised(j)' <=> Unraised(j)) /\ (Unlisted(j) => Unlisted(j)') /\ Held(j)' = Held(j)
  BY <1>2, <1>3, <1>8, <1>b, QueuesApart DEF host, disk
<1>10. \A k \in DOMAIN q : q[k].kind # "detach"
  BY <1>1, <1>e DEF DetachIsLast, Held
<1>11. DetachIsLast'
  <2> SUFFICES ASSUME NEW j \in DOMAIN lanes, NEW k \in DOMAIN lanes'[j].queue,
                      lanes'[j].queue[k].kind = "detach"
               PROVE  /\ k = Len(lanes'[j].queue) /\ Unlisted(j)' /\ Unraised(j)'
                      /\ \A s \in Held(j)' : pc'[s] \in {"wait", "replied", "join"} /\ req'[s].op = "detach"
    BY <1>2, SMTT(60) DEF DetachIsLast
  <2>1. CASE j = l
    <3>1. k = n /\ m.kind = "detach" /\ pc[r] = "detaching" /\ req[r].op = "detach"
      <4>1. k \in DOMAIN new.queue /\ new.queue[k].kind = "detach"
        BY <1>2, <2>1
      <4>2. k = n /\ m.kind = "detach"
        BY <1>e, <1>10, <4>1
      <4> QED
        BY <1>1, <4>2 DEF TaskStands, Fits
    <3>2. Unlisted(l) /\ Held(l) = {r}
      BY <1>1, <3>1 DEF References
    <3>3. Unraised(l)
      BY <1>1, <1>a DEF References
    <3> QED
      BY <1>2, <1>3, <1>e, <1>9, <2>1, <3>1, <3>2, <3>3
  <2>2. CASE j # l
    <3>1. /\ k = Len(lanes[j].queue) /\ Unlisted(j) /\ Unraised(j)
          /\ \A s \in Held(j) : pc[s] \in {"wait", "replied", "join"} /\ req[s].op = "detach"
      BY <1>2, <2>2, ZenonT(60) DEF DetachIsLast
    <3>2. r \notin Held(j)
      BY <1>1, <2>2 DEF Held
    <3> QED
      BY <1>2, <1>3, <1>9, <2>2, <3>1, <3>2 DEF Held
  <2> QED
    BY <2>1, <2>2
<1>12. WaitersQueued'
  <2>1. ASSUME NEW s \in Requests, pc'[s] = "wait"
        PROVE  \E k \in DOMAIN lanes'[held'[s]].queue : lanes'[held'[s]].queue[k].from = s
    <3>1. CASE s = r
      BY <1>1, <1>2, <1>3, <1>e, <3>1, ZenonT(60)
    <3>2. CASE s # r
      <4>1. pc[s] = "wait" /\ held'[s] = held[s] /\ held[s] \in DOMAIN lanes
        BY <1>3, <2>1, <3>2 DEF TasksStand, TaskStands, TypeOK
      <4>2. PICK k \in DOMAIN lanes[held[s]].queue : lanes[held[s]].queue[k].from = s
        BY <4>1 DEF WaitersQueued
      <4>3. CASE held[s] = l
        BY <1>2, <1>e, <4>1, <4>2, <4>3, SMTT(60)
      <4>4. CASE held[s] # l
        BY <1>2, <4>1, <4>2, <4>4
      <4> QED
        BY <4>3, <4>4
    <3> QED
      BY <3>1, <3>2
  <2>2. \A j \in DOMAIN lanes' : lanes'[j].st = "gone" => lanes'[j].queue = << >>
    BY <1>1, <1>2, <1>b DEF WaitersQueued, Closed
  <2> QED
    BY <2>1, <2>2 DEF WaitersQueued
<1> QED
  BY <1>4, <1>5, <1>6, <1>7, <1>9, <1>11, <1>12

LEMMA SendKeeps ==
  ASSUME HostInv, NEW r \in Requests, Send(r), load' = load
  PROVE  HostInv'
<1> DEFINE shut == Closed(held[r]) \/ Len(lanes[held[r]].queue) >= QueueCapacity
<1>1. CASE shut
  BY <1>1, TaskEnds DEF Send, HostInv, TypeOK, disk
<1>2. CASE ~shut
  <2> DEFINE m == [from |-> r, kind |-> MessageOf(r)]
  <2>1. m \in Messages /\ m.kind # "detach" /\ m.from = r
    BY DEF Messages, MessageOf, HostInv, TypeOK, Operations
  <2>2. held[r] \in DOMAIN lanes /\ pc[r] = "send"
    BY DEF Send, HostInv, TypeOK, TasksStand, TaskStands
  <2>3. Len(lanes[held[r]].queue) < QueueCapacity
    <3>1. Len(lanes[held[r]].queue) \in Nat /\ QueueCapacity \in Nat
      BY <2>2, HostAssumption, SMTT(60) DEF HostInv, TypeOK, QueueCapacity, Lanes
    <3> QED
      BY <1>2, <3>1
  <2>4. /\ ~Closed(held[r]) /\ lanes' = [lanes EXCEPT ![held[r]].queue = Append(@, m)]
        /\ Advance(r, "wait") /\ UNCHANGED <<table, admission, guard, host, lockOf, disk>>
    BY <1>2 DEF Send
  <2> HIDE DEF m
  <2> QED
    BY <2>1, <2>2, <2>3, <2>4, SendsKeep
<1> QED
  BY <1>1, <1>2

LEMMA SendDetachKeeps ==
  ASSUME HostInv, NEW r \in Requests, SendDetach(r), load' = load
  PROVE  HostInv'
<1>1. CASE Closed(held[r])
  <2>1. Advance(r, "join") /\ pc[r] = "detaching" /\ UNCHANGED lanes
    BY <1>1 DEF SendDetach
  <2>2. pc'[r] = "join" /\ UNCHANGED <<req, held, raising, left>>
    BY <2>1 DEF Advance, Goto, HostInv, TypeOK
  <2>3. TaskStands(r)'
    BY <2>1, <2>2 DEF HostInv, TasksStand, TaskStands, Fits, Routed, Visiting
  <2>4. admission = r /\ ~HasRoom(r)'
    BY <2>1, <2>2 DEF HostInv, AdmissionHeld, Admitted, HasRoom, LastVisit
  <2> QED
    BY <1>1, <2>1, <2>3, <2>4, TaskAdvances DEF SendDetach, Steps, HostInv, TypeOK
<1>2. CASE ~Closed(held[r])
  <2> DEFINE m == [from |-> r, kind |-> "detach"]
  <2>1. m \in Messages /\ m.kind = "detach" /\ m.from = r
    BY DEF Messages, Operations
  <2>2. /\ Len(lanes[held[r]].queue) < QueueCapacity /\ pc[r] = "detaching"
        /\ lanes' = [lanes EXCEPT ![held[r]].queue = Append(@, m)]
        /\ Advance(r, "wait") /\ UNCHANGED <<table, admission, guard, host, lockOf, disk>>
    BY <1>2 DEF SendDetach
  <2> HIDE DEF m
  <2> QED
    BY <1>2, <2>1, <2>2, SendsKeep
<1> QED
  BY <1>1, <1>2

\* A detach takes the lane out of the table: it is referred to by nobody else.
LEMMA GrabKeeps ==
  ASSUME HostInv, NEW r \in Requests, Grab(r), load' = load
  PROVE  HostInv'
<1> USE HostAssumption
<1> USE DEF HostInv
<1>1. TaskStands(r) /\ pc[r] = "grab" /\ guard = Nobody /\ req[r].op = "detach" /\ req[r].res \in Resources
  BY DEF Grab, TasksStand, TaskStands, Fits
<1>2. CASE table[req[r].res] = NoLane \/ Held(table[req[r].res]) # {}
  BY <1>1, <1>2, TaskEnds DEF Grab, TypeOK, disk
<1>3. CASE ~(table[req[r].res] = NoLane \/ Held(table[req[r].res]) # {})
  <2>1. PICK l \in DOMAIN lanes, x \in Resources :
          x = req[r].res /\ l = table[x] /\ Held(l) = {} /\ l # NoLane
    BY <1>1, <1>3 DEF TypeOK
  <2>2. /\ table' = [table EXCEPT ![x] = NoLane] /\ held' = [held EXCEPT ![r] = l] /\ guard' = r
        /\ pc' = [pc EXCEPT ![r] = "detaching"]
        /\ UNCHANGED <<req, raising, left, answer, vanished, admission, host, lanes, lockOf, disk>>
    BY <1>3, <2>1 DEF Grab, Goto
  <2>3. TypeOK'
    BY <2>1, <2>2 DEF TypeOK, Steps, host, disk, QueueCapacity
  <2>4. /\ pc'[r] = "detaching" /\ held'[r] = l
        /\ \A s \in Requests \ {r} : pc'[s] = pc[s] /\ held'[s] = held[s]
        /\ \A y \in Resources : table'[y] = IF y = x THEN NoLane ELSE table[y]
    BY <2>2 DEF TypeOK
  <2>5. TasksStand'
    <3>1. TaskStands(r)'
      BY <1>1, <2>1, <2>2, <2>4 DEF TaskStands, Fits, Routed, Visiting
    <3>2. ASSUME NEW s \in Requests \ {r} PROVE TaskStands(s)'
      <4>1. TaskStands(s)
        BY DEF TasksStand
      <4> QED
        BY <2>2, <2>4, <4>1 DEF TaskStands, Fits, Routed
    <3> QED
      BY <3>1, <3>2 DEF TasksStand
  <2>6. AdmissionHeld'
    <3>1. admission = r
      BY <1>1 DEF AdmissionHeld, Admitted
    <3>2. \A s \in Requests \ {r} : ~Admitted(s)'
      BY <2>2, <2>4, <3>1 DEF AdmissionHeld, Admitted, LastVisit
    <3>3. \A s \in Requests : HasRoom(s)' => Admitted(s)' /\ s # r
      BY <2>4 DEF HasRoom, Admitted, LastVisit
    <3>4. \A y \in Resources : table'[y] \in {table[y], NoLane}
      BY <2>4
    <3> QED
      BY <2>2, <3>1, <3>2, <3>3, <3>4, TableShrinks DEF AdmissionHeld
  <2>7. LocksHeld' /\ HostHolds' /\ DiscardIsLast'
    BY <1>1, <2>2 DEF LocksHeld, HostHolds, DiscardIsLast, Live, host, disk
  <2>8. l \notin doomed /\ lanes[l].res = x /\ Unraised(l) /\ DOMAIN lanes \subseteq Nat
    BY <1>1, <2>1, LaneType DEF HostHolds, References
  <2>9. /\ \A j \in DOMAIN lanes : Unraised(j)' <=> Unraised(j)
        /\ \A j \in DOMAIN lanes : Unlisted(j) => Unlisted(j)' /\ j # l
        /\ Unlisted(l)' /\ Held(l)' = {r}
        /\ \A j \in DOMAIN lanes : j # l => \A s \in Held(j)' : s \in Held(j) /\ s # r
    <3>1. \A j \in DOMAIN lanes : Unraised(j)' <=> Unraised(j)
      BY <2>2 DEF Unraised
    <3>2. \A j \in DOMAIN lanes : Unlisted(j) => Unlisted(j)' /\ j # l
      BY <2>1, <2>2, <2>4, <2>8 DEF Unlisted, host
    <3>3. Unlisted(l)'
      BY <2>1, <2>2, <2>4, <2>8 DEF Unlisted, host, References
    <3>4. Held(l)' = {r}
      BY <2>1, <2>4 DEF Held
    <3>5. \A j \in DOMAIN lanes : j # l => \A s \in Held(j)' : s \in Held(j) /\ s # r
      BY <2>4 DEF Held
    <3> QED
      BY <3>1, <3>2, <3>3, <3>4, <3>5
  <2>10. References'
    <3>1. ASSUME NEW y \in Resources, table'[y] # NoLane
          PROVE  lanes'[table'[y]].res = y /\ Unraised(table[y])'
      <4>1. table'[y] = table[y] /\ table[y] \in DOMAIN lanes /\ lanes[table[y]].res = y /\ Unraised(table[y])
        BY <2>4, <3>1 DEF References, TypeOK
      <4> QED
        BY <2>2, <4>1 DEF Unraised
    <3>2. \A j \in doomed' : Unraised(j)'
      BY <2>2, <2>9 DEF References, host, TypeOK
    <3>3. ASSUME NEW s \in Requests, held'[s] # NoLane PROVE Unraised(held[s])'
      <4>1. Unraised(held'[s])
        BY <2>4, <2>8, <3>3 DEF References
      <4> QED
        BY <2>2, <4>1 DEF Unraised
    <3>4. \A j \in DOMAIN lanes' : lanes'[j].st = "starting" =>
            lanes'[j].queue = << >> /\ Unlisted(j)' /\ Held(j)' = {}
      BY <2>2, <2>9 DEF References
    <3>5. ASSUME NEW s \in Requests, pc'[s] = "detaching"
          PROVE  Unlisted(held[s])' /\ Held(held[s])' = {s}
      <4>1. s = r
        BY <1>1, <2>4, <3>5 DEF AdmissionHeld, Admitted
      <4> QED
        BY <2>4, <2>9, <4>1 DEF Unlisted, Held
    <3> QED
      BY <3>1, <3>2, <3>3, <3>4, <3>5 DEF References
  <2>11. DetachIsLast'
    <3> SUFFICES ASSUME NEW j \in DOMAIN lanes, NEW k \in DOMAIN lanes[j].queue,
                        lanes[j].queue[k].kind = "detach"
                 PROVE  /\ k = Len(lanes[j].queue) /\ Unlisted(j)' /\ Unraised(j)'
                        /\ \A s \in Held(j)' : pc'[s] \in {"wait", "replied", "join"} /\ req'[s].op = "detach"
      BY <2>2 DEF DetachIsLast
    <3>1. /\ k = Len(lanes[j].queue) /\ Unlisted(j) /\ Unraised(j)
          /\ \A s \in Held(j) : pc[s] \in {"wait", "replied", "join"} /\ req[s].op = "detach"
      BY DEF DetachIsLast
    <3> QED
      BY <2>2, <2>4, <2>9, <3>1 DEF Held
  <2>12. WaitersQueued'
    BY <2>2, <2>4, SMTT(60) DEF WaitersQueued
  <2> QED
    BY <2>3, <2>5, <2>6, <2>7, <2>10, <2>11, <2>12
<1> QED
  BY <1>2, <1>3

-----------------------------------------------------------------------------
(* The lane threads.                                                       *)

\* One lane that is not waiting to start, or has just stopped waiting, changes:
\* the references are not touched.
LEMMA ReferencesStay ==
  ASSUME HostInv, DOMAIN lanes' = DOMAIN lanes,
         \A j \in DOMAIN lanes : /\ lanes'[j].res = lanes[j].res
                                 /\ lanes'[j].st = "starting" =>
                                      lanes[j].st = "starting" /\ lanes'[j].queue = lanes[j].queue,
         UNCHANGED <<held, raising, table, doomed>>,
         \A s \in Requests : pc'[s] = "detaching" => pc[s] = "detaching"
  PROVE  References'
<1> USE DEF HostInv
<1>1. \A l \in DOMAIN lanes : Unlisted(l)' <=> Unlisted(l)
  BY DEF Unlisted
<1>2. \A l \in DOMAIN lanes : Held(l)' = Held(l)
  BY DEF Held
<1>3. ASSUME NEW y \in Resources, table'[y] # NoLane
      PROVE  lanes'[table'[y]].res = y /\ Unraised(table[y])'
  <2>1. table[y] \in DOMAIN lanes /\ lanes[table[y]].res = y /\ Unraised(table[y])
    BY <1>3 DEF References, TypeOK
  <2> QED
    BY <2>1 DEF Unraised
<1>4. \A m \in doomed' : Unraised(m)'
  BY DEF References, Unraised
<1>5. ASSUME NEW s \in Requests, held'[s] # NoLane PROVE Unraised(held[s])'
  BY <1>5 DEF References, Unraised
<1>6. \A m \in DOMAIN lanes' : lanes'[m].st = "starting" =>
        lanes'[m].queue = << >> /\ Unlisted(m)' /\ Held(m)' = {}
  BY <1>1, <1>2 DEF References
<1>7. ASSUME NEW s \in Requests, pc'[s] = "detaching"
      PROVE  Unlisted(held[s])' /\ Held(held[s])' = {s}
  BY <1>7 DEF References, Unlisted, Held
<1> QED
  BY <1>3, <1>4, <1>5, <1>6, <1>7 DEF References

\* The state of one lane changes and its queue does not.
LEMMA StateKeeps ==
  ASSUME HostInv, NEW l \in DOMAIN lanes, NEW z \in {"open", "gone"},
         lanes' = [lanes EXCEPT ![l].st = z], z = "gone" => lanes[l].queue = << >>,
         UNCHANGED <<load, tasks, table, admission, guard, host>>
  PROVE  /\ TasksStand' /\ AdmissionHeld' /\ HostHolds' /\ References' /\ DetachIsLast' /\ WaitersQueued'
         /\ lanes' \in Seq(Lanes) /\ DOMAIN lanes' = DOMAIN lanes /\ DOMAIN lanes \subseteq Nat
         /\ \A j \in DOMAIN lanes : /\ lanes'[j].res = lanes[j].res /\ lanes'[j].queue = lanes[j].queue
                                    /\ lanes'[j].st = IF j = l THEN z ELSE lanes[j].st
<1> USE DEF HostInv
<1> DEFINE new == [lanes[l] EXCEPT !.st = z]
<1>1. lanes[l] \in Lanes /\ Len(lanes[l].queue) <= QueueCapacity
  BY LaneType
<1>2. /\ new \in Lanes /\ new.queue = lanes[l].queue /\ new.st = z /\ new.res = lanes[l].res
      /\ new.by = lanes[l].by
  BY <1>1 DEF Lanes
<1>3. lanes' = [lanes EXCEPT ![l] = new]
  OBVIOUS
<1> HIDE DEF new
<1>4. /\ lanes' \in Seq(Lanes) /\ DOMAIN lanes' = DOMAIN lanes /\ DOMAIN lanes \subseteq Nat
      /\ lanes'[l] = new /\ \A j \in DOMAIN lanes : j # l => lanes'[j] = lanes[j]
  BY <1>1, <1>2, <1>3, LaneChanges
<1>5. \A j \in DOMAIN lanes : /\ lanes'[j].res = lanes[j].res /\ lanes'[j].queue = lanes[j].queue
                              /\ lanes'[j].st = IF j = l THEN z ELSE lanes[j].st
                              /\ lanes'[j].by = lanes[j].by
  BY <1>2, <1>4
<1>6. TasksStand'
  <2> SUFFICES ASSUME NEW s \in Requests PROVE TaskStands(s)'
    BY DEF TasksStand
  <2>1. TaskStands(s)
    BY DEF TasksStand
  <2>2. raising[s] # NoLane => /\ lanes'[raising[s]].by = lanes[raising[s]].by
                               /\ lanes'[raising[s]].st = "starting" => lanes[raising[s]].st = "starting"
    BY <1>5 DEF TypeOK
  <2> QED
    BY <2>1, <2>2 DEF TaskStands, Fits, Routed, tasks
<1>7. AdmissionHeld' /\ HostHolds'
  BY DEF AdmissionHeld, Admitted, HasRoom, LastVisit, Owned, MaxOwners, HostHolds, tasks, host
<1>8. References'
  BY <1>4, <1>5, ReferencesStay DEF tasks, host
<1>9. DetachIsLast'
  BY <1>4, <1>5 DEF DetachIsLast, Unlisted, Unraised, Held, tasks, host
<1>10. WaitersQueued'
  <2>1. \A s \in Requests : pc[s] = "wait" => held[s] \in DOMAIN lanes
    BY DEF TasksStand, TaskStands, TypeOK
  <2>2. ASSUME NEW s \in Requests, pc[s] = "wait"
        PROVE  \E k \in DOMAIN lanes'[held[s]].queue : lanes'[held[s]].queue[k].from = s
    <3>1. PICK k \in DOMAIN lanes[held[s]].queue : lanes[held[s]].queue[k].from = s
      BY <2>2 DEF WaitersQueued
    <3>2. lanes'[held[s]].queue = lanes[held[s]].queue
      BY <1>5, <2>1, <2>2
    <3> QED
      BY <3>1, <3>2
  <2>3. \A j \in DOMAIN lanes' : lanes'[j].st = "gone" => lanes'[j].queue = << >>
    BY <1>4, <1>5 DEF WaitersQueued
  <2> QED
    BY <2>2, <2>3 DEF WaitersQueued, tasks
<1> QED
  BY <1>4, <1>5, <1>6, <1>7, <1>8, <1>9, <1>10

LEMMA RecoverKeeps ==
  ASSUME HostInv, NEW l \in DOMAIN lanes, Recover(l), load' = load
  PROVE  HostInv'
<1> USE HostAssumption
<1> USE DEF HostInv
<1>1. PICK x \in Resources : x = lanes[l].res /\ lanes[l].by \in Requests \cup {Nobody}
  BY LaneType
<1>2. lanes[l].st = "starting" /\ lanes[l].queue = << >>
  BY DEF Recover, References
<1>3. UNCHANGED <<load, tasks, table, admission, guard, host>>
  BY DEF Recover
<1>4. CASE lockOf[x] # NoLane
  <2>1. lanes' = [lanes EXCEPT ![l].st = "gone"] /\ UNCHANGED <<lockOf, disk>>
    BY <1>1, <1>4 DEF Recover
  <2>2. /\ TasksStand' /\ AdmissionHeld' /\ HostHolds' /\ References' /\ DetachIsLast' /\ WaitersQueued'
        /\ lanes' \in Seq(Lanes) /\ DOMAIN lanes' = DOMAIN lanes
        /\ \A j \in DOMAIN lanes : /\ lanes'[j].res = lanes[j].res /\ lanes'[j].queue = lanes[j].queue
                                   /\ lanes'[j].st = IF j = l THEN "gone" ELSE lanes[j].st
    BY <1>2, <1>3, <2>1, StateKeeps
  <2>3. TypeOK'
    BY <1>3, <2>1, <2>2 DEF TypeOK, QueueCapacity, tasks, host, disk
  <2>4. LocksHeld' /\ DiscardIsLast'
    BY <2>1, <2>2 DEF LocksHeld, Live, DiscardIsLast, disk
  <2> QED
    BY <2>2, <2>3, <2>4
<1>5. CASE lockOf[x] = NoLane
  <2>1. lanes' = [lanes EXCEPT ![l].st = "open"] /\ lockOf' = [lockOf EXCEPT ![x] = l]
    BY <1>1, <1>5 DEF Recover
  <2>2. /\ TasksStand' /\ AdmissionHeld' /\ HostHolds' /\ References' /\ DetachIsLast' /\ WaitersQueued'
        /\ lanes' \in Seq(Lanes) /\ DOMAIN lanes' = DOMAIN lanes /\ DOMAIN lanes \subseteq Nat
        /\ \A j \in DOMAIN lanes : /\ lanes'[j].res = lanes[j].res /\ lanes'[j].queue = lanes[j].queue
                                   /\ lanes'[j].st = IF j = l THEN "open" ELSE lanes[j].st
    BY <1>3, <2>1, StateKeeps
  <2>3. /\ journal' \in [Resources -> Seq(Messages)] /\ bound' \subseteq Resources /\ IsFiniteSet(bound')
        /\ DiscardIsLast'
    <3>1. CASE lanes[l].by = Nobody
      <4>1. UNCHANGED disk
        BY <1>1, <1>5, <3>1 DEF Recover
      <4> QED
        BY <4>1 DEF TypeOK, DiscardIsLast, disk
    <3>2. CASE lanes[l].by # Nobody
      <4> DEFINE m == [from |-> lanes[l].by, kind |-> "creation"]
      <4>1. m \in Messages /\ m.kind = "creation"
        BY <1>1, <3>2 DEF Messages
      <4>2. bound' = bound \cup {x} /\ journal' = [journal EXCEPT ![x] = <<m>>]
        BY <1>1, <1>5, <3>2 DEF Recover
      <4> HIDE DEF m
      <4>3. <<m>> \in Seq(Messages) /\ DOMAIN <<m>> = {1} /\ <<m>>[1] = m
        BY <4>1
      <4>4. \A y \in Resources : journal'[y] = IF y = x THEN <<m>> ELSE journal[y]
        BY <4>2 DEF TypeOK
      <4>5. DiscardIsLast'
        <5> SUFFICES ASSUME NEW y \in Resources, NEW k \in DOMAIN journal'[y],
                            journal'[y][k].kind = "discard"
                     PROVE  k = Len(journal'[y])
          BY DEF DiscardIsLast
        <5>1. y # x
          BY <4>1, <4>3, <4>4
        <5> QED
          BY <4>4, <5>1 DEF DiscardIsLast
      <4>6. bound' \subseteq Resources /\ IsFiniteSet(bound')
        <5>1. bound \subseteq Resources /\ IsFiniteSet(bound)
          BY DEF TypeOK
        <5>2. IsFiniteSet(bound \cup {x})
          BY <5>1, FS_AddElement
        <5> QED
          BY <4>2, <5>1, <5>2
      <4>7. journal' \in [Resources -> Seq(Messages)]
        BY <4>2, <4>3 DEF TypeOK
      <4> QED
        BY <4>5, <4>6, <4>7
    <3> QED
      BY <3>1, <3>2
  <2>4. TypeOK'
    BY <1>3, <2>1, <2>2, <2>3 DEF TypeOK, QueueCapacity, tasks, host
  <2>5. LocksHeld'
    <3> SUFFICES ASSUME NEW j \in DOMAIN lanes, Live(j)' PROVE lockOf'[lanes[j].res] = j
      BY <2>2 DEF LocksHeld
    <3>1. CASE j = l
      BY <1>1, <2>1, <3>1 DEF TypeOK
    <3>2. CASE j # l
      <4>1. lockOf[lanes[j].res] = j /\ lanes[j].res \in Resources /\ j # NoLane
        BY <2>2, <3>2, LaneType DEF LocksHeld, Live
      <4>2. lanes[j].res # x
        BY <1>5, <4>1
      <4> QED
        BY <2>1, <4>1, <4>2 DEF TypeOK
    <3> QED
      BY <3>1, <3>2
  <2> QED
    BY <2>2, <2>3, <2>4, <2>5
<1> QED
  BY <1>4, <1>5

LEMMA ExitKeeps ==
  ASSUME HostInv, NEW l \in DOMAIN lanes, Exit(l), load' = load
  PROVE  HostInv'
<1> USE HostAssumption
<1> USE DEF HostInv
<1>1. /\ lanes' = [lanes EXCEPT ![l].st = "gone"] /\ lanes[l].queue = << >> /\ Unlock(l)
      /\ UNCHANGED <<load, tasks, table, admission, guard, host, disk>>
  BY DEF Exit
<1>2. /\ TasksStand' /\ AdmissionHeld' /\ HostHolds' /\ References' /\ DetachIsLast' /\ WaitersQueued'
      /\ lanes' \in Seq(Lanes) /\ DOMAIN lanes' = DOMAIN lanes /\ DOMAIN lanes \subseteq Nat
      /\ \A j \in DOMAIN lanes : /\ lanes'[j].res = lanes[j].res /\ lanes'[j].queue = lanes[j].queue
                                 /\ lanes'[j].st = IF j = l THEN "gone" ELSE lanes[j].st
  BY <1>1, StateKeeps
<1>3. TypeOK'
  <2>1. lockOf' \in [Resources -> DOMAIN lanes \cup {NoLane}]
    BY <1>1 DEF Unlock, TypeOK
  <2> QED
    BY <1>1, <1>2, <2>1 DEF TypeOK, QueueCapacity, tasks, host, disk
<1>4. LocksHeld'
  BY <1>1, <1>2, LaneType DEF LocksHeld, Live, Unlock
<1>5. DiscardIsLast'
  BY <1>1 DEF DiscardIsLast, disk
<1> QED
  BY <1>2, <1>3, <1>4, <1>5

LEMMA Unqueued ==
  ASSUME NEW X, NEW q \in Seq(X), q # << >>
  PROVE  /\ Head(q) \in X /\ Tail(q) \in Seq(X) /\ Head(q) = q[1] /\ 1 \in DOMAIN q
         /\ Len(q) \in Nat \ {0} /\ Len(Tail(q)) = Len(q) - 1
         /\ \A k \in DOMAIN Tail(q) : k \in Nat /\ k + 1 \in DOMAIN q /\ Tail(q)[k] = q[k + 1]
         /\ \A k \in DOMAIN q : k # 1 => k - 1 \in DOMAIN Tail(q) /\ Tail(q)[k - 1] = q[k]
<1>1. /\ Head(q) \in X /\ Tail(q) \in Seq(X) /\ Head(q) = q[1] /\ 1 \in DOMAIN q
      /\ Len(q) \in Nat \ {0} /\ Len(Tail(q)) = Len(q) - 1
  OBVIOUS
<1>2. \A k \in DOMAIN Tail(q) : k \in Nat /\ k + 1 \in DOMAIN q /\ Tail(q)[k] = q[k + 1]
  OBVIOUS
<1>3. \A k \in DOMAIN q : k # 1 => k - 1 \in DOMAIN Tail(q) /\ Tail(q)[k - 1] = q[k]
  OBVIOUS
<1> QED
  BY <1>1, <1>2, <1>3

\* A message is executed.  When the thread ends with it, it was a detach, and a
\* detach is the last message of a queue.
LEMMA ServeKeeps ==
  ASSUME HostInv, NEW l \in DOMAIN lanes, Serve(l), load' = load
  PROVE  HostInv'
<1> USE HostAssumption
<1> USE DEF HostInv
<1>1. PICK x \in Resources, q \in Seq(Messages) : x = lanes[l].res /\ q = lanes[l].queue
  BY LaneType
<1>2. q # << >> /\ lanes[l].st \in {"open", "closed"}
  BY <1>1 DEF Serve
<1> DEFINE m == Head(q)  rest == Tail(q)
<1>3. /\ m \in Messages /\ rest \in Seq(Messages)
      /\ m = Head(q) /\ rest = Tail(q) /\ m = q[1] /\ 1 \in DOMAIN q
      /\ Len(q) \in Nat \ {0} /\ Len(rest) = Len(q) - 1
      /\ \A k \in DOMAIN rest : k \in Nat /\ k + 1 \in DOMAIN q /\ rest[k] = q[k + 1]
      /\ \A k \in DOMAIN q : k # 1 => k - 1 \in DOMAIN rest /\ rest[k - 1] = q[k]
  BY <1>1, <1>2, Unqueued
<1> HIDE DEF m, rest
<1> DEFINE ends == m.kind = "detach"
           z == IF ends THEN "gone"
                ELSE IF m.kind = "discard" \/ (m.kind \in Executes /\ Terminal(x)) THEN "closed"
                ELSE lanes[l].st
           new == [lanes[l] EXCEPT !.queue = rest, !.st = z]
           writes == m.kind \in {"write", "discard", "materialize"} /\ ~Terminal(x)
           told == IF Terminal(x) /\ m.kind # "detach" THEN "terminal" ELSE "ok"
<1>4. /\ journal' = IF writes THEN [journal EXCEPT ![x] = Append(@, m)] ELSE journal
      /\ lanes' = [lanes EXCEPT ![l] = new]
      /\ IF ends THEN Unlock(l) ELSE UNCHANGED lockOf
      /\ Reply(m, told)
      /\ UNCHANGED <<load, table, admission, guard, host, bound>>
  BY <1>1, <1>3, ZenonT(60) DEF Serve, Executed
<1>5. /\ lanes[l] \in Lanes /\ Len(q) <= QueueCapacity /\ QueueCapacity \in Nat
      /\ DOMAIN lanes \subseteq Nat
  BY <1>1, LaneType
<1>6. z \in {"open", "closed", "gone"} /\ (z = "gone" <=> ends)
  BY <1>2
<1> HIDE DEF z
<1>7. new \in Lanes /\ new.queue = rest /\ new.st = z /\ new.res = x /\ new.by = lanes[l].by
  BY <1>1, <1>3, <1>5, <1>6 DEF Lanes
<1> HIDE DEF new
<1>8. Len(new.queue) <= QueueCapacity
  BY <1>3, <1>5, <1>7
<1>9. /\ lanes' \in Seq(Lanes) /\ DOMAIN lanes' = DOMAIN lanes /\ lanes'[l] = new
      /\ \A j \in DOMAIN lanes : j # l => lanes'[j] = lanes[j]
      /\ \A j \in DOMAIN lanes : Len(lanes'[j].queue) <= QueueCapacity
  BY <1>4, <1>7, <1>8, LaneChanges
<1>10. /\ UNCHANGED <<req, held, raising, left>> /\ pc' \in [Requests -> Steps]
       /\ \A s \in Requests : \/ pc'[s] = pc[s] /\ (pc[s] = "wait" => s # m.from)
                              \/ pc'[s] = "replied" /\ pc[s] = "wait" /\ s = m.from
  <2>1. CASE m.from \in Requests /\ pc[m.from] = "wait"
    <3>1. pc' = [pc EXCEPT ![m.from] = "replied"] /\ UNCHANGED <<req, held, raising, left>>
      BY <1>4, <2>1 DEF Reply, Goto
    <3> QED
      BY <2>1, <3>1 DEF TypeOK, Steps
  <2>2. CASE ~(m.from \in Requests /\ pc[m.from] = "wait")
    <3>1. UNCHANGED <<req, held, raising, left, pc>>
      BY <1>4, <2>2 DEF Reply, tasks
    <3> QED
      BY <2>2, <3>1 DEF TypeOK
  <2> QED
    BY <2>1, <2>2
<1>11. lockOf' = [y \in Resources |-> IF ends /\ lockOf[y] = l THEN NoLane ELSE lockOf[y]]
  BY <1>4 DEF Unlock, TypeOK
<1>12. journal' \in [Resources -> Seq(Messages)]
  BY <1>3, <1>4 DEF TypeOK
<1>13. TypeOK'
  <2>1. lockOf' \in [Resources -> DOMAIN lanes \cup {NoLane}]
    BY <1>11 DEF TypeOK
  <2> QED
    BY <1>4, <1>9, <1>10, <1>12, <2>1 DEF TypeOK, QueueCapacity, host
<1>14. TasksStand'
  <2> SUFFICES ASSUME NEW s \in Requests PROVE TaskStands(s)'
    BY DEF TasksStand
  <2>1. TaskStands(s)
    BY DEF TasksStand
  <2>2. raising[s] # NoLane => /\ lanes'[raising[s]].by = lanes[raising[s]].by
                               /\ lanes'[raising[s]].st = "starting" => lanes[raising[s]].st = "starting"
    BY <1>6, <1>7, <1>9 DEF TypeOK
  <2> QED
    BY <1>10, <2>1, <2>2 DEF TaskStands, Fits, Routed, Visiting
<1>15. AdmissionHeld' /\ HostHolds'
  <2>1. \A s \in Requests : (Admitted(s)' => Admitted(s)) /\ (HasRoom(s)' => HasRoom(s))
    BY <1>10 DEF Admitted, HasRoom, LastVisit
  <2> QED
    BY <1>4, <2>1 DEF AdmissionHeld, HostHolds, Owned, MaxOwners, host
<1>16. LocksHeld'
  <2> SUFFICES ASSUME NEW j \in DOMAIN lanes, Live(j)' PROVE lockOf'[lanes'[j].res] = j
    BY <1>9 DEF LocksHeld
  <2>1. Live(j) /\ lanes'[j].res = lanes[j].res /\ lanes[j].res \in Resources
    BY <1>1, <1>2, <1>7, <1>9, LaneType DEF Live
  <2>2. lockOf[lanes[j].res] = j
    BY <2>1 DEF LocksHeld
  <2>3. ends => j # l
    BY <1>6, <1>7, <1>9 DEF Live
  <2> QED
    BY <1>11, <2>1, <2>2, <2>3
<1>17. References'
  BY <1>1, <1>4, <1>6, <1>7, <1>9, <1>10, ReferencesStay DEF host
<1>18. DetachIsLast'
  <2> SUFFICES ASSUME NEW j \in DOMAIN lanes, NEW k \in DOMAIN lanes'[j].queue,
                      lanes'[j].queue[k].kind = "detach"
               PROVE  /\ k = Len(lanes'[j].queue) /\ Unlisted(j)' /\ Unraised(j)'
                      /\ \A s \in Held(j)' : pc'[s] \in {"wait", "replied", "join"} /\ req'[s].op = "detach"
    BY <1>9 DEF DetachIsLast
  <2>1. /\ k = Len(lanes'[j].queue) /\ Unlisted(j) /\ Unraised(j)
        /\ \A s \in Held(j) : pc[s] \in {"wait", "replied", "join"} /\ req[s].op = "detach"
    <3>1. CASE j = l
      <4>1. k \in DOMAIN rest /\ rest[k].kind = "detach" /\ lanes'[j].queue = rest
        BY <1>7, <1>9, <3>1
      <4>2. k + 1 \in DOMAIN q /\ q[k + 1].kind = "detach" /\ k \in Nat
        BY <1>3, <4>1
      <4>3. /\ k + 1 = Len(q) /\ Unlisted(j) /\ Unraised(j)
            /\ \A s \in Held(j) : pc[s] \in {"wait", "replied", "join"} /\ req[s].op = "detach"
        BY <1>1, <3>1, <4>2 DEF DetachIsLast
      <4> QED
        BY <1>3, <4>1, <4>2, <4>3
    <3>2. CASE j # l
      <4>1. lanes'[j].queue = lanes[j].queue
        BY <1>9, <3>2
      <4> QED
        BY <4>1 DEF DetachIsLast
    <3> QED
      BY <3>1, <3>2
  <2> QED
    BY <1>4, <1>10, <2>1 DEF Unlisted, Unraised, Held, host
<1>19. WaitersQueued'
  <2>1. ASSUME NEW s \in Requests, pc'[s] = "wait"
        PROVE  \E k \in DOMAIN lanes'[held'[s]].queue : lanes'[held'[s]].queue[k].from = s
    <3>1. pc[s] = "wait" /\ s # m.from /\ held'[s] = held[s]
      BY <1>10, <2>1
    <3>2. held[s] \in DOMAIN lanes
      BY <3>1 DEF TasksStand, TaskStands, TypeOK
    <3>3. PICK k \in DOMAIN lanes[held[s]].queue : lanes[held[s]].queue[k].from = s
      BY <3>1 DEF WaitersQueued
    <3>4. CASE held[s] = l
      <4>1. k \in DOMAIN q /\ q[k].from = s /\ k # 1
        BY <1>1, <1>3, <3>1, <3>3, <3>4
      <4>2. k - 1 \in DOMAIN rest /\ rest[k - 1].from = s
        BY <1>3, <4>1
      <4> QED
        BY <1>7, <1>9, <3>1, <3>4, <4>2
    <3>5. CASE held[s] # l
      BY <1>9, <3>1, <3>2, <3>3, <3>5
    <3> QED
      BY <3>4, <3>5
  <2>2. ends => rest = << >>
    <3> SUFFICES ASSUME ends PROVE rest = << >>
      OBVIOUS
    <3>1. 1 \in DOMAIN lanes[l].queue /\ lanes[l].queue[1].kind = "detach"
      BY <1>1, <1>3
    <3>2. 1 = Len(q)
      BY <1>1, <3>1 DEF DetachIsLast
    <3> QED
      BY <1>2, <1>3, <3>2, LastOne
  <2>3. \A j \in DOMAIN lanes' : lanes'[j].st = "gone" => lanes'[j].queue = << >>
    BY <1>6, <1>7, <1>9, <2>2, SMTT(60) DEF WaitersQueued
  <2> QED
    BY <2>1, <2>3 DEF WaitersQueued
<1>20. DiscardIsLast'
  <2>1. CASE ~writes
    BY <1>4, <2>1 DEF DiscardIsLast
  <2>2. CASE writes
    <3>1. journal' = [journal EXCEPT ![x] = Append(@, m)]
      BY <1>4, <2>2
    <3>2. PICK e \in Seq(Messages) : e = journal[x]
      BY DEF TypeOK
    <3>3. \A y \in Resources : journal'[y] = IF y = x THEN Append(e, m) ELSE journal[y]
      BY <3>1, <3>2 DEF TypeOK
    <3>4. \A k \in DOMAIN e : e[k].kind # "discard"
      BY <2>2, <3>2 DEF Terminal
    <3>5. \A k \in DOMAIN Append(e, m) : Append(e, m)[k].kind = "discard" => k = Len(Append(e, m))
      BY <3>2, <3>4, Appended
    <3> QED
      BY <3>3, <3>5 DEF DiscardIsLast
  <2> QED
    BY <2>1, <2>2
<1> QED
  BY <1>13, <1>14, <1>15, <1>16, <1>17, <1>18, <1>19, <1>20

-----------------------------------------------------------------------------
(* The shutdown.                                                           *)

\* A step of the shutdown that takes no lane and sends nothing.
LEMMA PhaseKeeps ==
  ASSUME HostInv, UNCHANGED <<load, tasks, table, admission, guard, doomed, lanes, lockOf, disk>>,
         phase' \in {"serving", "draining", "closing", "detaching", "down", "failed"},
         parting' \in DOMAIN lanes \cup {NoLane},
         phase \in {"detaching", "down", "failed"} <=> phase' \in {"detaching", "down", "failed"},
         phase' \notin {"detaching", "down", "failed"} => parting' = parting
  PROVE  HostInv'
<1> USE DEF HostInv, tasks, disk
<1>1. TypeOK' /\ LocksHeld' /\ HostHolds' /\ DiscardIsLast' /\ WaitersQueued'
  BY DEF TypeOK, QueueCapacity, LocksHeld, Live, HostHolds, Owned, DiscardIsLast, WaitersQueued
<1>2. TasksStand'
  BY DEF TasksStand, TaskStands, Fits, Routed
<1>3. AdmissionHeld'
  BY DEF AdmissionHeld, Admitted, HasRoom, LastVisit, Owned, MaxOwners
<1>4. References' /\ DetachIsLast'
  BY DEF References, DetachIsLast, Unlisted, Unraised, Held
<1> QED
  BY <1>1, <1>2, <1>3, <1>4

LEMMA TakeLanesKeeps ==
  ASSUME HostInv, TakeLanes, load' = load
  PROVE  HostInv'
<1> USE HostAssumption
<1> USE DEF HostInv
<1>1. /\ admission = Nobody /\ guard = Nobody /\ phase = "closing" /\ phase' = "detaching"
      /\ admission' = Host /\ guard' = Host /\ doomed' = {table[x] : x \in Owned}
      /\ table' = [x \in Resources |-> NoLane]
      /\ UNCHANGED <<load, req, pc, held, raising, left, parting, lanes, lockOf, journal, bound>>
  BY DEF TakeLanes, tasks, disk
<1>2. doomed' \subseteq DOMAIN lanes
  BY <1>1 DEF TypeOK, Owned
<1>3. TypeOK'
  BY <1>1, <1>2 DEF TypeOK, QueueCapacity
<1>4. TasksStand'
  BY <1>1 DEF TasksStand, TaskStands, Fits, Routed
<1>5. Owned' = {}
  BY <1>1 DEF Owned
<1>6. AdmissionHeld'
  <2>1. \A s \in Requests : ~Admitted(s)'
    BY <1>1 DEF AdmissionHeld, Admitted, LastVisit
  <2>2. \A s \in Requests : HasRoom(s)' => Admitted(s)'
    BY DEF HasRoom, Admitted
  <2>3. MaxOwners' \in Nat
    BY DEF MaxOwners, TypeOK
  <2> QED
    BY <1>5, <2>1, <2>2, <2>3, FS_EmptySet DEF AdmissionHeld
<1>7. LocksHeld' /\ HostHolds' /\ DiscardIsLast' /\ WaitersQueued'
  BY <1>1, <1>5 DEF LocksHeld, Live, HostHolds, DiscardIsLast, WaitersQueued
<1>8. \A l \in DOMAIN lanes : (Unlisted(l) => Unlisted(l)') /\ (Unraised(l)' <=> Unraised(l)) /\ Held(l)' = Held(l)
  <2>1. DOMAIN lanes \subseteq Nat
    BY LaneType
  <2> QED
    BY <1>1, <2>1 DEF Unlisted, Unraised, Held, Owned
<1>9. References'
  <2>1. \A y \in Resources : table'[y] = NoLane
    BY <1>1
  <2>2. \A l \in doomed' : Unraised(l)'
    BY <1>1, <1>2, <1>8 DEF References, Owned
  <2>3. ASSUME NEW s \in Requests, held'[s] # NoLane PROVE Unraised(held[s])'
    BY <1>1, <2>3 DEF References, Unraised
  <2>4. \A l \in DOMAIN lanes' : lanes'[l].st = "starting" =>
          lanes'[l].queue = << >> /\ Unlisted(l)' /\ Held(l)' = {}
    BY <1>1, <1>8 DEF References
  <2>5. ASSUME NEW s \in Requests PROVE pc'[s] # "detaching"
    BY <1>1 DEF AdmissionHeld, Admitted
  <2> QED
    BY <2>1, <2>2, <2>3, <2>4, <2>5 DEF References
<1>10. DetachIsLast'
  BY <1>1, <1>8 DEF DetachIsLast, Held
<1> QED
  BY <1>3, <1>4, <1>6, <1>7, <1>9, <1>10

LEMMA PartKeeps ==
  ASSUME HostInv, NEW l \in doomed, Part(l), load' = load
  PROVE  HostInv'
<1> USE HostAssumption
<1> USE DEF HostInv
<1>1. /\ phase = "detaching" /\ l \in DOMAIN lanes /\ Unraised(l) /\ Owned = {} /\ guard = Host
      /\ UNCHANGED <<load, tasks, table, admission, guard, lockOf, disk>>
  BY DEF Part, TypeOK, References, HostHolds
<1>2. CASE Held(l) # {}
  BY <1>1, <1>2, PhaseKeeps DEF Part, TypeOK
<1>3. CASE Held(l) = {}
  <2>1. doomed' = doomed \ {l} /\ parting' = l /\ phase' = phase
    BY <1>3 DEF Part
  <2>2. HostHolds'
    BY <1>1, <2>1 DEF HostHolds, Owned
  <2>3. AdmissionHeld'
    BY <1>1 DEF AdmissionHeld, Admitted, HasRoom, LastVisit, Owned, MaxOwners, tasks
  <2>4. CASE Closed(l)
    <3>1. UNCHANGED lanes
      BY <1>3, <2>4 DEF Part
    <3>2. TypeOK'
      BY <1>1, <2>1, <3>1 DEF TypeOK, QueueCapacity, tasks, disk
    <3>3. TasksStand'
      BY <1>1, <3>1 DEF TasksStand, TaskStands, Fits, Routed, tasks
    <3>4. /\ LocksHeld' /\ References' /\ DiscardIsLast'
          /\ \A j \in DOMAIN lanes : (Unraised(j)' <=> Unraised(j)) /\ (Unlisted(j) => Unlisted(j)') /\ Held(j)' = Held(j)
      BY <1>1, <2>1, <3>1, QueuesApart DEF tasks, disk
    <3>5. DetachIsLast'
      BY <1>1, <3>1, <3>4 DEF DetachIsLast, tasks
    <3>6. WaitersQueued'
      BY <1>1, <3>1 DEF WaitersQueued, tasks
    <3> QED
      BY <2>2, <2>3, <3>2, <3>3, <3>4, <3>5, <3>6
  <2>5. CASE ~Closed(l)
    <3> DEFINE m == [from |-> Host, kind |-> "detach"]
               new == [lanes[l] EXCEPT !.queue = Append(@, m)]
    <3>1. Len(lanes[l].queue) < QueueCapacity /\ lanes' = [lanes EXCEPT ![l] = new]
      BY <1>3, <2>5 DEF Part
    <3>2. m \in Messages /\ m.kind = "detach"
      BY DEF Messages, Operations
    <3> HIDE DEF m
    <3>3. /\ lanes[l] \in Lanes /\ lanes[l].queue \in Seq(Messages) /\ QueueCapacity \in Nat
          /\ DOMAIN lanes \subseteq Nat
      BY <1>1, LaneType
    <3>4. /\ new \in Lanes /\ new.queue = Append(lanes[l].queue, m)
          /\ new.st = lanes[l].st /\ new.res = lanes[l].res /\ new.by = lanes[l].by
      BY <3>2, <3>3, Appended DEF Lanes
    <3> HIDE DEF new
    <3>5. Len(new.queue) <= QueueCapacity
      BY <3>1, <3>2, <3>3, <3>4, Appended
    <3>6. /\ lanes' \in Seq(Lanes) /\ DOMAIN lanes' = DOMAIN lanes /\ lanes'[l] = new
          /\ \A j \in DOMAIN lanes : j # l => lanes'[j] = lanes[j]
          /\ \A j \in DOMAIN lanes : Len(lanes'[j].queue) <= QueueCapacity
      BY <1>1, <3>1, <3>4, <3>5, LaneChanges
    <3>7. PICK q \in Seq(Messages), n \in Nat :
            /\ lanes[l].queue = q /\ new.queue = Append(q, m) /\ n = Len(q) + 1
            /\ Len(new.queue) = n /\ DOMAIN new.queue = DOMAIN q \cup {n} /\ n \notin DOMAIN q
            /\ new.queue[n] = m /\ \A k \in DOMAIN q : new.queue[k] = q[k]
      BY <3>2, <3>3, <3>4, Appended
    <3>8. TypeOK'
      BY <1>1, <2>1, <3>6 DEF TypeOK, QueueCapacity, tasks, disk
    <3>9. TasksStand'
      <4> SUFFICES ASSUME NEW s \in Requests PROVE TaskStands(s)'
        BY DEF TasksStand
      <4>1. TaskStands(s)
        BY DEF TasksStand
      <4>2. raising[s] # NoLane => /\ lanes'[raising[s]].st = lanes[raising[s]].st
                                   /\ lanes'[raising[s]].by = lanes[raising[s]].by
        BY <3>4, <3>6 DEF TypeOK
      <4> QED
        BY <1>1, <4>1, <4>2 DEF TaskStands, Fits, Routed, tasks
    <3>10. lanes[l].st # "starting" /\ ~Unlisted(l)
      BY <1>1 DEF References, Unlisted
    <3>11. /\ LocksHeld' /\ References' /\ DiscardIsLast'
           /\ \A j \in DOMAIN lanes : (Unraised(j)' <=> Unraised(j)) /\ (Unlisted(j) => Unlisted(j)') /\ Held(j)' = Held(j)
      BY <1>1, <2>1, <3>4, <3>6, <3>10, QueuesApart DEF tasks, disk
    <3>12. Unlisted(l)'
      BY <1>1, <2>1, <3>3 DEF Unlisted, Owned
    <3>13. DetachIsLast'
      <4> SUFFICES ASSUME NEW j \in DOMAIN lanes, NEW k \in DOMAIN lanes'[j].queue,
                          lanes'[j].queue[k].kind = "detach"
                   PROVE  /\ k = Len(lanes'[j].queue) /\ Unlisted(j)' /\ Unraised(j)'
                          /\ \A s \in Held(j)' : pc'[s] \in {"wait", "replied", "join"} /\ req'[s].op = "detach"
        BY <3>6 DEF DetachIsLast
      <4>1. CASE j = l
        <5>1. k \in DOMAIN new.queue /\ new.queue[k].kind = "detach"
          BY <3>6, <4>1
        <5>2. \A i \in DOMAIN q : q[i].kind # "detach"
          BY <1>1, <3>7, <3>10 DEF DetachIsLast
        <5>3. k = n
          BY <3>7, <5>1, <5>2
        <5> QED
          BY <1>1, <1>3, <3>6, <3>7, <3>11, <3>12, <4>1, <5>3
      <4>2. CASE j # l
        <5>1. /\ k = Len(lanes[j].queue) /\ Unlisted(j) /\ Unraised(j)
              /\ \A s \in Held(j) : pc[s] \in {"wait", "replied", "join"} /\ req[s].op = "detach"
          BY <3>6, <4>2 DEF DetachIsLast
        <5> QED
          BY <1>1, <3>6, <3>11, <4>2, <5>1 DEF tasks
      <4> QED
        BY <4>1, <4>2
    <3>14. WaitersQueued'
      <4>1. ASSUME NEW s \in Requests, pc[s] = "wait"
            PROVE  \E k \in DOMAIN lanes'[held[s]].queue : lanes'[held[s]].queue[k].from = s
        <5>1. held[s] \in DOMAIN lanes /\ held[s] # l
          BY <1>3, <4>1 DEF TasksStand, TaskStands, TypeOK, Held
        <5>2. lanes'[held[s]] = lanes[held[s]]
          BY <3>6, <5>1
        <5> QED
          BY <4>1, <5>2 DEF WaitersQueued
      <4>2. \A j \in DOMAIN lanes' : lanes'[j].st = "gone" => lanes'[j].queue = << >>
        BY <2>5, <3>4, <3>6, ZenonT(60) DEF WaitersQueued, Closed
      <4> QED
        BY <1>1, <4>1, <4>2 DEF WaitersQueued, tasks
    <3> QED
      BY <2>2, <2>3, <3>8, <3>9, <3>11, <3>13, <3>14
  <2> QED
    BY <2>4, <2>5
<1> QED
  BY <1>2, <1>3

-----------------------------------------------------------------------------
(* The results.                                                            *)

LEMMA TaskKeeps ==
  ASSUME HostInv, NEW r \in Requests, Task(r), load' = load
  PROVE  HostInv'
BY PruneKeeps, PeekKeeps, JudgeKeeps, FindKeeps, AdmitKeeps, RecheckKeeps, VetKeeps, StartedKeeps,
   InsertKeeps, SendKeeps, ContinueKeeps, UnlistKeeps, OutcomeKeeps, FenceKeeps, SettleKeeps,
   TrimKeeps, PrepareChildKeeps, LookKeeps, PublishKeeps, GrabKeeps, SendDetachKeeps, JoinKeeps
   DEF Task

LEMMA ShutdownKeeps ==
  ASSUME HostInv, Shutdown \/ BeginShutdown, load' = load
  PROVE  HostInv'
<1>1. CASE BeginShutdown \/ CloseAdmission
  BY <1>1, PhaseKeeps DEF BeginShutdown, CloseAdmission, HostInv, TypeOK
<1>2. CASE Parted \/ GoDown
  BY <1>2, PhaseKeeps DEF Parted, GoDown, HostInv, TypeOK
<1>3. CASE TakeLanes
  BY <1>3, TakeLanesKeeps
<1>4. CASE \E l \in doomed : Part(l)
  BY <1>4, PartKeeps
<1> QED
  BY <1>1, <1>2, <1>3, <1>4 DEF Shutdown

\* Every step of the host keeps the invariant.
LEMMA NextInv ==
  ASSUME HostInv, [Next]_vars
  PROVE  HostInv'
<1>1. CASE UNCHANGED vars
  BY <1>1, Unmoved DEF vars, tasks
<1>2. ASSUME Next PROVE HostInv'
  <2>1. load' = load
    BY <1>2 DEF Next
  <2>2. CASE \E r \in Requests : \E op \in Offered, x, y \in load.known \cup {NoResource} : Arrive(r, op, x, y)
    BY <2>1, <2>2, ArriveKeeps
  <2>3. CASE \E r \in Requests : Vanish(r) \/ Task(r)
    BY <2>1, <2>3, VanishKeeps, TaskKeeps
  <2>4. CASE \E l \in DOMAIN lanes : Lane(l)
    BY <2>1, <2>4, RecoverKeeps, ServeKeeps, ExitKeeps DEF Lane
  <2>5. CASE Shutdown \/ BeginShutdown
    BY <2>1, <2>5, ShutdownKeeps
  <2> QED
    BY <1>2, <2>2, <2>3, <2>4, <2>5 DEF Next
<1> QED
  BY <1>1, <1>2

\* The inductive invariant: who holds the admission mutex, the owner locks and
\* the lanes at every step of native_host.rs, and what the queues then contain.
THEOREM HostInvariant == Spec => []HostInv
<1>1. Init => HostInv
  BY InitInv
<1>2. HostInv /\ [Next]_vars => HostInv'
  BY NextInv
<1> QED
  BY <1>1, <1>2, PTL DEF Spec

\* At most one lane thread has an evaluator on a resource, and the owner table
\* stays within its capacity, for any number of requests, resources and lanes:
\* the capacity is tested and used under one hold of the admission mutex, and a
\* live lane holds the lock file of its resource.
THEOREM HostOwnersUnique == Spec => []OneOwnerPerResource
<1>1. HostInv => OneOwnerPerResource
  BY DEF HostInv, OneOwnerPerResource, AdmissionHeld, LocksHeld
<1> QED
  BY <1>1, HostInvariant, PTL

\* No thread ends with messages left and nobody waits for a thread that has
\* ended: what a waiting task sent is still in the queue of its lane, and a
\* detach is sent when nobody else can send any more.
THEOREM AcceptedWorkSettled == Spec => []AcceptedIsSettled
<1>1. HostInv => AcceptedIsSettled
  <2> SUFFICES ASSUME HostInv PROVE AcceptedIsSettled
    OBVIOUS
  <2>1. \A l \in DOMAIN lanes : lanes[l].st = "gone" => lanes[l].queue = << >>
    BY DEF HostInv, WaitersQueued
  <2>2. ASSUME NEW r \in Requests, pc[r] = "wait" PROVE lanes[held[r]].st # "gone"
    <3>1. held[r] \in DOMAIN lanes
      BY <2>2 DEF HostInv, TasksStand, TaskStands, TypeOK
    <3>2. \E k \in DOMAIN lanes[held[r]].queue : lanes[held[r]].queue[k].from = r
      BY <2>2 DEF HostInv, WaitersQueued
    <3>3. lanes[held[r]].queue # << >>
      BY <3>2
    <3> QED
      BY <2>1, <3>1, <3>3
  <2> QED
    BY <2>1, <2>2 DEF AcceptedIsSettled
<1> QED
  BY <1>1, HostInvariant, PTL

\* Nothing is recorded for a resource after its discard, whatever was accepted
\* before it and whichever lane executes it.
THEOREM NothingAfterDiscard == Spec => []DiscardIsLast
<1>1. HostInv => DiscardIsLast
  BY DEF HostInv
<1> QED
  BY <1>1, HostInvariant, PTL

=============================================================================
