------------------------ MODULE ForkLifecycle_proofs ------------------------
(***************************************************************************)
(* One fork under both surfaces, for every set of tasks, every workload    *)
(* and every limit: the snapshot files are those of the listed entries; on *)
(* the canonical surface a token names one state, the recorded operations  *)
(* explain the content and a lowered flag is true.                         *)
(***************************************************************************)
EXTENDS ForkLifecycle, FiniteSetTheorems, WellFoundedInduction, TLAPS

(* Induction on the natural numbers, in the form of the least number.      *)

Before == OpToRel(<, Nat)

LEMMA NatWellFounded == IsWellFoundedOn(Before, Nat)
BY NatLessThanWellFounded DEF Before

LEMMA BeforeMeansLess == \A x, y \in Nat : x < y => <<x, y>> \in Before
BY DEF Before, OpToRel

\* Every set of numbers with something in it has a least one.
LEMMA LeastNumber ==
  ASSUME NEW T \in SUBSET Nat, T # {}
  PROVE  \E x \in T : \A y \in T : x <= y
<1>1. PICK x \in T : \A y \in T : ~(<<y, x>> \in Before)
  BY NatWellFounded, WFMin
<1>2. ASSUME NEW y \in T PROVE x <= y
  <2>1. x \in Nat /\ y \in Nat /\ ~(y < x)
    BY <1>1, BeforeMeansLess
  <2> QED
    BY <2>1
<1> QED
  BY <1>1, <1>2

LEMMA Induction ==
  ASSUME NEW T \in SUBSET Nat, 0 \in T, \A n \in T : n + 1 \in T
  PROVE  T = Nat
<1> SUFFICES ASSUME T # Nat PROVE FALSE
  OBVIOUS
<1>1. PICK x \in Nat \ T : \A y \in Nat \ T : x <= y
  BY LeastNumber
<1>2. x # 0 /\ x - 1 \in Nat /\ x - 1 \notin Nat \ T
  BY <1>1
<1> QED
  BY <1>1, <1>2

-----------------------------------------------------------------------------
(* Lists of entries.  What a step does to a list is said by its entries and *)
(* by their identifiers, which differ.                                      *)

\* r is what is left of s without the identifiers in gone.
Left(r, s, dropped) ==
    Once(r) /\ Entries(r) = {e \in Entries(s) : e.id \notin dropped}

LEMMA AppendedList ==
  ASSUME NEW R, NEW s \in Seq(R), NEW e \in R
  PROVE  /\ Append(s, e) \in Seq(R)
         /\ Entries(Append(s, e)) = Entries(s) \cup {e}
         /\ Ids(Append(s, e)) = Ids(s) \cup {e.id}
<1>1. Append(s, e) \in Seq(R) /\ DOMAIN Append(s, e) = 1..(Len(s) + 1) /\ DOMAIN s = 1..Len(s) /\ Len(s) \in Nat
  OBVIOUS
<1>2. \A i \in 1..Len(s) : Append(s, e)[i] = s[i]
  OBVIOUS
<1>3. Append(s, e)[Len(s) + 1] = e
  OBVIOUS
<1>4. \A i \in 1..(Len(s) + 1) : i \in 1..Len(s) \/ i = Len(s) + 1
  BY <1>1
<1>5. 1..Len(s) \subseteq 1..(Len(s) + 1) /\ Len(s) + 1 \in 1..(Len(s) + 1)
  BY <1>1
<1> DEFINE a == Append(s, e)
<1> HIDE DEF a
<1>6. {a[i] : i \in DOMAIN a} = {s[i] : i \in DOMAIN s} \cup {e}
  BY <1>1, <1>2, <1>3, <1>4, <1>5, Zenon DEF a
<1>7. {a[i].id : i \in DOMAIN a} = {s[i].id : i \in DOMAIN s} \cup {e.id}
  BY <1>1, <1>2, <1>3, <1>4, <1>5, Zenon DEF a
<1> QED
  BY <1>1, <1>6, <1>7 DEF Entries, Ids, a

LEMMA AppendedOnce ==
  ASSUME NEW R, NEW s \in Seq(R), NEW e \in R, Once(s), e.id \notin Ids(s)
  PROVE  Once(Append(s, e))
<1> DEFINE a == Append(s, e)
<1>0. DOMAIN a = 1..(Len(s) + 1) /\ DOMAIN s = 1..Len(s) /\ Len(s) \in Nat /\ a[Len(s) + 1] = e
  OBVIOUS
<1>3. \A i \in 1..Len(s) : a[i] = s[i]
  OBVIOUS
<1> HIDE DEF a
<1>1. ASSUME NEW i \in DOMAIN a PROVE (i \in DOMAIN s /\ a[i] = s[i]) \/ (i = Len(s) + 1 /\ a[i] = e)
  <2>1. i \in 1..Len(s) \/ i = Len(s) + 1
    BY <1>0
  <2>2. CASE i \in 1..Len(s)
    <3>1. i \in DOMAIN s /\ a[i] = s[i]
      BY <1>0, <1>3, <2>2, Zenon
    <3> QED
      BY <3>1
  <2>3. CASE i = Len(s) + 1
    BY ONLY <1>0, <2>3
  <2> QED
    BY <2>1, <2>2, <2>3
<1>2. \A i \in DOMAIN s : s[i].id # e.id
  BY DEF Ids
<1>4. \A i, j \in DOMAIN a : a[i].id = a[j].id => i = j
  BY <1>1, <1>2 DEF Once
<1> QED
  BY <1>4 DEF Once, a

\* The identifiers of a list are those of its entries.
LEMMA IdsOfEntries ==
  ASSUME NEW s
  PROVE  \A x : x \in Ids(s) <=> \E e \in Entries(s) : e.id = x
BY DEF Ids, Entries

\* A list whose entries are drawn from s in different places.
LEMMA DrawnList ==
  ASSUME NEW R, NEW s \in Seq(R), NEW r \in Seq(R), Once(s),
         NEW f, \A i \in DOMAIN r : f[i] \in DOMAIN s /\ r[i] = s[f[i]],
         \A i, j \in DOMAIN r : f[i] = f[j] => i = j
  PROVE  Once(r) /\ Entries(r) \subseteq Entries(s)
BY DEF Once, Entries

LEMMA SuffixList ==
  ASSUME NEW R, NEW s \in Seq(R), Once(s), NEW m \in 1..Len(s)
  PROVE  LET r == SubSeq(s, m, Len(s))
         IN  r \in Seq(R) /\ Left(r, s, Ids(s) \ Ids(r))
<1> DEFINE r == SubSeq(s, m, Len(s))
           f == [i \in 1..(Len(s) - m + 1) |-> i + m - 1]
<1>1. r \in Seq(R) /\ DOMAIN r = 1..(Len(s) - m + 1) /\ DOMAIN s = 1..Len(s) /\ Len(s) \in Nat
  OBVIOUS
<1>2. \A i \in DOMAIN r : r[i] = s[i + m - 1]
  OBVIOUS
<1> HIDE DEF r
<1>3. \A i \in DOMAIN r : f[i] \in DOMAIN s /\ r[i] = s[f[i]]
  BY <1>1, <1>2
<1>4. \A i, j \in DOMAIN r : f[i] = f[j] => i = j
  BY <1>1
<1> HIDE DEF f
<1>5. Once(r) /\ Entries(r) \subseteq Entries(s)
  BY <1>1, <1>3, <1>4, DrawnList
<1>6. ASSUME NEW e \in Entries(s) PROVE e \in Entries(r) <=> e.id \notin Ids(s) \ Ids(r)
  <2>1. e.id \in Ids(s)
    BY IdsOfEntries
  <2>2. e \in Entries(r) => e.id \in Ids(r)
    BY IdsOfEntries
  <2>3. ASSUME e.id \in Ids(r) PROVE e \in Entries(r)
    <3>1. PICK g \in Entries(r) : g.id = e.id
      BY <2>3, IdsOfEntries
    <3>2. g \in Entries(s)
      BY <1>5, <3>1
    <3>3. g = e
      BY <3>1, <3>2 DEF Entries, Once
    <3> QED
      BY <3>1, <3>3
  <2> QED
    BY <2>1, <2>2, <2>3
<1>7. Left(r, s, Ids(s) \ Ids(r))
  BY <1>5, <1>6 DEF Left
<1> QED
  BY <1>1, <1>7 DEF r

LEMMA Joined ==
  ASSUME NEW R, NEW a \in Seq(R), NEW b \in Seq(R)
  PROVE  \A j \in 1..(Len(a) + Len(b)) : (a \o b)[j] = IF j <= Len(a) THEN a[j] ELSE b[j - Len(a)]
OBVIOUS

LEMMA RemovedEntry ==
  ASSUME NEW R, NEW s \in Seq(R), Once(s), NEW i \in DOMAIN s
  PROVE  RemoveAt(s, i) \in Seq(R) /\ Left(RemoveAt(s, i), s, {s[i].id})
<1> DEFINE r == RemoveAt(s, i)
           f == [j \in 1..(Len(s) - 1) |-> IF j < i THEN j ELSE j + 1]
<1>1. r \in Seq(R) /\ DOMAIN r = 1..(Len(s) - 1) /\ DOMAIN s = 1..Len(s) /\ Len(s) \in Nat /\ i \in 1..Len(s)
  BY DEF RemoveAt
<1>2. \A j \in 1..(Len(s) - 1) : r[j] = IF j < i THEN s[j] ELSE s[j + 1]
  <2> DEFINE a == SubSeq(s, 1, i - 1)
             b == SubSeq(s, i + 1, Len(s))
  <2>1. /\ a \in Seq(R) /\ Len(a) = i - 1 /\ b \in Seq(R) /\ Len(b) = Len(s) - i
        /\ i \in Nat /\ Len(s) \in Nat /\ i <= Len(s) /\ i >= 1
    OBVIOUS
  <2>2. \A j \in 1..(i - 1) : a[j] = s[j]
    OBVIOUS
  <2>3. \A j \in 1..(Len(s) - i) : b[j] = s[j + i]
    OBVIOUS
  <2>4. r = a \o b
    BY DEF RemoveAt
  <2> HIDE DEF a, b, r
  <2>5. \A j \in 1..(Len(s) - 1) : r[j] = IF j <= i - 1 THEN a[j] ELSE b[j - (i - 1)]
    <3>1. \A j \in 1..(Len(a) + Len(b)) : (a \o b)[j] = IF j <= Len(a) THEN a[j] ELSE b[j - Len(a)]
      BY <2>1, Joined
    <3>2. Len(a) + Len(b) = Len(s) - 1
      BY <2>1
    <3> QED
      BY <2>1, <2>4, <3>1, <3>2
  <2>6. ASSUME NEW j \in 1..(Len(s) - 1) PROVE r[j] = IF j < i THEN s[j] ELSE s[j + 1]
    <3>1. CASE j < i
      <4>1. j \in 1..(i - 1) /\ j <= i - 1
        BY <2>1, <3>1
      <4> QED
        BY <2>2, <2>5, <3>1, <4>1
    <3>2. CASE ~(j < i)
      <4>1. j - (i - 1) \in 1..(Len(s) - i) /\ ~(j <= i - 1) /\ (j - (i - 1)) + i = j + 1
        BY <2>1, <3>2
      <4> QED
        BY <2>3, <2>5, <3>2, <4>1
    <3> QED
      BY <3>1, <3>2
  <2> QED
    BY <2>6
<1> HIDE DEF r
<1>3. \A j \in DOMAIN r : f[j] \in DOMAIN s /\ r[j] = s[f[j]] /\ f[j] # i
  BY <1>1, <1>2
<1>4. \A j, k \in DOMAIN r : f[j] = f[k] => j = k
  BY <1>1
<1>5. \A k \in DOMAIN s : k # i => \E j \in DOMAIN r : f[j] = k
  <2> SUFFICES ASSUME NEW k \in DOMAIN s, k # i PROVE \E j \in DOMAIN r : f[j] = k
    OBVIOUS
  <2>1. CASE k < i
    <3>1. k \in DOMAIN r /\ f[k] = k
      BY <1>1, <2>1
    <3> QED
      BY <3>1
  <2>2. CASE ~(k < i)
    <3>1. k - 1 \in DOMAIN r /\ f[k - 1] = k
      BY <1>1, <2>2
    <3> QED
      BY <3>1
  <2> QED
    BY <2>1, <2>2
<1> HIDE DEF f
<1>6. Once(r) /\ Entries(r) \subseteq Entries(s)
  BY <1>1, <1>3, <1>4, DrawnList
<1>7. ASSUME NEW e \in Entries(s) PROVE e \in Entries(r) <=> e.id # s[i].id
  <2>1. PICK k \in DOMAIN s : e = s[k]
    BY DEF Entries
  <2>2. e.id = s[i].id <=> k = i
    BY <2>1 DEF Once
  <2>3. k # i => e \in Entries(r)
    BY <1>3, <1>5, <2>1 DEF Entries
  <2>4. e \in Entries(r) => e.id # s[i].id
    BY <1>3, <2>1 DEF Entries, Once
  <2> QED
    BY <2>2, <2>3, <2>4
<1>8. Left(r, s, {s[i].id})
  BY <1>6, <1>7 DEF Left
<1> QED
  BY <1>1, <1>8 DEF r

\* retain as a recursive function: its first n values.
Retaining(s, places, n, g) ==
    \A k \in 0..n : g[k] = IF k = 0 THEN << >>
                           ELSE IF k \in places THEN Append(g[k - 1], s[k]) ELSE g[k - 1]

LEMMA RetainingIsUnique ==
  ASSUME NEW s, NEW places, NEW n \in Nat, NEW f, NEW g,
         Retaining(s, places, n, f), Retaining(s, places, n, g)
  PROVE  \A k \in 0..n : f[k] = g[k]
<1> DEFINE T == {k \in Nat : k <= n => f[k] = g[k]}
<1>1. 0 \in T
  BY DEF Retaining
<1>2. ASSUME NEW k \in T PROVE k + 1 \in T
  <2> SUFFICES ASSUME k + 1 <= n PROVE f[k + 1] = g[k + 1]
    OBVIOUS
  <2>1. k + 1 \in 0..n /\ k + 1 # 0 /\ (k + 1) - 1 = k /\ f[k] = g[k]
    OBVIOUS
  <2>2. f[k + 1] = IF k + 1 \in places THEN Append(f[k], s[k + 1]) ELSE f[k]
    BY <2>1 DEF Retaining
  <2>3. g[k + 1] = IF k + 1 \in places THEN Append(g[k], s[k + 1]) ELSE g[k]
    BY <2>1 DEF Retaining
  <2> QED
    BY <2>1, <2>2, <2>3
<1> HIDE DEF T
<1>3. T = Nat
  BY <1>1, <1>2, Induction DEF T
<1> QED
  BY <1>3 DEF T

LEMMA RetainingExists ==
  ASSUME NEW s, NEW places
  PROVE  \A n \in Nat : \E g : Retaining(s, places, n, g)
<1> DEFINE T == {n \in Nat : \E g : Retaining(s, places, n, g)}
<1>1. 0 \in T
  <2>1. Retaining(s, places, 0, [k \in {0} |-> << >>])
    BY DEF Retaining
  <2> QED
    BY <2>1
<1>2. ASSUME NEW n \in T PROVE n + 1 \in T
  <2>1. PICK g : Retaining(s, places, n, g)
    OBVIOUS
  <2> DEFINE e == [k \in 0..(n + 1) |-> IF k = n + 1 THEN IF k \in places THEN Append(g[n], s[k]) ELSE g[n]
                                        ELSE g[k]]
  <2>2. n \in Nat /\ n + 1 # 0 /\ (n + 1) - 1 = n /\ n \in 0..(n + 1) /\ n # n + 1
    OBVIOUS
  <2>3. ASSUME NEW k \in 0..(n + 1)
        PROVE  e[k] = IF k = 0 THEN << >> ELSE IF k \in places THEN Append(e[k - 1], s[k]) ELSE e[k - 1]
    <3>1. CASE k = n + 1
      <4>1. e[k] = IF k \in places THEN Append(g[n], s[k]) ELSE g[n]
        BY <3>1
      <4>2. e[k - 1] = g[n] /\ k # 0
        BY <2>2, <3>1
      <4> QED
        BY <4>1, <4>2
    <3>2. CASE k # n + 1
      <4>1. k \in 0..n /\ e[k] = g[k]
        BY <2>2, <3>2
      <4>2. k # 0 => k - 1 \in 0..(n + 1) /\ k - 1 # n + 1 /\ e[k - 1] = g[k - 1]
        BY <2>2, <4>1
      <4>3. g[k] = IF k = 0 THEN << >> ELSE IF k \in places THEN Append(g[k - 1], s[k]) ELSE g[k - 1]
        BY <2>1, <4>1 DEF Retaining
      <4> QED
        BY <4>1, <4>2, <4>3
    <3> QED
      BY <3>1, <3>2
  <2> HIDE DEF e
  <2>4. Retaining(s, places, n + 1, e)
    BY <2>3 DEF Retaining
  <2> QED
    BY <2>2, <2>4
<1> HIDE DEF T
<1>3. T = Nat
  BY <1>1, <1>2, Induction DEF T
<1> QED
  BY <1>3 DEF T

LEMMA RetainedUnfold ==
  ASSUME NEW s, NEW places, Len(s) \in Nat
  PROVE  \E g : /\ Retained(s, places) = g[Len(s)]
                /\ \A n \in Nat : Retaining(s, places, n, g)
<1> DEFINE G(n) == CHOOSE g : Retaining(s, places, n, g)
           f == [n \in Nat |-> G(n)[n]]
           F(h) == [n \in Nat |-> IF n = 0 THEN << >>
                                  ELSE IF n \in places THEN Append(h[n - 1], s[n]) ELSE h[n - 1]]
           h == CHOOSE g : g = F(g)
<1>1. \A n \in Nat : Retaining(s, places, n, G(n))
  BY RetainingExists
<1> HIDE DEF G
<1>2. ASSUME NEW k \in Nat
      PROVE  f[k] = IF k = 0 THEN << >> ELSE IF k \in places THEN Append(f[k - 1], s[k]) ELSE f[k - 1]
  <2>1. Retaining(s, places, k, G(k)) /\ f[k] = G(k)[k]
    BY <1>1
  <2>2. G(k)[k] = IF k = 0 THEN << >> ELSE IF k \in places THEN Append(G(k)[k - 1], s[k]) ELSE G(k)[k - 1]
    BY <2>1 DEF Retaining
  <2>3. CASE k = 0
    BY <2>1, <2>2, <2>3
  <2>4. CASE k # 0
    <3>1. k - 1 \in Nat /\ k - 1 \in 0..(k - 1)
      BY <2>4
    <3>2. Retaining(s, places, k - 1, G(k - 1))
      BY <1>1, <3>1
    <3>3. Retaining(s, places, k - 1, G(k))
      BY <2>1, <3>1 DEF Retaining
    <3>4. G(k)[k - 1] = G(k - 1)[k - 1]
      BY <3>1, <3>2, <3>3, RetainingIsUnique
    <3> QED
      BY <2>1, <2>2, <2>4, <3>1, <3>4
  <2> QED
    BY <2>3, <2>4
<1>3. f = F(f)
  BY <1>2
<1> HIDE DEF f
<1>4. h = F(h)
  BY <1>3
<1>5. Retained(s, places) = h[Len(s)]
  BY DEF Retained
<1> HIDE DEF h
<1>6. ASSUME NEW k \in Nat
      PROVE  h[k] = IF k = 0 THEN << >> ELSE IF k \in places THEN Append(h[k - 1], s[k]) ELSE h[k - 1]
  BY <1>4
<1>7. \A n \in Nat : Retaining(s, places, n, h)
  BY <1>6 DEF Retaining
<1> QED
  BY <1>5, <1>7

\* The state of the loop after n entries: kept in their order, from places up to n.
LEMMA RetainedList ==
  ASSUME NEW R, NEW s \in Seq(R), Once(s), NEW places \in SUBSET DOMAIN s
  PROVE  /\ Retained(s, places) \in Seq(R) /\ Once(Retained(s, places))
         /\ Entries(Retained(s, places)) = {s[i] : i \in places}
<1>0. Len(s) \in Nat /\ DOMAIN s = 1..Len(s)
  OBVIOUS
<1>1. PICK g : Retained(s, places) = g[Len(s)] /\ \A n \in Nat : Retaining(s, places, n, g)
  BY <1>0, RetainedUnfold
<1> DEFINE Good(n) == /\ g[n] \in Seq(R) /\ Once(g[n])
                      /\ Entries(g[n]) = {s[i] : i \in {j \in places : j <= n}}
           T == {n \in Nat : n <= Len(s) => Good(n)}
<1>2. g[0] = << >>
  BY <1>1 DEF Retaining
<1>3. 0 \in T
  <2>1. << >> \in Seq(R) /\ Once(<< >>) /\ Entries(<< >>) = {}
    BY DEF Once, Entries
  <2>2. {j \in places : j <= 0} = {}
    BY <1>0
  <2> QED
    BY <1>2, <2>1, <2>2
<1>4. ASSUME NEW n \in T PROVE n + 1 \in T
  <2> SUFFICES ASSUME n + 1 <= Len(s) PROVE Good(n + 1)
    OBVIOUS
  <2>1. n \in Nat /\ n + 1 \in DOMAIN s /\ Good(n)
    BY <1>0
  <2>2. g[n + 1] = IF n + 1 \in places THEN Append(g[n], s[n + 1]) ELSE g[n]
    <3>1. Retaining(s, places, n + 1, g)
      BY <1>1, <2>1
    <3>2. n + 1 \in 0..(n + 1) /\ n + 1 # 0 /\ (n + 1) - 1 = n
      BY <2>1
    <3> QED
      BY <3>1, <3>2 DEF Retaining
  <2> DEFINE new == {j \in places : j <= n + 1}
             old == {j \in places : j <= n}
  <2>3. CASE n + 1 \in places
    <3>1. new = old \cup {n + 1}
      BY <1>0, <2>1, <2>3
    <3>2. s[n + 1] \in R /\ g[n + 1] = Append(g[n], s[n + 1])
      BY <1>0, <2>1, <2>2, <2>3
    <3>3. g[n + 1] \in Seq(R) /\ Entries(g[n + 1]) = Entries(g[n]) \cup {s[n + 1]}
      BY <2>1, <3>2, AppendedList
    <3>4. s[n + 1].id \notin Ids(g[n])
      <4> SUFFICES ASSUME s[n + 1].id \in Ids(g[n]) PROVE FALSE
        OBVIOUS
      <4>1. PICK e \in Entries(g[n]) : e.id = s[n + 1].id
        BY IdsOfEntries
      <4>2. PICK i \in old : e = s[i]
        BY <2>1
      <4>3. i \in DOMAIN s /\ i # n + 1
        BY <1>0, <2>1, <4>2
      <4> QED
        BY <2>1, <4>1, <4>2, <4>3 DEF Once
    <3>5. Once(g[n + 1])
      BY <2>1, <3>2, <3>4, AppendedOnce
    <3>6. Entries(g[n + 1]) = {s[i] : i \in new}
      BY <2>1, <3>1, <3>3
    <3> QED
      BY <3>3, <3>5, <3>6
  <2>4. CASE n + 1 \notin places
    <3>1. new = old
      BY <1>0, <2>1, <2>4
    <3>2. g[n + 1] = g[n]
      BY <2>2, <2>4
    <3> QED
      BY <2>1, <3>1, <3>2
  <2> QED
    BY <2>3, <2>4
<1> HIDE DEF Good
<1>5. T = Nat
  <2> HIDE DEF T
  <2> QED
    BY <1>3, <1>4, Induction DEF T
<1>6. Good(Len(s))
  BY <1>0, <1>5
<1>7. {j \in places : j <= Len(s)} = places
  BY <1>0
<1> QED
  BY <1>1, <1>6, <1>7 DEF Good

\* What is newer than at leaves, the rest stays.
LEMMA UntilList ==
  ASSUME NEW R, NEW s \in Seq(R), Once(s), NEW at \in Nat, \A i \in DOMAIN s : s[i].at \in Nat
  PROVE  /\ Until(s, at) \in Seq(R) /\ Left(Until(s, at), s, Since(s, at))
         /\ \A e \in Entries(s) : e.at <= at <=> e.id \notin Since(s, at)
         /\ Since(s, at) \subseteq Ids(s)
<1> DEFINE places == {i \in DOMAIN s : s[i].at <= at}
<1>1. Until(s, at) = Retained(s, places)
  BY DEF Until
<1>2. Until(s, at) \in Seq(R) /\ Once(Until(s, at)) /\ Entries(Until(s, at)) = {s[i] : i \in places}
  BY <1>1, RetainedList
<1>3. ASSUME NEW i \in DOMAIN s PROVE s[i].at <= at <=> s[i].id \notin Since(s, at)
  BY DEF Since, Once
<1>4. \A e \in Entries(s) : e.at <= at <=> e.id \notin Since(s, at)
  BY <1>3 DEF Entries
<1>5. Since(s, at) \subseteq Ids(s)
  BY DEF Since, Ids
<1>6. \A e : e \in Entries(Until(s, at)) <=> e \in Entries(s) /\ e.at <= at
  BY <1>2, Zenon DEF Entries
<1>7. Left(Until(s, at), s, Since(s, at))
  BY <1>2, <1>4, <1>6, Zenon DEF Left
<1> QED
  BY <1>2, <1>4, <1>5, <1>7

LEMMA OtherList ==
  ASSUME NEW R, NEW s \in Seq(R), Once(s), NEW x
  PROVE  LET r == Retained(s, {i \in DOMAIN s : s[i].id # x})
         IN  r \in Seq(R) /\ Left(r, s, {x})
<1> DEFINE places == {i \in DOMAIN s : s[i].id # x}
           r == Retained(s, places)
<1>1. r \in Seq(R) /\ Once(r) /\ Entries(r) = {s[i] : i \in places}
  BY RetainedList
<1> HIDE DEF r
<1>2. Left(r, s, {x})
  BY <1>1 DEF Left, Entries
<1> QED
  BY <1>1, <1>2 DEF r

\* The limits drop the oldest entries and keep at least the newest one.
LEMMA StagedLimit ==
  ASSUME NEW s \in Seq(Changes), Once(s), s # << >>, load \in Workloads
  PROVE  StagedKept(s) \in Seq(Changes) /\ Left(StagedKept(s), s, Ids(s) \ Ids(StagedKept(s)))
<1>1. MaxStaged \in Nat \ {0} /\ Len(s) \in Nat /\ Len(s) # 0
  BY ForkLifecycleAssumption DEF MaxStaged
<1>2. CASE Len(s) <= MaxStaged
  <2>1. StagedKept(s) = s
    BY <1>2 DEF StagedKept
  <2>2. Left(s, s, Ids(s) \ Ids(s))
    BY DEF Left
  <2> QED
    BY <2>1, <2>2
<1>3. CASE ~(Len(s) <= MaxStaged)
  <2>1. PICK m : m = Len(s) - MaxStaged + 1
    OBVIOUS
  <2>2. m \in 1..Len(s) /\ StagedKept(s) = SubSeq(s, m, Len(s))
    BY <1>1, <1>3, <2>1 DEF StagedKept
  <2> QED
    BY <2>2, SuffixList
<1> QED
  BY <1>2, <1>3

LEMMA CheckpointLimit ==
  ASSUME NEW s \in Seq(Points), Once(s), s # << >>, NEW fs, load \in Workloads
  PROVE  LET k == CheckpointsKept(s, fs)
         IN  k \in Seq(Points) /\ Left(k, s, Ids(s) \ Ids(k))
<1> DEFINE recent == IF Len(s) <= MaxCheckpoints THEN s
                     ELSE SubSeq(s, Len(s) - MaxCheckpoints + 1, Len(s))
           fits(k) == k = Len(recent) \/ Bytes(SubSeq(recent, k, Len(recent)), fs) <= MaxBytes
           Chosen(k) == fits(k) /\ \A j \in 1..(k - 1) : ~fits(j)
           first == CHOOSE k \in DOMAIN recent : Chosen(k)
<1>1. MaxCheckpoints \in Nat \ {0} /\ Len(s) \in Nat /\ Len(s) # 0
  BY ForkLifecycleAssumption DEF MaxCheckpoints
<1>2. PICK m \in 1..Len(s) : recent = SubSeq(s, m, Len(s))
  <2>1. CASE Len(s) <= MaxCheckpoints
    <3>1. 1 \in 1..Len(s) /\ s = SubSeq(s, 1, Len(s))
      BY <1>1
    <3> QED
      BY <2>1, <3>1
  <2>2. CASE ~(Len(s) <= MaxCheckpoints)
    <3>1. Len(s) - MaxCheckpoints + 1 \in 1..Len(s)
      BY <1>1, <2>2
    <3> QED
      BY <2>2, <3>1
  <2> QED
    BY <2>1, <2>2
<1>5. CheckpointsKept(s, fs) = SubSeq(recent, first, Len(recent))
  BY DEF CheckpointsKept
<1> HIDE DEF recent
<1>3. recent \in Seq(Points) /\ Len(recent) = Len(s) - m + 1 /\ Len(recent) \in Nat \ {0}
      /\ DOMAIN recent = 1..Len(recent)
  BY <1>1, <1>2
<1>4. \A j \in 1..Len(recent) : recent[j] = s[j + m - 1]
  BY <1>1, <1>2
<1>6. fits(Len(recent))
  OBVIOUS
<1> HIDE DEF fits
<1>7. first \in DOMAIN recent
  <2> DEFINE T == {k \in Nat : k \in DOMAIN recent /\ fits(k)}
  <2>1. Len(recent) \in T
    BY <1>3, <1>6
  <2> HIDE DEF T
  <2>2. PICK k \in T : \A j \in T : k <= j
    BY <2>1, LeastNumber DEF T
  <2>3. k \in DOMAIN recent /\ fits(k) /\ k \in 1..Len(recent)
    BY <1>3, <2>2 DEF T
  <2>4. ASSUME NEW j \in 1..(k - 1), fits(j) PROVE FALSE
    <3>1. j \in Nat /\ j \in 1..Len(recent) /\ ~(k <= j)
      BY <1>3, <2>3
    <3>2. j \in T
      BY <1>3, <2>4, <3>1 DEF T
    <3> QED
      BY <2>2, <3>1, <3>2
  <2>5. Chosen(k)
    BY <2>3, <2>4
  <2> HIDE DEF Chosen
  <2> QED
    BY <2>3, <2>5
<1> HIDE DEF first
<1> DEFINE n == first + m - 1
<1>8. n \in 1..Len(s) /\ first \in 1..Len(recent)
  BY <1>1, <1>2, <1>3, <1>7
<1>9. SubSeq(recent, first, Len(recent)) = SubSeq(s, n, Len(s))
  <2> DEFINE a == SubSeq(recent, first, Len(recent))
             b == SubSeq(s, n, Len(s))
  <2>1. a \in Seq(Points) /\ Len(a) = Len(recent) - first + 1
    BY <1>3, <1>8
  <2>2. b \in Seq(Points) /\ Len(b) = Len(s) - n + 1
    BY <1>1, <1>8
  <2>3. Len(a) = Len(b)
    BY <1>1, <1>2, <1>3, <1>8, <2>1, <2>2
  <2>4. \A j \in 1..Len(a) : a[j] = recent[j + first - 1]
    BY <1>3, <1>8, <2>1
  <2>5. \A j \in 1..Len(b) : b[j] = s[j + n - 1]
    BY <1>1, <1>8, <2>2
  <2>6. ASSUME NEW j \in 1..Len(a) PROVE a[j] = b[j]
    <3>1. j + first - 1 \in 1..Len(recent) /\ (j + first - 1) + m - 1 = j + n - 1
      BY <1>3, <1>8, <2>1
    <3>2. recent[j + first - 1] = s[j + n - 1]
      BY <1>4, <3>1
    <3> QED
      BY <2>3, <2>4, <2>5, <3>2
  <2> HIDE DEF a, b
  <2>7. a = b
    BY <2>1, <2>2, <2>3, <2>6
  <2> QED
    BY <2>7 DEF a, b
<1> QED
  BY <1>5, <1>8, <1>9, SuffixList

-----------------------------------------------------------------------------
(* The context and the tasks.                                               *)

USE DEF None

LEMMA ContextParts ==
  ASSUME NEW c \in Contexts
  PROVE  /\ c.state \in Tokens /\ c.content \in Nat /\ c.staged \in Seq(Changes)
         /\ c.checkpoints \in Seq(Points) /\ c.ops \in Seq(Operations) /\ c.recalc \in BOOLEAN
BY DEF Contexts

\* c with other lists, content and flag.
LEMMA ChangedContext ==
  ASSUME NEW c \in Contexts
  PROVE  /\ \A x \in Seq(Changes) : [c EXCEPT !.staged = x] \in Contexts
         /\ \A x \in Seq(Points) : [c EXCEPT !.checkpoints = x] \in Contexts
         /\ \A x \in BOOLEAN : [c EXCEPT !.recalc = x] \in Contexts
         /\ \A x \in Nat, y \in BOOLEAN : [c EXCEPT !.content = x, !.recalc = y] \in Contexts
BY DEF Contexts

LEMMA SyncedContext ==
  ASSUME Shapes
  PROVE  /\ Synced \in Contexts /\ Synced.content = work
         /\ Synced.staged = ctx.staged /\ Synced.checkpoints = ctx.checkpoints
         /\ Synced.ops = ctx.ops /\ Synced.recalc = ctx.recalc
         /\ ctx.content = work => Synced = ctx
<1>1. ctx \in Contexts /\ work \in Nat /\ Hash(work) \in Tokens
  BY DEF Shapes, Tokens, Hash
<1>2. CASE work = ctx.content
  BY <1>1, <1>2 DEF Synced
<1>3. CASE work # ctx.content
  <2>1. Synced = [ctx EXCEPT !.content = work, !.state = Hash(work)]
    BY <1>3 DEF Synced
  <2> QED
    BY <1>1, <1>3, <2>1 DEF Contexts
<1> QED
  BY <1>2, <1>3

LEMMA AdvancedContext ==
  ASSUME NEW c \in Contexts, clock \in Nat
  PROVE  /\ Advanced(c) \in Contexts /\ Advanced(c).state = Random(clock)
         /\ Advanced(c).content = c.content /\ Advanced(c).staged = c.staged
         /\ Advanced(c).checkpoints = c.checkpoints /\ Advanced(c).ops = c.ops
         /\ Advanced(c).recalc = c.recalc
<1>1. Random(clock) \in Tokens
  BY DEF Random, Tokens
<1> HIDE DEF Random
<1> QED
  BY <1>1 DEF Advanced, Contexts

LEMMA PushedContext ==
  ASSUME NEW c \in Contexts, NEW edit \in Nat
  PROVE  /\ Pushed(c, edit) \in Contexts /\ Pushed(c, edit).state = c.state
         /\ Pushed(c, edit).content = c.content /\ Pushed(c, edit).staged = c.staged
         /\ Pushed(c, edit).checkpoints = c.checkpoints /\ Pushed(c, edit).recalc = c.recalc
         /\ \E o \in Operations : o.edit = edit /\ Pushed(c, edit).ops = Append(c.ops, o)
<1>1. PICK o : o = [seq |-> IF c.ops = << >> THEN 1 ELSE Last(c.ops).seq + 1, edit |-> edit]
  OBVIOUS
<1>2. c.ops \in Seq(Operations)
  BY DEF Contexts
<1>3. c.ops # << >> => Last(c.ops) \in Operations
  BY <1>2 DEF Last
<1>4. o \in Operations /\ o.edit = edit
  BY <1>1, <1>3 DEF Operations
<1>5. Pushed(c, edit) = [c EXCEPT !.ops = Append(c.ops, o)]
  BY <1>1 DEF Pushed, Contexts
<1>6. Append(c.ops, o) \in Seq(Operations)
  BY <1>2, <1>4
<1> QED
  BY <1>4, <1>5, <1>6 DEF Contexts

\* Two requests in the same place with the same data.
Same(r, q) ==
    /\ r.pc = q.pc /\ r.op = q.op /\ r.kind = q.kind /\ r.tok = q.tok
    /\ r.doc = q.doc /\ r.id = q.id /\ r.raise = q.raise

\* A step of t moves no other task; at most they learn that they are not alone.
Others(t) ==
    /\ task' \in [Tasks -> Requests]
    /\ \A u \in Tasks \ {t} : Same(task'[u], task[u]) /\ (task'[u].alone => task[u].alone)

LEMMA IdleRequest == Idle \in Requests /\ Idle.pc = "idle" /\ Idle.op = "none" /\ Idle.tok = Hash(0)
                     /\ Idle.doc = 0 /\ Idle.id = 0 /\ ~Idle.alone /\ Idle.kind = "none" /\ ~Idle.raise
<1>1. Hash(0) \in Tokens
  BY DEF Tokens, Hash
<1> HIDE DEF Hash
<1>2. Idle \in Requests
  BY <1>1 DEF Idle, Requests, Places, CanonicalPlaces, Work
<1>3. Idle.alone = FALSE /\ Idle.raise = FALSE
  BY DEF Idle
<1>4. Idle.pc = "idle" /\ Idle.op = "none" /\ Idle.tok = Hash(0) /\ Idle.doc = 0 /\ Idle.id = 0 /\ Idle.kind = "none"
  BY DEF Idle
<1> QED
  BY <1>2, <1>3, <1>4

LEMMA InstantTasks ==
  ASSUME Shapes, NEW t \in Tasks, Instant(t)
  PROVE  Others(t) /\ Same(task'[t], task[t]) /\ \A u \in Tasks : ~task'[u].alone
<1>1. task \in [Tasks -> Requests] /\ task' = [u \in Tasks |-> [task[u] EXCEPT !.alone = FALSE]]
  BY DEF Shapes, Instant
<1>2. \A u \in Tasks : /\ task'[u] \in Requests /\ Same(task'[u], task[u]) /\ ~task'[u].alone
  BY <1>1 DEF Requests, Same
<1> QED
  BY <1>1, <1>2 DEF Others

LEMMA EnterTasks ==
  ASSUME Shapes, NEW t \in Tasks, NEW rec \in Requests, Enter(t, rec)
  PROVE  /\ Others(t) /\ Same(task'[t], rec) /\ (task'[t].alone <=> ~Busy(t))
         /\ \A u \in Tasks \ {t} : ~task'[u].alone
<1>1. task \in [Tasks -> Requests]
  BY DEF Shapes
<1>2. Busy(t) \in BOOLEAN
  BY DEF Busy
<1>3. \A u \in Tasks : task'[u] = IF u = t THEN [rec EXCEPT !.alone = ~Busy(t)]
                                  ELSE [task[u] EXCEPT !.alone = FALSE]
  BY DEF Enter
<1>4. task'[t] \in Requests /\ Same(task'[t], rec) /\ (task'[t].alone <=> ~Busy(t))
  <2>1. PICK b \in BOOLEAN : b = ~Busy(t)
    BY <1>2
  <2>2. task'[t] = [rec EXCEPT !.alone = b]
    BY <1>3, <2>1
  <2>3. task'[t] \in Requests /\ Same(task'[t], rec)
    BY <2>2 DEF Requests, Same
  <2>4. task'[t].alone = b
    BY <2>2 DEF Requests
  <2> QED
    BY <2>1, <2>3, <2>4
<1>5. ASSUME NEW u \in Tasks \ {t}
      PROVE  task'[u] \in Requests /\ Same(task'[u], task[u]) /\ ~task'[u].alone
  <2>1. task'[u] = [task[u] EXCEPT !.alone = FALSE] /\ task[u] \in Requests
    BY <1>1, <1>3
  <2>2. task'[u] \in Requests /\ task'[u].alone = FALSE /\ Same(task'[u], task[u])
    BY <2>1 DEF Requests, Same
  <2> QED
    BY <2>2
<1>6. task' \in [Tasks -> Requests]
  <2>1. \A u \in Tasks : task'[u] \in Requests
    BY <1>4, <1>5
  <2>2. task' = [u \in Tasks |-> task'[u]]
    BY DEF Enter
  <2> QED
    BY <2>1, <2>2
<1> QED
  BY <1>4, <1>5, <1>6 DEF Others

LEMMA MoveTasks ==
  ASSUME Shapes, NEW t \in Tasks, NEW pc \in Places, Move(t, pc)
  PROVE  /\ Others(t) /\ task'[t] = [task[t] EXCEPT !.pc = pc]
         /\ task'[t].pc = pc /\ task'[t].op = task[t].op /\ task'[t].kind = task[t].kind
         /\ task'[t].tok = task[t].tok /\ task'[t].doc = task[t].doc /\ task'[t].id = task[t].id
         /\ task'[t].raise = task[t].raise /\ task'[t].alone = task[t].alone
<1>1. task \in [Tasks -> Requests]
  BY DEF Shapes
<1>2. task'[t] = [task[t] EXCEPT !.pc = pc] /\ \A u \in Tasks \ {t} : task'[u] = task[u]
  BY <1>1 DEF Move
<1>3. task' \in [Tasks -> Requests]
  BY <1>1 DEF Move, Requests
<1> QED
  BY <1>1, <1>2, <1>3 DEF Others, Same, Requests

LEMMA LeaveTasks ==
  ASSUME Shapes, NEW t \in Tasks, Leave(t)
  PROVE  Others(t) /\ task'[t] = Idle
<1>1. task \in [Tasks -> Requests] /\ Idle \in Requests
  BY IdleRequest DEF Shapes
<1>2. task' = [task EXCEPT ![t] = Idle]
  BY DEF Leave
<1> HIDE DEF Idle
<1>3. task'[t] = Idle /\ \A u \in Tasks \ {t} : task'[u] = task[u]
  BY <1>1, <1>2
<1>4. task' \in [Tasks -> Requests]
  BY <1>1, <1>2
<1> QED
  BY <1>3, <1>4 DEF Others, Same

\* The context of the next state, field by field.
Next_ctx(state, content, staged, checkpoints, ops, recalc) ==
    /\ ctx' \in Contexts /\ ctx'.state = state /\ ctx'.content = content
    /\ ctx'.staged = staged /\ ctx'.checkpoints = checkpoints
    /\ ctx'.ops = ops /\ ctx'.recalc = recalc

\* The response carries the token of the state it leaves.
Responds == named' = named \cup {<<ctx'.state, View(ctx', work')>>}

\* A revision after a write or a calculation.
Revised(flag, edit) == Pushed(Advanced([Synced EXCEPT !.content = Len(docs) + 1, !.recalc = flag]), edit)

RevisedFields(c, flag, edit) ==
    /\ c \in Contexts /\ c.state = Random(clock) /\ c.content = Len(docs) + 1
    /\ c.staged = ctx.staged /\ c.checkpoints = ctx.checkpoints /\ c.recalc = flag
    /\ \E o \in Operations : o.edit = edit /\ c.ops = Append(ctx.ops, o)

LEMMA RevisedContext ==
  ASSUME Shapes, NEW flag \in BOOLEAN, NEW edit \in Nat
  PROVE  RevisedFields(Revised(flag, edit), flag, edit)
<1>0. PICK c : c = Revised(flag, edit)
  OBVIOUS
<1> DEFINE a == [Synced EXCEPT !.content = Len(docs) + 1, !.recalc = flag]
<1>1. Len(docs) + 1 \in Nat /\ clock \in Nat
  BY DEF Shapes
<1>2. /\ Synced \in Contexts /\ Synced.staged = ctx.staged /\ Synced.checkpoints = ctx.checkpoints
      /\ Synced.ops = ctx.ops
  BY SyncedContext
<1>3. /\ a \in Contexts /\ a.content = Len(docs) + 1 /\ a.recalc = flag /\ a.staged = ctx.staged
      /\ a.checkpoints = ctx.checkpoints /\ a.ops = ctx.ops
  <2>1. PICK y \in Contexts : y = Synced
    BY <1>2
  <2>2. PICK n \in Nat : n = Len(docs) + 1
    BY <1>1
  <2>3. a = [y EXCEPT !.content = n, !.recalc = flag]
    BY <2>1, <2>2
  <2>4. [y EXCEPT !.content = n, !.recalc = flag] \in Contexts
    BY ChangedContext
  <2> QED
    BY <1>2, <2>1, <2>2, <2>3, <2>4 DEF Contexts
<1> HIDE DEF a
<1>4. /\ Advanced(a) \in Contexts /\ Advanced(a).state = Random(clock)
      /\ Advanced(a).content = a.content /\ Advanced(a).staged = a.staged
      /\ Advanced(a).checkpoints = a.checkpoints /\ Advanced(a).ops = a.ops
      /\ Advanced(a).recalc = a.recalc
  BY <1>1, <1>3, AdvancedContext
<1>5. PICK b \in Contexts : b = Advanced(a) /\ c = Pushed(b, edit)
  BY <1>0, <1>4 DEF a, Revised
<1>6. /\ c \in Contexts /\ c.state = Advanced(a).state /\ c.content = Advanced(a).content
      /\ c.staged = Advanced(a).staged /\ c.checkpoints = Advanced(a).checkpoints
      /\ c.recalc = Advanced(a).recalc
      /\ \E o \in Operations : o.edit = edit /\ c.ops = Append(Advanced(a).ops, o)
  <2>1. /\ Pushed(b, edit) \in Contexts /\ Pushed(b, edit).state = b.state
        /\ Pushed(b, edit).content = b.content /\ Pushed(b, edit).staged = b.staged
        /\ Pushed(b, edit).checkpoints = b.checkpoints /\ Pushed(b, edit).recalc = b.recalc
        /\ \E o \in Operations : o.edit = edit /\ Pushed(b, edit).ops = Append(b.ops, o)
    BY PushedContext
  <2> QED
    BY <1>5, <2>1, Zenon
<1>7. RevisedFields(c, flag, edit)
  BY <1>3, <1>4, <1>6 DEF RevisedFields
<1> QED
  BY <1>0, <1>7

\* A revision with another list of staged changes, or of checkpoints.
LEMMA StagedContext ==
  ASSUME Shapes, NEW d \in Contexts, NEW list \in Seq(Changes), NEW c,
         c = Advanced([d EXCEPT !.staged = list])
  PROVE  /\ c \in Contexts /\ c.state = Random(clock) /\ c.content = d.content
         /\ c.staged = list /\ c.checkpoints = d.checkpoints /\ c.ops = d.ops /\ c.recalc = d.recalc
<1> DEFINE a == [d EXCEPT !.staged = list]
<1>1. /\ a \in Contexts /\ a.content = d.content /\ a.staged = list /\ a.checkpoints = d.checkpoints
      /\ a.ops = d.ops /\ a.recalc = d.recalc
  BY DEF Contexts
<1> HIDE DEF a
<1>2. clock \in Nat /\ c = Advanced(a)
  BY DEF Shapes, a
<1> QED
  BY <1>1, <1>2, AdvancedContext

LEMMA CheckpointContext ==
  ASSUME Shapes, NEW d \in Contexts, NEW list \in Seq(Points), NEW c,
         c = Advanced([d EXCEPT !.checkpoints = list])
  PROVE  /\ c \in Contexts /\ c.state = Random(clock) /\ c.content = d.content
         /\ c.staged = d.staged /\ c.checkpoints = list /\ c.ops = d.ops /\ c.recalc = d.recalc
<1> DEFINE a == [d EXCEPT !.checkpoints = list]
<1>1. /\ a \in Contexts /\ a.content = d.content /\ a.staged = d.staged /\ a.checkpoints = list
      /\ a.ops = d.ops /\ a.recalc = d.recalc
  BY DEF Contexts
<1> HIDE DEF a
<1>2. clock \in Nat /\ c = Advanced(a)
  BY DEF Shapes, a
<1> QED
  BY <1>1, <1>2, AdvancedContext

-----------------------------------------------------------------------------
(* What each operation of one section does, field by field.                 *)

\* A request that starts when its task is free.
LEMMA FreeTask == ASSUME NEW t \in Tasks, Free(t) PROVE task[t].pc = "idle"
BY DEF Free

LEMMA WriteEffect ==
  ASSUME Shapes, NEW t \in Tasks, Write(t)
  PROVE  /\ ~gone /\ task[t].pc = "idle" /\ Others(t)
         /\ task'[t].pc = "revoke" /\ task'[t].op = "write" /\ task'[t].doc = 0 /\ task'[t].tok = Hash(0)
         /\ \E o \in Operations : /\ o.edit = clock
                                  /\ Next_ctx(Random(clock), Len(docs) + 1, ctx.staged, ctx.checkpoints,
                                              Append(ctx.ops, o), TRUE)
         /\ Responds /\ docs' = NewDoc(work, {clock}, TRUE) /\ work' = Len(docs) + 1
         /\ clock' = clock + 1 /\ UNCHANGED <<files, gone, cache, reads>>
<1>1. PICK r : r = [Idle EXCEPT !.pc = "revoke", !.op = "write"]
  OBVIOUS
<1>2. r \in Requests /\ r.pc = "revoke" /\ r.op = "write" /\ r.doc = 0 /\ r.tok = Hash(0)
  BY <1>1, IdleRequest DEF Requests, Places, CanonicalPlaces, Work
<1>3. Others(t) /\ Same(task'[t], r)
  BY <1>1, <1>2, EnterTasks DEF Write
<1>4. ctx' = Revised(TRUE, clock)
  BY DEF Write, Respond, Revised
<1>5. \E o \in Operations : /\ o.edit = clock
                            /\ Next_ctx(Random(clock), Len(docs) + 1, ctx.staged, ctx.checkpoints,
                                        Append(ctx.ops, o), TRUE)
  <2>1. clock \in Nat
    BY DEF Shapes
  <2>2. PICK c : c = ctx' /\ c = Revised(TRUE, clock)
    BY <1>4
  <2>3. /\ c \in Contexts /\ c.state = Random(clock) /\ c.content = Len(docs) + 1
        /\ c.staged = ctx.staged /\ c.checkpoints = ctx.checkpoints /\ c.recalc = TRUE
        /\ \E o \in Operations : o.edit = clock /\ c.ops = Append(ctx.ops, o)
    <3>1. RevisedFields(Revised(TRUE, clock), TRUE, clock)
      BY <2>1, RevisedContext
    <3> QED
      BY <2>2, <3>1, Zenon DEF RevisedFields
  <2> QED
    BY <2>2, <2>3, Zenon DEF Next_ctx
<1>6. Responds
  BY DEF Write, Respond, Responds
<1>7. /\ ~gone /\ task[t].pc = "idle" /\ docs' = NewDoc(work, {clock}, TRUE) /\ work' = Len(docs) + 1
      /\ clock' = clock + 1 /\ UNCHANGED <<files, gone, cache, reads>>
  BY DEF Write, Offered, Free, Tick, shared
<1> QED
  BY <1>2, <1>3, <1>5, <1>6, <1>7 DEF Same

LEMMA StageEffect ==
  ASSUME Shapes, Lists, NEW t \in Tasks, Stage(t)
  PROVE  /\ ~gone /\ task[t].pc = "idle" /\ Instant(t)
         /\ \E e \in Changes, r \in Seq(Changes), s \in Seq(Changes) :
               /\ e.id = clock /\ e.at = clock /\ Bundle(e) /\ s = Append(ctx.staged, e)
               /\ Once(s) /\ Left(r, s, Ids(s) \ Ids(r))
               /\ Next_ctx(Random(clock), work, r, ctx.checkpoints, ctx.ops, ctx.recalc)
               /\ files' = Kept(files, Ids(s) \ Ids(r))
         /\ Responds /\ clock' = clock + 1 /\ UNCHANGED <<docs, work, gone, cache, reads>>
<1>1. PICK e : e = [id |-> clock, at |-> clock, kind |-> "canonical_write_bundle", base |-> Synced.content]
  OBVIOUS
<1>2. /\ Synced \in Contexts /\ Synced.content = work /\ Synced.checkpoints = ctx.checkpoints
      /\ Synced.ops = ctx.ops /\ Synced.recalc = ctx.recalc /\ clock \in Nat /\ work \in Nat
      /\ ctx.staged \in Seq(Changes) /\ load \in Workloads
  BY SyncedContext, ContextParts DEF Shapes
<1>3. e \in Changes /\ e.id = clock /\ e.at = clock /\ Bundle(e)
  BY <1>1, <1>2 DEF Changes, Bundle
<1>4. ~gone /\ task[t].pc = "idle" /\ Instant(t) /\ clock' = clock + 1 /\ UNCHANGED <<docs, work, gone, cache, reads>>
  BY DEF Stage, Offered, Free, Tick, shared
<1>5. PICK s : s = Append(ctx.staged, e)
  OBVIOUS
<1>6. s \in Seq(Changes) /\ s # << >>
  BY <1>2, <1>3, <1>5
<1>7. Once(s)
  <2>1. clock \notin Ids(ctx.staged)
    <3> SUFFICES ASSUME clock \in Ids(ctx.staged) PROVE FALSE
      OBVIOUS
    <3>1. PICK f \in Entries(ctx.staged) : f.id = clock
      BY IdsOfEntries
    <3>2. f.id < clock
      BY <1>4, <3>1 DEF Lists, IdentifiersOnce
    <3> QED
      BY <1>2, <3>1, <3>2
  <2>2. Once(ctx.staged)
    BY <1>4 DEF Lists
  <2> QED
    BY <1>2, <1>3, <1>5, <2>1, <2>2, AppendedOnce
<1>8. PICK r \in Seq(Changes) : r = StagedKept(s) /\ Left(r, s, Ids(s) \ Ids(r))
  BY <1>2, <1>6, <1>7, StagedLimit
<1>9. /\ ctx' = Advanced([Synced EXCEPT !.staged = r])
      /\ files' = Kept(files, Ids(s) \ Ids(r)) /\ Responds
  BY <1>1, <1>5, <1>8 DEF Stage, Respond, Responds
<1>10. Next_ctx(Random(clock), work, r, ctx.checkpoints, ctx.ops, ctx.recalc)
  BY <1>2, <1>9, StagedContext DEF Next_ctx
<1> QED
  BY <1>3, <1>4, <1>5, <1>6, <1>7, <1>8, <1>9, <1>10

LEMMA StagedApplyEffect ==
  ASSUME Shapes, Lists, NEW t \in Tasks, StagedApply(t)
  PROVE  /\ ~gone /\ task[t].pc = "idle" /\ Instant(t)
         /\ \E i \in DOMAIN ctx.staged, r \in Seq(Changes), o \in Operations :
               /\ Left(r, ctx.staged, {ctx.staged[i].id}) /\ o.edit = clock
               /\ Next_ctx(Random(clock), Len(docs) + 1, r, ctx.checkpoints, Append(ctx.ops, o), TRUE)
               /\ files' = Kept(files, {ctx.staged[i].id})
         /\ Responds /\ docs' = NewDoc(work, {clock}, TRUE) /\ work' = Len(docs) + 1
         /\ cache' = 0 /\ clock' = clock + 1 /\ UNCHANGED <<gone, reads>>
<1>1. /\ ~gone /\ task[t].pc = "idle" /\ Instant(t) /\ docs' = NewDoc(work, {clock}, TRUE)
      /\ work' = Len(docs) + 1 /\ cache' = 0 /\ clock' = clock + 1 /\ UNCHANGED <<gone, reads>>
  BY DEF StagedApply, Offered, Free, Tick
<1>2. PICK c : c = Revised(TRUE, clock)
  OBVIOUS
<1>3. PICK i \in DOMAIN ctx.staged :
         /\ Respond([c EXCEPT !.staged = RemoveAt(@, i)], Len(docs) + 1)
         /\ files' = Kept(files, {ctx.staged[i].id})
  BY <1>2, Zenon DEF StagedApply, Revised
<1>4. clock \in Nat /\ ctx.staged \in Seq(Changes) /\ Once(ctx.staged)
  BY <1>1, ContextParts DEF Shapes, Lists
<1>5. /\ c \in Contexts /\ c.state = Random(clock) /\ c.content = Len(docs) + 1
      /\ c.staged = ctx.staged /\ c.checkpoints = ctx.checkpoints /\ c.recalc = TRUE
      /\ \E o \in Operations : o.edit = clock /\ c.ops = Append(ctx.ops, o)
  <2>1. clock \in Nat
    BY <1>4
  <2>2. RevisedFields(Revised(TRUE, clock), TRUE, clock)
    BY <2>1, RevisedContext
  <2> QED
    BY <1>2, <2>2, Zenon DEF RevisedFields
<1>6. PICK r \in Seq(Changes) : r = RemoveAt(ctx.staged, i) /\ Left(r, ctx.staged, {ctx.staged[i].id})
  BY <1>4, RemovedEntry
<1>7. ctx' = [c EXCEPT !.staged = r]
  BY <1>3, <1>5, <1>6 DEF Respond, Contexts
<1>8. /\ ctx' \in Contexts /\ ctx'.state = c.state /\ ctx'.content = c.content /\ ctx'.staged = r
      /\ ctx'.checkpoints = c.checkpoints /\ ctx'.recalc = c.recalc /\ ctx'.ops = c.ops
  BY <1>5, <1>7 DEF Contexts
<1>9. Responds
  BY <1>1, <1>3 DEF Respond, Responds
<1> QED
  BY <1>1, <1>3, <1>5, <1>6, <1>8, <1>9 DEF Next_ctx

\* A revision that changes the lists only.
Lists_ctx(staged, checkpoints) ==
    /\ ctx' \in Contexts /\ ctx'.state = Random(clock) /\ ctx'.staged = staged /\ ctx'.checkpoints = checkpoints
    /\ ctx'.ops = ctx.ops /\ ctx'.recalc = ctx.recalc

\* One change, or one checkpoint, leaves with its file.
DropsChange ==
    \E i \in DOMAIN ctx.staged, r \in Seq(Changes) :
       /\ Left(r, ctx.staged, {ctx.staged[i].id})
       /\ Lists_ctx(r, ctx.checkpoints) /\ files' = Kept(files, {ctx.staged[i].id})
DropsPoint ==
    \E i \in DOMAIN ctx.checkpoints, r \in Seq(Points) :
       /\ Left(r, ctx.checkpoints, {ctx.checkpoints[i].id})
       /\ Lists_ctx(ctx.staged, r) /\ files' = Kept(files, {ctx.checkpoints[i].id})

\* A new checkpoint of the work file, and the ones beyond the limits leave.
AddsPoint ==
    \E p \in Points, s \in Seq(Points), r \in Seq(Points) :
       /\ p.id = clock /\ p.at = clock /\ p.recalc = ctx.recalc /\ p.ops = Len(ctx.ops)
       /\ s = Append(ctx.checkpoints, p) /\ Once(s) /\ Left(r, s, Ids(s) \ Ids(r))
       /\ Lists_ctx(ctx.staged, r) /\ files' = Kept(With(files, clock, work), Ids(s) \ Ids(r))

LEMMA DropsChangeStep ==
  ASSUME Shapes, Lists, ~gone, NEW d \in Contexts, d.staged = ctx.staged, d.checkpoints = ctx.checkpoints,
         d.ops = ctx.ops, d.recalc = ctx.recalc, NEW i \in DOMAIN ctx.staged,
         ctx' = Advanced([d EXCEPT !.staged = RemoveAt(@, i)]), files' = Kept(files, {ctx.staged[i].id})
  PROVE  DropsChange /\ ctx'.content = d.content
<1>1. ctx.staged \in Seq(Changes) /\ Once(ctx.staged)
  BY ContextParts DEF Shapes, Lists
<1>2. PICK r \in Seq(Changes) : r = RemoveAt(ctx.staged, i) /\ Left(r, ctx.staged, {ctx.staged[i].id})
  BY <1>1, RemovedEntry
<1>3. ctx' = Advanced([d EXCEPT !.staged = r])
  <2>1. [d EXCEPT !.staged = RemoveAt(@, i)] = [d EXCEPT !.staged = r]
    BY <1>2 DEF Contexts
  <2> QED
    BY <2>1
<1>4. PICK c : c = ctx'
  OBVIOUS
<1>5. /\ c \in Contexts /\ c.state = Random(clock) /\ c.content = d.content
      /\ c.staged = r /\ c.checkpoints = d.checkpoints /\ c.ops = d.ops /\ c.recalc = d.recalc
  BY <1>3, <1>4, StagedContext
<1>6. Lists_ctx(r, ctx.checkpoints)
  BY <1>4, <1>5 DEF Lists_ctx
<1> QED
  BY <1>2, <1>4, <1>5, <1>6 DEF DropsChange

LEMMA DropsPointStep ==
  ASSUME Shapes, Lists, ~gone, NEW d \in Contexts, d.staged = ctx.staged, d.checkpoints = ctx.checkpoints,
         d.ops = ctx.ops, d.recalc = ctx.recalc, NEW i \in DOMAIN ctx.checkpoints,
         ctx' = Advanced([d EXCEPT !.checkpoints = RemoveAt(@, i)]),
         files' = Kept(files, {ctx.checkpoints[i].id})
  PROVE  DropsPoint /\ ctx'.content = d.content
<1>1. ctx.checkpoints \in Seq(Points) /\ Once(ctx.checkpoints)
  BY ContextParts DEF Shapes, Lists
<1>2. PICK r \in Seq(Points) : /\ r = RemoveAt(ctx.checkpoints, i)
                               /\ Left(r, ctx.checkpoints, {ctx.checkpoints[i].id})
  BY <1>1, RemovedEntry
<1>3. ctx' = Advanced([d EXCEPT !.checkpoints = r])
  <2>1. [d EXCEPT !.checkpoints = RemoveAt(@, i)] = [d EXCEPT !.checkpoints = r]
    BY <1>2 DEF Contexts
  <2> QED
    BY <2>1
<1>4. PICK c : c = ctx'
  OBVIOUS
<1>5. /\ c \in Contexts /\ c.state = Random(clock) /\ c.content = d.content
      /\ c.staged = d.staged /\ c.checkpoints = r /\ c.ops = d.ops /\ c.recalc = d.recalc
  BY <1>3, <1>4, CheckpointContext
<1>6. Lists_ctx(ctx.staged, r)
  BY <1>4, <1>5 DEF Lists_ctx
<1> QED
  BY <1>2, <1>4, <1>5, <1>6 DEF DropsPoint

\* The clock is the identifier of no entry yet.
LEMMA ClockIsNew ==
  ASSUME Shapes, Lists, ~gone
  PROVE  clock \notin Ids(ctx.staged) /\ clock \notin Ids(ctx.checkpoints)
<1>1. clock \in Nat /\ ~(clock < clock)
  BY DEF Shapes
<1>2. \A e \in Entries(ctx.staged) : e.id < clock
  BY DEF Lists, IdentifiersOnce
<1>3. \A p \in Entries(ctx.checkpoints) : p.id < clock
  BY DEF Lists, IdentifiersOnce
<1>4. \A x : x \in Ids(ctx.staged) => \E e \in Entries(ctx.staged) : e.id = x
  BY IdsOfEntries
<1>5. \A x : x \in Ids(ctx.checkpoints) => \E e \in Entries(ctx.checkpoints) : e.id = x
  BY IdsOfEntries
<1> QED
  BY <1>1, <1>2, <1>3, <1>4, <1>5

LEMMA AddsPointStep ==
  ASSUME Shapes, Lists, ~gone, NEW s, s = Append(ctx.checkpoints, Checkpoint),
         NEW fs, fs = With(files, clock, work), NEW k, k = CheckpointsKept(s, fs),
         ctx' = Advanced([Synced EXCEPT !.checkpoints = k]),
         files' = Kept(fs, Ids(s) \ Ids(k))
  PROVE  AddsPoint /\ ctx'.content = work
<1>1. /\ ctx.checkpoints \in Seq(Points) /\ Once(ctx.checkpoints) /\ ctx.ops \in Seq(Operations)
      /\ ctx.recalc \in BOOLEAN /\ clock \in Nat /\ load \in Workloads
  BY ContextParts DEF Shapes, Lists
<1>2. PICK p \in Points : /\ p = Checkpoint /\ p.id = clock /\ p.at = clock
                          /\ p.recalc = ctx.recalc /\ p.ops = Len(ctx.ops)
  <2>1. PICK b \in BOOLEAN : b = ctx.recalc
    BY <1>1, Zenon
  <2>2. Len(ctx.ops) \in Nat
    BY <1>1
  <2>5. PICK n \in Nat : n = Len(ctx.ops)
    BY <2>2, Zenon
  <2>3. Checkpoint = [id |-> clock, at |-> clock, recalc |-> b, ops |-> n]
    BY <2>1, <2>5, Zenon DEF Checkpoint
  <2>4. [id |-> clock, at |-> clock, recalc |-> b, ops |-> n] \in Points
    BY <1>1 DEF Points
  <2> QED
    BY <2>1, <2>5, <2>3, <2>4
<1>3. s = Append(ctx.checkpoints, p) /\ s \in Seq(Points) /\ s # << >>
  BY <1>1, <1>2
<1>4. Once(s)
  BY <1>1, <1>2, <1>3, ClockIsNew, AppendedOnce
<1>5. k \in Seq(Points) /\ Left(k, s, Ids(s) \ Ids(k))
  BY <1>1, <1>3, <1>4, CheckpointLimit
<1>6. /\ Synced \in Contexts /\ Synced.content = work /\ Synced.staged = ctx.staged
      /\ Synced.ops = ctx.ops /\ Synced.recalc = ctx.recalc
  BY SyncedContext
<1>7. PICK c, d : c = ctx' /\ d = Synced
  OBVIOUS
<1>8. /\ c \in Contexts /\ c.state = Random(clock) /\ c.content = d.content
      /\ c.staged = d.staged /\ c.checkpoints = k /\ c.ops = d.ops /\ c.recalc = d.recalc
  BY <1>5, <1>6, <1>7, CheckpointContext
<1>9. Lists_ctx(ctx.staged, k)
  BY <1>6, <1>7, <1>8 DEF Lists_ctx
<1> QED
  BY <1>2, <1>3, <1>4, <1>5, <1>6, <1>7, <1>8, <1>9 DEF AddsPoint

LEMMA StagedDiscardEffect ==
  ASSUME Shapes, Lists, NEW t \in Tasks, StagedDiscard(t)
  PROVE  /\ ~gone /\ task[t].pc = "idle" /\ Instant(t) /\ DropsChange /\ ctx'.content = work
         /\ Responds /\ clock' = clock + 1 /\ UNCHANGED <<docs, work, gone, cache, reads>>
<1>1. /\ ~gone /\ task[t].pc = "idle" /\ Instant(t) /\ clock' = clock + 1
      /\ UNCHANGED <<docs, work, gone, cache, reads>>
  BY DEF StagedDiscard, Offered, Free, Tick, shared
<1>2. PICK i \in DOMAIN ctx.staged : /\ Respond(Advanced([Synced EXCEPT !.staged = RemoveAt(@, i)]), work)
                                     /\ files' = Kept(files, {ctx.staged[i].id})
  BY DEF StagedDiscard
<1>3. ctx' = Advanced([Synced EXCEPT !.staged = RemoveAt(@, i)])
  BY <1>2 DEF Respond
<1>4. Responds
  BY <1>1, <1>2 DEF Respond, Responds
<1>5. PICK d : d = Synced
  OBVIOUS
<1>6. /\ d \in Contexts /\ d.content = work /\ d.staged = ctx.staged /\ d.checkpoints = ctx.checkpoints
      /\ d.ops = ctx.ops /\ d.recalc = ctx.recalc /\ ctx' = Advanced([d EXCEPT !.staged = RemoveAt(@, i)])
  BY <1>3, <1>5, SyncedContext
<1>7. DropsChange /\ ctx'.content = work
  BY <1>1, <1>2, <1>6, DropsChangeStep
<1> QED
  BY <1>1, <1>4, <1>7

LEMMA CheckpointDeleteEffect ==
  ASSUME Shapes, Lists, NEW t \in Tasks, CheckpointDelete(t)
  PROVE  /\ ~gone /\ task[t].pc = "idle" /\ Instant(t) /\ DropsPoint /\ ctx'.content = work
         /\ Responds /\ clock' = clock + 1 /\ UNCHANGED <<docs, work, gone, cache, reads>>
<1>1. /\ ~gone /\ task[t].pc = "idle" /\ Instant(t) /\ clock' = clock + 1
      /\ UNCHANGED <<docs, work, gone, cache, reads>>
  BY DEF CheckpointDelete, Offered, Free, Tick, shared
<1>2. PICK i \in DOMAIN ctx.checkpoints :
         /\ Respond(Advanced([Synced EXCEPT !.checkpoints = RemoveAt(@, i)]), work)
         /\ files' = Kept(files, {ctx.checkpoints[i].id})
  BY DEF CheckpointDelete
<1>3. ctx' = Advanced([Synced EXCEPT !.checkpoints = RemoveAt(@, i)])
  BY <1>2 DEF Respond
<1>4. Responds
  BY <1>1, <1>2 DEF Respond, Responds
<1>5. PICK d : d = Synced
  OBVIOUS
<1>6. /\ d \in Contexts /\ d.content = work /\ d.staged = ctx.staged /\ d.checkpoints = ctx.checkpoints
      /\ d.ops = ctx.ops /\ d.recalc = ctx.recalc /\ ctx' = Advanced([d EXCEPT !.checkpoints = RemoveAt(@, i)])
  BY <1>3, <1>5, SyncedContext
<1>7. DropsPoint /\ ctx'.content = work
  BY <1>1, <1>2, <1>6, DropsPointStep
<1> QED
  BY <1>1, <1>4, <1>7

LEMMA CheckpointCreateEffect ==
  ASSUME Shapes, Lists, NEW t \in Tasks, CheckpointCreate(t)
  PROVE  /\ ~gone /\ task[t].pc = "idle" /\ Free(t) /\ Instant(t) /\ AddsPoint /\ ctx'.content = work
         /\ Responds /\ clock' = clock + 1 /\ UNCHANGED <<docs, work, gone, cache, reads>>
<1>1. /\ ~gone /\ task[t].pc = "idle" /\ Free(t) /\ Instant(t) /\ clock' = clock + 1
      /\ UNCHANGED <<docs, work, gone, cache, reads>>
  BY DEF CheckpointCreate, Offered, Free, Tick, shared
<1>2. PICK fs, s : fs = With(files, clock, work) /\ s = Append(ctx.checkpoints, Checkpoint)
  OBVIOUS
<1>3. PICK k : k = CheckpointsKept(s, fs)
  OBVIOUS
<1>4. /\ Respond(Advanced([Synced EXCEPT !.checkpoints = k]), work)
      /\ files' = Kept(fs, Ids(s) \ Ids(k))
  BY <1>2, <1>3, Zenon DEF CheckpointCreate
<1>5. ctx' = Advanced([Synced EXCEPT !.checkpoints = k])
  BY <1>4 DEF Respond
<1>6. Responds
  BY <1>1, <1>4 DEF Respond, Responds
<1>7. AddsPoint /\ ctx'.content = work
  BY <1>1, <1>2, <1>3, <1>4, <1>5, AddsPointStep
<1> QED
  BY <1>1, <1>6, <1>7

\* The checkpoint that is restored: its file exists and its history is a part of
\* the present one.
LEMMA RestoredPoint ==
  ASSUME Shapes, Lists, ~gone, NEW i \in DOMAIN ctx.checkpoints, NEW p, p = ctx.checkpoints[i]
  PROVE  /\ p \in Points /\ p \in Entries(ctx.checkpoints) /\ p.at \in Nat /\ p.recalc \in BOOLEAN
         /\ p.id \in DOMAIN files /\ files[p.id] \in 1..Len(docs) /\ files[p.id] \in Nat
         /\ p.ops \in 0..Len(ctx.ops) /\ SubSeq(ctx.ops, 1, p.ops) \in Seq(Operations)
<1>1. ctx.checkpoints \in Seq(Points) /\ ctx.ops \in Seq(Operations)
  BY ContextParts DEF Shapes
<1>2. p \in Points /\ p \in Entries(ctx.checkpoints)
  BY <1>1 DEF Entries
<1>3. p.at \in Nat /\ p.recalc \in BOOLEAN /\ p.ops \in Nat
  BY <1>2 DEF Points
<1>4. p.id \in DOMAIN files /\ p.ops <= Len(ctx.ops)
  BY <1>2 DEF Lists, FilesListed, PointsInOrder
<1>5. files[p.id] \in 1..Len(docs) /\ files[p.id] \in Nat
  BY <1>4 DEF Shapes
<1>6. p.ops \in 0..Len(ctx.ops) /\ SubSeq(ctx.ops, 1, p.ops) \in Seq(Operations)
  BY <1>1, <1>3, <1>4
<1> QED
  BY <1>2, <1>3, <1>4, <1>5, <1>6

\* What is kept of both lists.
LEMMA RestoredLists ==
  ASSUME Shapes, Lists, ~gone, NEW at \in Nat
  PROVE  /\ Until(ctx.staged, at) \in Seq(Changes)
         /\ Left(Until(ctx.staged, at), ctx.staged, Since(ctx.staged, at))
         /\ Since(ctx.staged, at) \subseteq Ids(ctx.staged)
         /\ Until(ctx.checkpoints, at) \in Seq(Points)
         /\ Left(Until(ctx.checkpoints, at), ctx.checkpoints, Since(ctx.checkpoints, at))
         /\ Since(ctx.checkpoints, at) \subseteq Ids(ctx.checkpoints)
         /\ \A e \in Entries(ctx.checkpoints) : e.at <= at <=> e.id \notin Since(ctx.checkpoints, at)
<1>1. ctx.checkpoints \in Seq(Points) /\ ctx.staged \in Seq(Changes) /\ Once(ctx.staged) /\ Once(ctx.checkpoints)
  BY ContextParts DEF Shapes, Lists
<1>2. \A i \in DOMAIN ctx.staged : ctx.staged[i].at \in Nat
  <2>1. \A i \in DOMAIN ctx.staged : ctx.staged[i] \in Changes
    BY <1>1
  <2>2. \A e \in Changes : e.at \in Nat
    BY DEF Changes
  <2> QED
    BY <2>1, <2>2
<1>3. \A i \in DOMAIN ctx.checkpoints : ctx.checkpoints[i].at \in Nat
  <2>1. \A i \in DOMAIN ctx.checkpoints : ctx.checkpoints[i] \in Points
    BY <1>1
  <2>2. \A e \in Points : e.at \in Nat
    BY DEF Points
  <2> QED
    BY <2>1, <2>2
<1> QED
  BY <1>1, <1>2, <1>3, UntilList

LEMMA CheckpointRestoreEffect ==
  ASSUME Shapes, Lists, NEW t \in Tasks, CheckpointRestore(t)
  PROVE  /\ ~gone /\ task[t].pc = "idle" /\ Instant(t)
         /\ \E i \in DOMAIN ctx.checkpoints : LET p == ctx.checkpoints[i] IN
               /\ Next_ctx(Random(clock), files[p.id], Until(ctx.staged, p.at), Until(ctx.checkpoints, p.at),
                           SubSeq(ctx.ops, 1, p.ops), p.recalc)
               /\ work' = files[p.id]
               /\ files' = Kept(files, Since(ctx.staged, p.at) \cup Since(ctx.checkpoints, p.at))
         /\ Responds /\ cache' = 0 /\ clock' = clock + 1 /\ UNCHANGED <<docs, gone, reads>>
<1>1. /\ ~gone /\ task[t].pc = "idle" /\ Instant(t) /\ cache' = 0 /\ clock' = clock + 1
      /\ UNCHANGED <<docs, gone, reads>>
  BY DEF CheckpointRestore, Offered, Free, Tick
<1>2. PICK i \in DOMAIN ctx.checkpoints : LET p == ctx.checkpoints[i] IN
         /\ Respond(Advanced([Synced EXCEPT !.staged = Until(@, p.at), !.checkpoints = Until(@, p.at),
                                            !.ops = SubSeq(@, 1, p.ops), !.recalc = p.recalc,
                                            !.content = files[p.id]]), files[p.id])
         /\ work' = files[p.id]
         /\ files' = Kept(files, Since(ctx.staged, p.at) \cup Since(ctx.checkpoints, p.at))
  BY Zenon DEF CheckpointRestore
<1>3. PICK p : p = ctx.checkpoints[i]
  OBVIOUS
<1>4. /\ ctx' = Advanced([Synced EXCEPT !.staged = Until(@, p.at), !.checkpoints = Until(@, p.at),
                                        !.ops = SubSeq(@, 1, p.ops), !.recalc = p.recalc,
                                        !.content = files[p.id]])
      /\ work' = files[p.id]
      /\ files' = Kept(files, Since(ctx.staged, p.at) \cup Since(ctx.checkpoints, p.at))
      /\ Responds
  BY <1>2, <1>3, Zenon DEF Respond, Responds
<1>5. PICK d : d = Synced
  OBVIOUS
<1>6. d \in Contexts /\ d.staged = ctx.staged /\ d.checkpoints = ctx.checkpoints /\ d.ops = ctx.ops
  BY <1>5, SyncedContext
<1>7. /\ p.recalc \in BOOLEAN /\ files[p.id] \in Nat /\ SubSeq(ctx.ops, 1, p.ops) \in Seq(Operations)
      /\ p.at \in Nat
  BY <1>1, <1>3, RestoredPoint
<1>8. Until(ctx.staged, p.at) \in Seq(Changes) /\ Until(ctx.checkpoints, p.at) \in Seq(Points)
  BY <1>1, <1>7, RestoredLists
<1>9. PICK x \in Seq(Changes), y \in Seq(Points), z \in Seq(Operations), n \in Nat, b \in BOOLEAN :
         /\ x = Until(ctx.staged, p.at) /\ y = Until(ctx.checkpoints, p.at)
         /\ z = SubSeq(ctx.ops, 1, p.ops) /\ n = files[p.id] /\ b = p.recalc
  BY <1>7, <1>8, Zenon
<1>10. PICK a : a = [d EXCEPT !.staged = x, !.checkpoints = y, !.ops = z, !.recalc = b, !.content = n]
  OBVIOUS
<1>11. /\ a \in Contexts /\ a.staged = x /\ a.checkpoints = y /\ a.ops = z /\ a.recalc = b /\ a.content = n
  BY <1>6, <1>10 DEF Contexts
<1>12. ctx' = Advanced(a)
  <2>1. [Synced EXCEPT !.staged = Until(@, p.at), !.checkpoints = Until(@, p.at),
                       !.ops = SubSeq(@, 1, p.ops), !.recalc = p.recalc, !.content = files[p.id]] = a
    BY <1>5, <1>6, <1>9, <1>10 DEF Contexts
  <2> QED
    BY <1>4, <2>1, Zenon
<1>13. clock \in Nat
  BY DEF Shapes
<1>14. /\ ctx' \in Contexts /\ ctx'.state = Random(clock) /\ ctx'.content = n /\ ctx'.staged = x
       /\ ctx'.checkpoints = y /\ ctx'.ops = z /\ ctx'.recalc = b
  BY <1>11, <1>12, <1>13, AdvancedContext
<1>15. Next_ctx(Random(clock), files[p.id], Until(ctx.staged, p.at), Until(ctx.checkpoints, p.at),
                SubSeq(ctx.ops, 1, p.ops), p.recalc)
  BY <1>9, <1>14, Zenon DEF Next_ctx
<1> HIDE DEF Next_ctx
<1> QED
  BY <1>1, <1>3, <1>4, <1>15, Zenon

LEMMA ExportEffect ==
  ASSUME Shapes, NEW t \in Tasks, Export(t)
  PROVE  /\ ~gone /\ task[t].pc = "idle" /\ Instant(t)
         /\ Next_ctx(Random(clock), work, ctx.staged, ctx.checkpoints, ctx.ops, ctx.recalc)
         /\ Responds /\ clock' = clock + 1 /\ UNCHANGED <<docs, work, files, gone, cache, reads>>
<1>1. /\ ~gone /\ task[t].pc = "idle" /\ Instant(t) /\ clock' = clock + 1
      /\ UNCHANGED <<docs, work, files, gone, cache, reads>>
  BY DEF Export, Offered, Free, Tick, shared
<1>2. ctx' = Advanced(Synced) /\ Responds
  BY <1>1 DEF Export, Respond, Responds
<1>3. clock \in Nat
  BY DEF Shapes
<1>4. PICK d : d = Synced
  OBVIOUS
<1>5. Next_ctx(Random(clock), work, ctx.staged, ctx.checkpoints, ctx.ops, ctx.recalc)
  BY <1>2, <1>3, <1>4, SyncedContext, AdvancedContext DEF Next_ctx
<1> QED
  BY <1>1, <1>2, <1>5

-----------------------------------------------------------------------------
(* What each step of a longer operation does.                               *)

\* The task of the next state, field by field.
Next_task(t, pc, op, kind, tok, doc, id) ==
    /\ Others(t) /\ task'[t].pc = pc /\ task'[t].op = op /\ task'[t].kind = kind
    /\ task'[t].tok = tok /\ task'[t].doc = doc /\ task'[t].id = id

Entered(t, pc, op, kind, tok, id) ==
    /\ task[t].pc = "idle" /\ Next_task(t, pc, op, kind, tok, 0, id)
    /\ (task'[t].alone <=> ~Busy(t)) /\ \A u \in Tasks \ {t} : ~task'[u].alone

\* The task goes on to pc with the content doc, the token tok and the number id.
Goes(t, pc, tok, doc, id) ==
    /\ Next_task(t, pc, task[t].op, task[t].kind, tok, doc, id)
    /\ task'[t].raise = task[t].raise /\ task'[t].alone = task[t].alone

LEMMA RequestParts ==
  ASSUME Shapes, NEW t \in Tasks
  PROVE  /\ task[t] \in Requests /\ task[t].pc \in Places /\ task[t].op \in Work
         /\ task[t].kind \in BatchTools \cup {"none", "canonical_write_bundle"}
         /\ task[t].tok \in Tokens /\ task[t].doc \in Nat /\ task[t].id \in Nat
         /\ task[t].raise \in BOOLEAN /\ task[t].alone \in BOOLEAN
<1>1. task[t] \in Requests
  BY DEF Shapes
<1> QED
  BY <1>1 DEF Requests

LEMMA UpdatedTask ==
  ASSUME Shapes, NEW t \in Tasks, NEW r \in Requests, task' = [task EXCEPT ![t] = r]
  PROVE  Others(t) /\ task'[t] = r
<1>1. task \in [Tasks -> Requests]
  BY DEF Shapes
<1>2. task'[t] = r /\ \A u \in Tasks \ {t} : task'[u] = task[u]
  BY <1>1
<1>3. task' \in [Tasks -> Requests]
  BY <1>1
<1> QED
  BY <1>2, <1>3 DEF Others, Same

LEMMA GoesOn ==
  ASSUME Shapes, NEW t \in Tasks, NEW pc \in Places, NEW tok \in Tokens, NEW doc \in Nat, NEW id \in Nat,
         task' = [task EXCEPT ![t] = [task[t] EXCEPT !.pc = pc, !.tok = tok, !.doc = doc, !.id = id]]
  PROVE  Goes(t, pc, tok, doc, id)
<1>1. PICK q \in Requests : q = task[t]
  BY RequestParts
<1>2. PICK r : r = [q EXCEPT !.pc = pc, !.tok = tok, !.doc = doc, !.id = id]
  OBVIOUS
<1>3. /\ r \in Requests /\ r.pc = pc /\ r.op = q.op /\ r.kind = q.kind /\ r.tok = tok /\ r.doc = doc
      /\ r.id = id /\ r.raise = q.raise /\ r.alone = q.alone
  BY <1>2 DEF Requests
<1>4. Others(t) /\ task'[t] = r
  BY <1>1, <1>2, <1>3, UpdatedTask
<1> QED
  BY <1>1, <1>3, <1>4, Zenon DEF Goes, Next_task

LEMMA EntersNew ==
  ASSUME Shapes, NEW t \in Tasks, task[t].pc = "idle", NEW r \in Requests, Enter(t, r), r.doc = 0
  PROVE  Entered(t, r.pc, r.op, r.kind, r.tok, r.id)
<1>1. /\ Others(t) /\ Same(task'[t], r) /\ (task'[t].alone <=> ~Busy(t))
      /\ \A u \in Tasks \ {t} : ~task'[u].alone
  BY EnterTasks
<1> QED
  BY <1>1 DEF Entered, Next_task, Same

Exits(t) == Next_task(t, "idle", "none", "none", Hash(0), 0, 0) /\ task'[t].alone = FALSE

LEMMA Leaves ==
  ASSUME Shapes, NEW t \in Tasks, Leave(t)
  PROVE  Exits(t)
<1>1. Others(t) /\ task'[t] = Idle
  BY LeaveTasks
<1>2. Idle.alone = FALSE
  BY DEF Idle
<1> QED
  BY <1>1, <1>2, IdleRequest DEF Next_task, Exits

LEMMA Moves ==
  ASSUME Shapes, NEW t \in Tasks, NEW pc \in Places, Move(t, pc)
  PROVE  Goes(t, pc, task[t].tok, task[t].doc, task[t].id)
BY MoveTasks DEF Goes, Next_task

LEMMA DiscardEffect ==
  ASSUME Shapes, NEW t \in Tasks, Discard(t)
  PROVE  /\ ~gone /\ Instant(t) /\ ctx' = Synced /\ gone' = TRUE /\ work' = 0 /\ files' = << >> /\ cache' = 0
         /\ clock' = clock + 1 /\ UNCHANGED <<docs, named, reads>>
BY DEF Discard, Cleaned, Offered, Tick

LEMMA RecalcBeginEffect ==
  ASSUME Shapes, NEW t \in Tasks, RecalcBegin(t)
  PROVE  /\ ~gone /\ ctx' = Synced /\ Entered(t, "copy", "recalculate", "none", Synced.state, 0)
         /\ clock' = clock + 1 /\ UNCHANGED <<docs, work, files, gone, cache, named, reads>>
<1>1. PICK r, x : x = Synced.state /\ r = [Idle EXCEPT !.pc = "copy", !.op = "recalculate", !.tok = x]
  OBVIOUS
<1>2. x \in Tokens
  BY <1>1, SyncedContext, ContextParts
<1>3. r \in Requests /\ r.pc = "copy" /\ r.op = "recalculate" /\ r.kind = "none" /\ r.tok = x /\ r.doc = 0 /\ r.id = 0
  BY <1>1, <1>2, IdleRequest DEF Requests, Places, CanonicalPlaces, Work
<1>4. Enter(t, r) /\ task[t].pc = "idle"
  BY <1>1, Zenon DEF RecalcBegin, Free
<1>5. Entered(t, "copy", "recalculate", "none", Synced.state, 0)
  BY <1>1, <1>3, <1>4, EntersNew
<1> QED
  BY <1>5 DEF RecalcBegin, Offered, Tick, shared

LEMMA RecalcCopyEffect ==
  ASSUME Shapes, NEW t \in Tasks, RecalcCopy(t)
  PROVE  /\ task[t].pc = "copy"
         /\ \/ Exits(t)
            \/ work # 0 /\ Goes(t, "permit", task[t].tok, work, task[t].id)
         /\ UNCHANGED <<docs, work, files, ctx, gone, cache, clock, named, reads>>
<1>1. ASSUME work # 0 PROVE Goes(t, "permit", task[t].tok, work, task[t].id)
  <2>1. task' = [task EXCEPT ![t].pc = "permit", ![t].doc = work]
    BY <1>1 DEF RecalcCopy
  <2>2. task[t] \in Requests /\ task \in [Tasks -> Requests] /\ work \in Nat
        /\ task[t].tok \in Tokens /\ task[t].id \in Nat
    BY RequestParts DEF Shapes
  <2>3. task' = [task EXCEPT ![t] = [task[t] EXCEPT !.pc = "permit", !.tok = task[t].tok, !.doc = work,
                                                    !.id = task[t].id]]
    BY <2>1, <2>2 DEF Requests
  <2> QED
    BY <2>2, <2>3, GoesOn DEF Places, CanonicalPlaces
<1> QED
  BY <1>1, Leaves DEF RecalcCopy, fork, shared

LEMMA AcquireEffect ==
  ASSUME Shapes, NEW t \in Tasks, Acquire(t)
  PROVE  /\ task[t].pc = "permit"
         /\ Goes(t, IF task[t].op = "recalculate" THEN "evaluate" ELSE "evaluate_work",
                 task[t].tok, task[t].doc, task[t].id)
         /\ UNCHANGED <<docs, work, files, ctx, gone, cache, clock, named, reads>>
<1>1. PICK pc \in Places : pc = IF task[t].op = "recalculate" THEN "evaluate" ELSE "evaluate_work"
  BY DEF Places, CanonicalPlaces
<1>2. Move(t, pc)
  BY <1>1 DEF Acquire
<1> QED
  BY <1>1, <1>2, Moves DEF Acquire, fork, shared

LEMMA RecalcCommitEffect ==
  ASSUME Shapes, NEW t \in Tasks, RecalcCommit(t)
  PROVE  /\ task[t].pc = "evaluate" /\ UNCHANGED <<files, gone, cache, reads>>
         /\ \/ gone /\ Exits(t) /\ UNCHANGED <<docs, work, ctx, clock, named>>
            \/ ~gone /\ Exits(t) /\ ctx' = Synced /\ UNCHANGED <<docs, work, clock, named>>
            \/ /\ ~gone /\ Synced.state = task[t].tok
               /\ \E complete \in BOOLEAN, o \in Operations, n \in Nat :
                     /\ o.edit = 0
                     /\ Next_ctx(Random(clock), Len(docs) + 1, ctx.staged, ctx.checkpoints,
                                 Append(ctx.ops, o), ~complete)
                     /\ docs' = Append(docs, [docs[task[t].doc] EXCEPT !.fresh = complete])
                     /\ Goes(t, "record", Random(clock), task[t].doc, n)
               /\ work' = Len(docs) + 1 /\ Responds /\ clock' = clock + 1
<1>1. task[t].pc = "evaluate" /\ UNCHANGED <<files, gone, cache, reads>>
  BY DEF RecalcCommit, fork, shared
<1>2. CASE gone
  BY <1>1, <1>2, Leaves DEF RecalcCommit, fork
<1>3. CASE ~gone /\ Synced.state # task[t].tok
  BY <1>1, <1>3, Leaves DEF RecalcCommit
<1>4. CASE ~gone /\ Synced.state = task[t].tok
  <2>1. PICK complete \in BOOLEAN :
           LET c == Pushed(Advanced([Synced EXCEPT !.content = Len(docs) + 1, !.recalc = ~complete]), 0)
           IN  /\ docs' = Append(docs, [docs[task[t].doc] EXCEPT !.fresh = complete])
               /\ work' = Len(docs) + 1
               /\ Respond(c, Len(docs) + 1)
               /\ task' = [task EXCEPT ![t].pc = "record", ![t].tok = c.state,
                                       ![t].id = IF complete THEN 1 ELSE 0]
               /\ clock' = clock + 1
    BY <1>4, Zenon DEF RecalcCommit, Tick
  <2>2. PICK flag \in BOOLEAN : flag = ~complete
    OBVIOUS
  <2>3. PICK c : c = Revised(flag, 0)
    OBVIOUS
  <2>4. /\ docs' = Append(docs, [docs[task[t].doc] EXCEPT !.fresh = complete])
        /\ work' = Len(docs) + 1 /\ clock' = clock + 1
        /\ Respond(c, Len(docs) + 1)
        /\ task' = [task EXCEPT ![t].pc = "record", ![t].tok = c.state,
                                ![t].id = IF complete THEN 1 ELSE 0]
    BY <2>1, <2>2, <2>3, Zenon DEF Revised
  <2>5. RevisedFields(c, flag, 0)
    <3>1. RevisedFields(Revised(flag, 0), flag, 0)
      BY RevisedContext
    <3> QED
      BY <2>3, <3>1
  <2>6. PICK o \in Operations : o.edit = 0 /\ c.ops = Append(ctx.ops, o)
    BY <2>5 DEF RevisedFields
  <2>7. /\ c \in Contexts /\ c.state = Random(clock) /\ c.content = Len(docs) + 1
        /\ c.staged = ctx.staged /\ c.checkpoints = ctx.checkpoints /\ c.recalc = flag
    BY <2>5 DEF RevisedFields
  <2>8. ctx' = c /\ Responds
    BY <2>4 DEF Respond, Responds
  <2>9. Next_ctx(Random(clock), Len(docs) + 1, ctx.staged, ctx.checkpoints, Append(ctx.ops, o), ~complete)
    BY <2>2, <2>6, <2>7, <2>8, Zenon DEF Next_ctx
  <2>10. PICK n \in Nat : n = IF complete THEN 1 ELSE 0
    OBVIOUS
  <2>11. task \in [Tasks -> Requests] /\ task[t] \in Requests /\ task[t].doc \in Nat /\ Random(clock) \in Tokens
    <3>1. clock \in Nat
      BY DEF Shapes
    <3> QED
      BY <3>1, RequestParts DEF Shapes, Random, Tokens
  <2>12. PICK x \in Tokens : x = Random(clock) /\ x = c.state
    BY <2>7, <2>11
  <2>13. task' = [task EXCEPT ![t] = [task[t] EXCEPT !.pc = "record", !.tok = x, !.doc = task[t].doc, !.id = n]]
    <3>1. task' = [task EXCEPT ![t].pc = "record", ![t].tok = x, ![t].id = n]
      BY <2>4, <2>10, <2>12, Zenon
    <3> QED
      BY <2>11, <3>1 DEF Requests
  <2>14. Goes(t, "record", Random(clock), task[t].doc, n)
    BY <2>11, <2>12, <2>13, GoesOn DEF Places, CanonicalPlaces
  <2> HIDE DEF Next_ctx, Goes, Random
  <2>15. \E b \in BOOLEAN, q \in Operations, m \in Nat :
                     /\ q.edit = 0
                     /\ Next_ctx(Random(clock), Len(docs) + 1, ctx.staged, ctx.checkpoints,
                                 Append(ctx.ops, q), ~b)
                     /\ docs' = Append(docs, [docs[task[t].doc] EXCEPT !.fresh = b])
                     /\ Goes(t, "record", Random(clock), task[t].doc, m)
    BY <2>4, <2>6, <2>9, <2>14, Zenon
  <2> QED
    BY <1>1, <1>4, <2>4, <2>8, <2>15, Zenon
<1> QED
  BY <1>2, <1>3, <1>4, Zenon

LEMMA RecordEffect ==
  ASSUME Shapes, NEW t \in Tasks, Record(t) \/ Revoke(t)
  PROVE  /\ task[t].pc \in {"record", "revoke"} /\ Goes(t, "close", task[t].tok, task[t].doc, task[t].id)
         /\ UNCHANGED <<docs, work, files, ctx, gone, cache, clock, named, reads>>
<1>1. "close" \in Places /\ Move(t, "close")
  BY DEF Places, CanonicalPlaces, Record, Revoke
<1>2. Goes(t, "close", task[t].tok, task[t].doc, task[t].id)
  BY <1>1, Moves
<1> QED
  BY <1>2 DEF Record, Revoke, fork

LEMMA CloseEffect ==
  ASSUME Shapes, NEW t \in Tasks, Close(t)
  PROVE  /\ task[t].pc = "close" /\ Exits(t) /\ cache' \in {cache, 0}
         /\ UNCHANGED <<docs, work, files, ctx, gone, clock, named, reads>>
BY Leaves DEF Close, fork

LEMMA ReadBeginEffect ==
  ASSUME Shapes, NEW t \in Tasks, ReadBegin(t)
  PROVE  /\ ~gone /\ Entered(t, "open1", "read", "none", Hash(0), 0) /\ clock' = clock + 1
         /\ UNCHANGED <<docs, work, files, ctx, gone, cache, named, reads>>
<1>1. PICK r : r = [Idle EXCEPT !.pc = "open1", !.op = "read"]
  OBVIOUS
<1>2. r \in Requests /\ r.pc = "open1" /\ r.op = "read" /\ r.kind = "none" /\ r.tok = Hash(0) /\ r.doc = 0 /\ r.id = 0
  BY <1>1, IdleRequest DEF Requests, Places, CanonicalPlaces, Work
<1>3. Enter(t, r) /\ task[t].pc = "idle"
  BY <1>1, Zenon DEF ReadBegin, Free
<1>4. Entered(t, "open1", "read", "none", Hash(0), 0)
  BY <1>2, <1>3, EntersNew
<1> QED
  BY <1>4 DEF ReadBegin, Offered, Tick, fork, shared

\* A step that sets the place and the content.
LEMMA GoesWithDoc ==
  ASSUME Shapes, NEW t \in Tasks, NEW pc \in Places, NEW doc \in Nat,
         task' = [task EXCEPT ![t].pc = pc, ![t].doc = doc]
  PROVE  Goes(t, pc, task[t].tok, doc, task[t].id)
<1>1. task[t] \in Requests /\ task \in [Tasks -> Requests] /\ task[t].tok \in Tokens /\ task[t].id \in Nat
  BY RequestParts DEF Shapes
<1>2. task' = [task EXCEPT ![t] = [task[t] EXCEPT !.pc = pc, !.tok = task[t].tok, !.doc = doc, !.id = task[t].id]]
  BY <1>1 DEF Requests
<1> QED
  BY <1>1, <1>2, GoesOn

LEMMA GoesWithToken ==
  ASSUME Shapes, NEW t \in Tasks, NEW pc \in Places, NEW tok \in Tokens,
         task' = [task EXCEPT ![t].pc = pc, ![t].tok = tok]
  PROVE  Goes(t, pc, tok, task[t].doc, task[t].id)
<1>1. task[t] \in Requests /\ task \in [Tasks -> Requests] /\ task[t].doc \in Nat /\ task[t].id \in Nat
  BY RequestParts DEF Shapes
<1>2. task' = [task EXCEPT ![t] = [task[t] EXCEPT !.pc = pc, !.tok = tok, !.doc = task[t].doc, !.id = task[t].id]]
  BY <1>1 DEF Requests
<1> QED
  BY <1>1, <1>2, GoesOn

LEMMA OpenEffect ==
  ASSUME Shapes, NEW t \in Tasks, Open(t)
  PROVE  /\ task[t].pc \in Opening
         /\ \/ gone /\ Exits(t)
            \/ ~gone /\ cache # 0 /\ Goes(t, Then(task[t].pc), task[t].tok, cache, task[t].id)
            \/ ~gone /\ cache = 0 /\ Goes(t, PutFor(task[t].pc), task[t].tok, work, task[t].id)
         /\ UNCHANGED <<docs, work, files, ctx, gone, cache, clock, named, reads>>
<1>1. task[t].pc \in Opening /\ UNCHANGED <<docs, work, files, ctx, gone, cache, clock, named, reads>>
  BY DEF Open, fork, shared
<1>2. cache \in Nat /\ work \in Nat /\ task \in [Tasks -> Requests] /\ task[t] \in Requests
  BY RequestParts DEF Shapes
<1>3. Then(task[t].pc) \in Places /\ PutFor(task[t].pc) \in Places
  BY <1>1 DEF Opening, Then, PutFor, Places, CanonicalPlaces
<1>4. CASE gone
  BY <1>1, <1>4, Leaves DEF Open
<1>5. CASE ~gone /\ cache # 0
  <2>1. task' = [task EXCEPT ![t].pc = Then(@), ![t].doc = cache]
    BY <1>5 DEF Open
  <2> HIDE DEF Then
  <2>2. task' = [task EXCEPT ![t].pc = Then(task[t].pc), ![t].doc = cache]
    BY <1>2, <2>1 DEF Requests
  <2> QED
    BY <1>1, <1>2, <1>3, <1>5, <2>2, GoesWithDoc
<1>6. CASE ~gone /\ cache = 0
  <2>1. task' = [task EXCEPT ![t].pc = PutFor(@), ![t].doc = work]
    BY <1>6 DEF Open
  <2> HIDE DEF PutFor
  <2>2. task' = [task EXCEPT ![t].pc = PutFor(task[t].pc), ![t].doc = work]
    BY <1>2, <2>1 DEF Requests
  <2> QED
    BY <1>1, <1>2, <1>3, <1>6, <2>2, GoesWithDoc
<1> QED
  BY <1>4, <1>5, <1>6

LEMMA PutEffect ==
  ASSUME Shapes, NEW t \in Tasks, Put(t)
  PROVE  /\ task[t].pc \in Putting /\ cache' = task[t].doc
         /\ Goes(t, Then(OpenFor(task[t].pc)), task[t].tok, task[t].doc, task[t].id)
         /\ UNCHANGED <<docs, work, files, ctx, gone, clock, named, reads>>
<1>1. task[t].pc \in Putting /\ cache' = task[t].doc /\ Move(t, Then(OpenFor(task[t].pc)))
      /\ UNCHANGED <<docs, work, files, ctx, gone, clock, named, reads>>
  BY DEF Put, fork
<1>2. Then(OpenFor(task[t].pc)) \in Places
  BY <1>1 DEF Putting, Then, OpenFor, Places, CanonicalPlaces
<1>3. PICK pc \in Places : pc = Then(OpenFor(task[t].pc))
  BY <1>2
<1>4. Move(t, pc)
  BY <1>1, <1>3
<1> QED
  BY <1>1, <1>3, <1>4, Moves

LEMMA IdentifyEffect ==
  ASSUME Shapes, NEW t \in Tasks, Identify(t)
  PROVE  /\ task[t].pc = "identify"
         /\ \/ gone /\ Exits(t) /\ UNCHANGED <<ctx, cache, named>>
            \/ /\ ~gone /\ ctx' = Synced /\ Responds
               /\ \/ /\ task[t].doc # work /\ cache' = 0
                     /\ Goes(t, "open2", Synced.state, task[t].doc, task[t].id)
                  \/ /\ task[t].doc = work /\ cache' = cache
                     /\ Goes(t, "open3", Synced.state, task[t].doc, task[t].id)
         /\ UNCHANGED <<docs, work, files, gone, clock, reads>>
<1>1. task[t].pc = "identify" /\ UNCHANGED <<docs, work, files, gone, clock, reads>>
  BY DEF Identify
<1>2. CASE gone
  BY <1>1, <1>2, Leaves DEF Identify
<1>3. CASE ~gone
  <2>1. ctx' = Synced /\ Responds
    BY <1>1, <1>3 DEF Identify, Respond, Responds
  <2>2. PICK x \in Tokens : x = Synced.state
    BY SyncedContext, ContextParts
  <2>3. Synced.content = work
    BY SyncedContext
  <2>4. CASE task[t].doc # work
    <3>1. cache' = 0 /\ task' = [task EXCEPT ![t].pc = "open2", ![t].tok = x]
      BY <1>3, <2>2, <2>3, <2>4, Zenon DEF Identify
    <3>2. Goes(t, "open2", x, task[t].doc, task[t].id)
      BY <3>1, GoesWithToken DEF Places, CanonicalPlaces
    <3> QED
      BY <1>1, <1>3, <2>1, <2>2, <2>4, <3>1, <3>2
  <2>5. CASE task[t].doc = work
    <3>1. cache' = cache /\ task' = [task EXCEPT ![t].pc = "open3", ![t].tok = x]
      BY <1>3, <2>2, <2>3, <2>5, Zenon DEF Identify
    <3>2. Goes(t, "open3", x, task[t].doc, task[t].id)
      BY <3>1, GoesWithToken DEF Places, CanonicalPlaces
    <3> QED
      BY <1>1, <1>3, <2>1, <2>2, <2>5, <3>1, <3>2
  <2> QED
    BY <2>4, <2>5
<1> QED
  BY <1>2, <1>3

LEMMA AnswerEffect ==
  ASSUME Shapes, NEW t \in Tasks, Answer(t)
  PROVE  /\ task[t].pc = "answer" /\ Exits(t)
         /\ reads' = reads \cup {[tok |-> task[t].tok, doc |-> task[t].doc, alone |-> task[t].alone]}
         /\ UNCHANGED <<docs, work, files, ctx, gone, cache, clock, named>>
BY Leaves DEF Answer, fork, shared

LEMMA BatchBeginEffect ==
  ASSUME Shapes, NEW t \in Tasks, BatchBegin(t)
  PROVE  /\ ~gone
         /\ \E k \in Batches, mode \in {"apply", "preview"}, pc \in {"open", "load"} :
               Entered(t, pc, mode, k, Hash(0), clock)
         /\ clock' = clock + 1 /\ UNCHANGED <<docs, work, files, ctx, gone, cache, named, reads>>
<1>1. PICK k \in Batches, mode \in {"apply", "preview"} :
         Enter(t, [Idle EXCEPT !.pc = IF Handler(k).opens THEN "open" ELSE "load",
                               !.op = mode, !.kind = k, !.id = clock,
                               !.raise = k \in {"structure_batch", "move_values"} /\ ctx.recalc])
  BY DEF BatchBegin
<1>2. PICK pc \in {"open", "load"} : pc = IF Handler(k).opens THEN "open" ELSE "load"
  OBVIOUS
<1>3. PICK b \in BOOLEAN : b = (k \in {"structure_batch", "move_values"} /\ ctx.recalc)
  OBVIOUS
<1>4. PICK r : r = [Idle EXCEPT !.pc = pc, !.op = mode, !.kind = k, !.id = clock, !.raise = b]
  OBVIOUS
<1>5. k \in BatchTools /\ clock \in Nat
  BY ForkLifecycleAssumption DEF Shapes, Batches
<1>6. r \in Requests /\ r.pc = pc /\ r.op = mode /\ r.kind = k /\ r.tok = Hash(0) /\ r.doc = 0 /\ r.id = clock
  BY <1>4, <1>5, IdleRequest DEF Requests, Places, CanonicalPlaces, Work
<1>7. Enter(t, r) /\ task[t].pc = "idle"
  <2>1. Enter(t, r)
    BY <1>1, <1>2, <1>3, <1>4, Zenon
  <2> QED
    BY <2>1 DEF BatchBegin, Free
<1>8. Entered(t, pc, mode, k, Hash(0), clock)
  BY <1>6, <1>7, EntersNew
<1> QED
  BY <1>8 DEF BatchBegin, Tick, fork, shared

LEMMA LoadEffect ==
  ASSUME Shapes, NEW t \in Tasks, Load(t)
  PROVE  /\ task[t].pc = "load"
         /\ \/ work = 0 /\ Exits(t) /\ UNCHANGED files
            \/ /\ work # 0 /\ task[t].op = "preview"
               /\ Goes(t, "stage", task[t].tok, work, task[t].id) /\ files' = With(files, task[t].id, work)
            \/ /\ work # 0 /\ task[t].op # "preview"
               /\ Goes(t, "save", task[t].tok, work, task[t].id) /\ UNCHANGED files
         /\ UNCHANGED <<docs, work, ctx, gone, cache, clock, named, reads>>
<1>1. task[t].pc = "load" /\ UNCHANGED <<docs, work, ctx, gone, cache, clock, named, reads>> /\ work \in Nat
  BY DEF Load, shared, Shapes
<1>2. CASE work = 0
  BY <1>1, <1>2, Leaves DEF Load
<1>3. CASE work # 0 /\ task[t].op = "preview"
  <2>1. task' = [task EXCEPT ![t].pc = "stage", ![t].doc = work] /\ files' = With(files, task[t].id, work)
    BY <1>3, Zenon DEF Load
  <2>2. Goes(t, "stage", task[t].tok, work, task[t].id)
    BY <1>1, <2>1, GoesWithDoc DEF Places, CanonicalPlaces
  <2> QED
    BY <1>1, <1>3, <2>1, <2>2
<1>4. CASE work # 0 /\ task[t].op # "preview"
  <2>1. task' = [task EXCEPT ![t].pc = "save", ![t].doc = work] /\ files' = files
    BY <1>4, Zenon DEF Load
  <2>2. Goes(t, "save", task[t].tok, work, task[t].id)
    BY <1>1, <2>1, GoesWithDoc DEF Places, CanonicalPlaces
  <2> QED
    BY <1>1, <1>4, <2>1, <2>2
<1> QED
  BY <1>2, <1>3, <1>4

LEMMA AddStagedEffect ==
  ASSUME Shapes, Lists, NEW t \in Tasks, AddStaged(t)
  PROVE  /\ task[t].pc = "stage" /\ Exits(t) /\ UNCHANGED <<docs, work, gone, cache, named, reads>>
         /\ \/ gone /\ UNCHANGED <<ctx, files, clock>>
            \/ /\ ~gone
               /\ \E e \in Changes, r \in Seq(Changes), s \in Seq(Changes) :
                     /\ e.id = task[t].id /\ e.at = clock /\ e.kind = task[t].kind /\ s = Append(ctx.staged, e)
                     /\ Once(s) /\ Left(r, s, Ids(s) \ Ids(r))
                     /\ Lists_ctx(r, ctx.checkpoints)
                     /\ files' = Kept(files, Ids(s) \ Ids(r))
               /\ clock' = clock + 1
<1>1. task[t].pc = "stage" /\ Exits(t) /\ UNCHANGED <<docs, work, gone, cache, named, reads>>
  BY Leaves DEF AddStaged, shared
<1>2. CASE gone
  BY <1>1, <1>2 DEF AddStaged
<1>3. CASE ~gone
  <2>1. PICK e : e = [id |-> task[t].id, at |-> clock, kind |-> task[t].kind, base |-> task[t].doc]
    OBVIOUS
  <2>2. PICK s : s = Append(ctx.staged, e)
    OBVIOUS
  <2>3. PICK r : r = StagedKept(s)
    OBVIOUS
  <2>4. /\ ctx' = Advanced([ctx EXCEPT !.staged = r]) /\ files' = Kept(files, Ids(s) \ Ids(r))
        /\ clock' = clock + 1
    BY <1>3, <2>1, <2>2, <2>3, Zenon DEF AddStaged, Tick
  <2>5. task[t].op = "preview"
    BY <1>1, <1>3 DEF Lists, FilesListed
  <2>6. /\ task[t].kind \in BatchTools
        /\ \A f \in Entries(ctx.staged) : task[t].id # f.id
    BY <1>3, <2>5 DEF Lists, IdentifiersOnce
  <2>7. task[t].kind \in BatchTools /\ task[t].id \in Nat /\ task[t].doc \in Nat /\ clock \in Nat /\ load \in Workloads
    BY <2>6, RequestParts DEF Shapes
  <2>8. e \in Changes /\ e.id = task[t].id /\ e.at = clock /\ e.kind = task[t].kind
    BY <2>1, <2>7 DEF Changes
  <2>9. ctx.staged \in Seq(Changes) /\ Once(ctx.staged) /\ ctx \in Contexts
    BY <1>3, ContextParts DEF Shapes, Lists
  <2>10. s \in Seq(Changes) /\ s # << >>
    BY <2>2, <2>8, <2>9
  <2>11. e.id \notin Ids(ctx.staged)
    <3>1. \A x : x \in Ids(ctx.staged) => \E f \in Entries(ctx.staged) : f.id = x
      BY IdsOfEntries
    <3> QED
      BY <2>6, <2>8, <3>1
  <2>12. Once(s)
    BY <2>2, <2>8, <2>9, <2>11, AppendedOnce
  <2>13. r \in Seq(Changes) /\ Left(r, s, Ids(s) \ Ids(r))
    BY <2>3, <2>7, <2>10, <2>12, StagedLimit
  <2>14. PICK c : c = ctx'
    OBVIOUS
  <2>15. /\ c \in Contexts /\ c.state = Random(clock)
         /\ c.staged = r /\ c.checkpoints = ctx.checkpoints /\ c.ops = ctx.ops /\ c.recalc = ctx.recalc
    BY <2>4, <2>9, <2>13, <2>14, StagedContext
  <2>16. Lists_ctx(r, ctx.checkpoints)
    BY <2>14, <2>15 DEF Lists_ctx
  <2>17. \E f \in Changes, q \in Seq(Changes), l \in Seq(Changes) :
                     /\ f.id = task[t].id /\ f.at = clock /\ f.kind = task[t].kind /\ l = Append(ctx.staged, f)
                     /\ Once(l) /\ Left(q, l, Ids(l) \ Ids(q))
                     /\ Lists_ctx(q, ctx.checkpoints)
                     /\ files' = Kept(files, Ids(l) \ Ids(q))
    <3> HIDE DEF Lists_ctx
    <3> QED
      BY <2>2, <2>4, <2>8, <2>10, <2>12, <2>13, <2>16
  <2> QED
    BY <1>1, <1>3, <2>4, <2>17
<1> QED
  BY <1>2, <1>3

LEMMA SaveEffect ==
  ASSUME Shapes, NEW t \in Tasks, Save(t)
  PROVE  /\ task[t].pc = "save" /\ docs' = NewDoc(task[t].doc, {task[t].id}, Kind(t).stales)
         /\ work' = Len(docs) + 1
         /\ \/ /\ Kind(t).flags \/ task[t].raise
               /\ Goes(t, "flag", task[t].tok, task[t].doc, task[t].id)
            \/ /\ ~(Kind(t).flags \/ task[t].raise)
               /\ \E pc \in {"consume", "close"} : Goes(t, pc, task[t].tok, task[t].doc, task[t].id)
            \/ task[t].kind = "grid_import" /\ Exits(t)
         /\ UNCHANGED <<files, ctx, gone, cache, clock, named, reads>>
<1>1. /\ task[t].pc = "save" /\ docs' = NewDoc(task[t].doc, {task[t].id}, Kind(t).stales)
      /\ work' = Len(docs) + 1 /\ UNCHANGED <<files, ctx, gone, cache, clock, named, reads>>
  BY DEF Save, shared
<1>2. CASE task[t].kind = "grid_import" /\ Leave(t)
  BY <1>1, <1>2, Leaves
<1>3. CASE Move(t, IF Kind(t).flags \/ task[t].raise THEN "flag"
                   ELSE IF task[t].op = "replay" THEN "consume" ELSE "close")
  <2>1. {"flag", "consume", "close"} \subseteq Places
    BY DEF Places, CanonicalPlaces
  <2>2. CASE Kind(t).flags \/ task[t].raise
    <3>1. Move(t, "flag")
      BY <1>3, <2>2
    <3> QED
      BY <1>1, <2>1, <2>2, <3>1, Moves
  <2>3. CASE ~(Kind(t).flags \/ task[t].raise)
    <3>1. PICK pc \in {"consume", "close"} : Move(t, pc)
      BY <1>3, <2>3
    <3>2. pc \in Places
      BY <2>1
    <3>3. Goes(t, pc, task[t].tok, task[t].doc, task[t].id)
      BY <3>1, <3>2, Moves
    <3> QED
      BY <1>1, <2>3, <3>3
  <2> QED
    BY <2>2, <2>3
<1> QED
  BY <1>2, <1>3 DEF Save

LEMMA FlagEffect ==
  ASSUME Shapes, NEW t \in Tasks, Flag(t)
  PROVE  /\ task[t].pc = "flag"
         /\ \/ gone /\ Exits(t) /\ UNCHANGED ctx
            \/ /\ ~gone /\ Next_ctx(ctx.state, ctx.content, ctx.staged, ctx.checkpoints, ctx.ops, TRUE)
               /\ \E pc \in {"consume", "close"} : Goes(t, pc, task[t].tok, task[t].doc, task[t].id)
         /\ UNCHANGED <<docs, work, files, gone, cache, clock, named, reads>>
<1>1. task[t].pc = "flag" /\ UNCHANGED <<docs, work, files, gone, cache, clock, named, reads>> /\ ctx \in Contexts
  BY DEF Flag, shared, Shapes
<1>2. CASE gone
  BY <1>1, <1>2, Leaves DEF Flag
<1>3. CASE ~gone
  <2>1. ctx' = [ctx EXCEPT !.recalc = TRUE]
    BY <1>3 DEF Flag
  <2>2. Next_ctx(ctx.state, ctx.content, ctx.staged, ctx.checkpoints, ctx.ops, TRUE)
    BY <1>1, <2>1 DEF Next_ctx, Contexts
  <2>3. PICK pc \in {"consume", "close"} : Move(t, pc)
    BY <1>3 DEF Flag
  <2>4. pc \in Places
    BY DEF Places, CanonicalPlaces
  <2>5. Goes(t, pc, task[t].tok, task[t].doc, task[t].id)
    BY <2>3, <2>4, Moves
  <2> QED
    BY <1>1, <1>3, <2>2, <2>5
<1> QED
  BY <1>2, <1>3

LEMMA ApplyStagedEffect ==
  ASSUME Shapes, NEW t \in Tasks, ApplyStaged(t)
  PROVE  /\ ~gone
         /\ \E i \in DOMAIN ctx.staged :
               /\ ~Bundle(ctx.staged[i]) /\ ctx.staged[i].kind \in BatchTools
               /\ Entered(t, "load", "replay", ctx.staged[i].kind, Hash(0), ctx.staged[i].id)
         /\ clock' = clock + 1 /\ UNCHANGED <<docs, work, files, ctx, gone, cache, named, reads>>
<1>1. PICK i \in DOMAIN ctx.staged :
         /\ ctx.staged[i].kind \in Replayable \ {"canonical_write_bundle"}
         /\ Enter(t, [Idle EXCEPT !.pc = "load", !.op = "replay", !.kind = ctx.staged[i].kind,
                                  !.id = ctx.staged[i].id, !.raise = ctx.recalc])
  BY DEF ApplyStaged
<1>2. ctx.staged[i] \in Changes /\ ctx.recalc \in BOOLEAN
  BY ContextParts DEF Shapes
<1>3. PICK b \in BOOLEAN : b = ctx.recalc
  BY <1>2, Zenon
<1> DEFINE k == ctx.staged[i].kind
           n == ctx.staged[i].id
<1>4. k \in BatchTools \cup {"canonical_write_bundle"} /\ n \in Nat
  BY <1>2, <1>3 DEF Changes
<1>5. PICK r : r = [Idle EXCEPT !.pc = "load", !.op = "replay", !.kind = k, !.id = n, !.raise = b]
  OBVIOUS
<1>6. r \in Requests /\ r.pc = "load" /\ r.op = "replay" /\ r.kind = k /\ r.tok = Hash(0) /\ r.doc = 0 /\ r.id = n
  BY <1>4, <1>5, IdleRequest DEF Requests, Places, CanonicalPlaces, Work
<1>7. Enter(t, r)
  BY <1>1, <1>3, <1>5, Zenon
<1>8. task[t].pc = "idle"
  BY DEF ApplyStaged, Free
<1>9. Entered(t, "load", "replay", k, Hash(0), n)
  BY <1>6, <1>7, <1>8, EntersNew
<1>10. ~Bundle(ctx.staged[i]) /\ k \in BatchTools
  BY <1>1, <1>4 DEF Bundle
<1>11. ~gone /\ clock' = clock + 1 /\ UNCHANGED <<docs, work, files, ctx, gone, cache, named, reads>>
  BY DEF ApplyStaged, Tick, fork, shared
<1> QED
  BY <1>3, <1>9, <1>10, <1>11

LEMMA ApplyBundleEffect ==
  ASSUME Shapes, NEW t \in Tasks, ApplyBundle(t)
  PROVE  /\ ~gone
         /\ Next_ctx(Random(clock), Len(docs) + 1, ctx.staged, ctx.checkpoints, ctx.ops, TRUE)
         /\ \E i \in DOMAIN ctx.staged, pc \in {"flag", "consume"} :
               Entered(t, pc, "replay", "canonical_write_bundle", Hash(0), ctx.staged[i].id)
         /\ docs' = NewDoc(work, {clock}, TRUE) /\ work' = Len(docs) + 1
         /\ clock' = clock + 1 /\ UNCHANGED <<files, gone, cache, named, reads>>
<1>1. PICK i \in DOMAIN ctx.staged :
         /\ ctx' = Advanced([Synced EXCEPT !.content = Len(docs) + 1, !.recalc = TRUE])
         /\ Enter(t, [Idle EXCEPT !.pc = IF ctx.recalc THEN "flag" ELSE "consume",
                                  !.op = "replay", !.kind = "canonical_write_bundle",
                                  !.id = ctx.staged[i].id])
  BY DEF ApplyBundle
<1>2. ctx.staged[i] \in Changes /\ clock \in Nat /\ Len(docs) + 1 \in Nat
  BY ContextParts DEF Shapes
<1>3. PICK pc \in {"flag", "consume"} : pc = IF ctx.recalc THEN "flag" ELSE "consume"
  OBVIOUS
<1> DEFINE n == ctx.staged[i].id
<1>4. n \in Nat
  BY <1>2, <1>3 DEF Changes
<1>5. PICK r : r = [Idle EXCEPT !.pc = pc, !.op = "replay", !.kind = "canonical_write_bundle", !.id = n]
  OBVIOUS
<1>6. /\ r \in Requests /\ r.pc = pc /\ r.op = "replay" /\ r.kind = "canonical_write_bundle"
      /\ r.tok = Hash(0) /\ r.doc = 0 /\ r.id = n
  BY <1>4, <1>5, IdleRequest DEF Requests, Places, CanonicalPlaces, Work
<1>7. Enter(t, r)
  BY <1>1, <1>3, <1>5, Zenon
<1>8. task[t].pc = "idle"
  BY DEF ApplyBundle, Free
<1>9. Entered(t, pc, "replay", "canonical_write_bundle", Hash(0), n)
  BY <1>6, <1>7, <1>8, EntersNew
<1>10. PICK d \in Contexts, m \in Nat :
          /\ d = Synced /\ d.staged = ctx.staged /\ d.checkpoints = ctx.checkpoints /\ d.ops = ctx.ops
          /\ m = Len(docs) + 1
  BY <1>2, SyncedContext
<1>11. PICK a : a = [d EXCEPT !.content = m, !.recalc = TRUE]
  OBVIOUS
<1>12. /\ a \in Contexts /\ a.content = m /\ a.recalc = TRUE /\ a.staged = d.staged
       /\ a.checkpoints = d.checkpoints /\ a.ops = d.ops
  BY <1>11 DEF Contexts
<1>13. ctx' = Advanced(a)
  BY <1>1, <1>10, <1>11, Zenon
<1>14. Next_ctx(Random(clock), Len(docs) + 1, ctx.staged, ctx.checkpoints, ctx.ops, TRUE)
  BY <1>2, <1>10, <1>12, <1>13, AdvancedContext DEF Next_ctx
<1>15. /\ ~gone /\ docs' = NewDoc(work, {clock}, TRUE) /\ work' = Len(docs) + 1
       /\ clock' = clock + 1 /\ UNCHANGED <<files, gone, cache, named, reads>>
  BY DEF ApplyBundle, Tick, shared
<1> QED
  BY <1>3, <1>9, <1>14, <1>15

LEMMA ConsumeEffect ==
  ASSUME Shapes, Lists, NEW t \in Tasks, Consume(t)
  PROVE  /\ task[t].pc = "consume" /\ UNCHANGED <<docs, work, gone, cache, named, reads>>
         /\ \/ Exits(t) /\ UNCHANGED <<ctx, files, clock>>
            \/ /\ ~gone /\ DropsChange /\ clock' = clock + 1
               /\ Goes(t, "close", task[t].tok, task[t].doc, task[t].id)
<1>1. task[t].pc = "consume" /\ UNCHANGED <<docs, work, gone, cache, named, reads>>
  BY DEF Consume, shared
<1>2. CASE gone \/ task[t].id \notin Ids(ctx.staged)
  BY <1>1, <1>2, Leaves DEF Consume
<1>3. CASE ~(gone \/ task[t].id \notin Ids(ctx.staged))
  <2>1. PICK x : x = task[t].id
    OBVIOUS
  <2>2. ctx.staged \in Seq(Changes) /\ Once(ctx.staged) /\ ctx \in Contexts
    BY <1>3, ContextParts DEF Shapes, Lists
  <2>3. PICK r \in Seq(Changes) : r = Retained(ctx.staged, {i \in DOMAIN ctx.staged : ctx.staged[i].id # x})
                                  /\ Left(r, ctx.staged, {x})
    BY <2>2, OtherList
  <2>4. ctx' = Advanced([ctx EXCEPT !.staged = r])
    <3>1. ctx' = Advanced([ctx EXCEPT !.staged = Retained(@, {i \in DOMAIN @ : @[i].id # task[t].id})])
      BY <1>3, Zenon DEF Consume
    <3>2. [ctx EXCEPT !.staged = Retained(@, {i \in DOMAIN @ : @[i].id # task[t].id})]
             = [ctx EXCEPT !.staged = Retained(ctx.staged, {i \in DOMAIN ctx.staged : ctx.staged[i].id # task[t].id})]
      BY <2>2, Zenon DEF Contexts
    <3> QED
      BY <2>1, <2>3, <3>1, <3>2
  <2>5. files' = Kept(files, {x}) /\ Move(t, "close") /\ clock' = clock + 1
    BY <1>3, <2>1, Zenon DEF Consume, Tick
  <2>6. "close" \in Places
    BY DEF Places, CanonicalPlaces
  <2>7. Goes(t, "close", task[t].tok, task[t].doc, task[t].id)
    BY <2>5, <2>6, Moves
  <2>8. PICK c : c = ctx'
    OBVIOUS
  <2>9. /\ c \in Contexts /\ c.state = Random(clock) /\ c.staged = r /\ c.checkpoints = ctx.checkpoints
        /\ c.ops = ctx.ops /\ c.recalc = ctx.recalc
    BY <2>2, <2>3, <2>4, <2>8, StagedContext
  <2>10. Lists_ctx(r, ctx.checkpoints)
    BY <2>8, <2>9 DEF Lists_ctx
  <2>11. PICK i \in DOMAIN ctx.staged : ctx.staged[i].id = x
    BY <1>3, <2>1 DEF Ids
  <2>12. DropsChange
    BY <2>3, <2>5, <2>10, <2>11 DEF DropsChange
  <2> QED
    BY <1>1, <1>3, <2>5, <2>7, <2>12
<1> QED
  BY <1>2, <1>3

LEMMA EvaluateBeginEffect ==
  ASSUME Shapes, NEW t \in Tasks, EvaluateBegin(t)
  PROVE  /\ ~gone /\ Entered(t, "permit", "evaluate", "none", Hash(0), 0) /\ clock' = clock + 1
         /\ UNCHANGED <<docs, work, files, ctx, gone, cache, named, reads>>
<1>1. PICK r : r = [Idle EXCEPT !.pc = "permit", !.op = "evaluate"]
  OBVIOUS
<1>2. /\ r \in Requests /\ r.pc = "permit" /\ r.op = "evaluate" /\ r.kind = "none" /\ r.tok = Hash(0)
      /\ r.doc = 0 /\ r.id = 0
  BY <1>1, IdleRequest DEF Requests, Places, CanonicalPlaces, Work
<1>3. Enter(t, r) /\ task[t].pc = "idle"
  BY <1>1, Zenon DEF EvaluateBegin, Free
<1>4. Entered(t, "permit", "evaluate", "none", Hash(0), 0)
  BY <1>2, <1>3, EntersNew
<1> QED
  BY <1>4 DEF EvaluateBegin, Tick, fork, shared

LEMMA EvaluateWorkEffect ==
  ASSUME Shapes, NEW t \in Tasks, EvaluateWork(t)
  PROVE  /\ task[t].pc = "evaluate_work" /\ UNCHANGED <<files, ctx, gone, cache, clock, named, reads>>
         /\ \/ Exits(t) /\ UNCHANGED <<docs, work>>
            \/ /\ work # 0 /\ work' = Len(docs) + 1
               /\ \E complete \in BOOLEAN, n \in Nat :
                     /\ n # 0 => complete
                     /\ docs' = Append(docs, [docs[work] EXCEPT !.fresh = complete])
                     /\ Goes(t, "settle", task[t].tok, task[t].doc, n)
<1>1. task[t].pc = "evaluate_work" /\ UNCHANGED <<files, ctx, gone, cache, clock, named, reads>>
  BY DEF EvaluateWork, shared
<1>2. CASE work = 0
  BY <1>1, <1>2, Leaves DEF EvaluateWork
<1>3. CASE work # 0
  <2>1. PICK complete \in BOOLEAN :
           /\ docs' = Append(docs, [docs[work] EXCEPT !.fresh = complete])
           /\ work' = Len(docs) + 1
           /\ task' = [task EXCEPT ![t].pc = "settle", ![t].id = IF complete THEN 1 ELSE None]
    BY <1>3, Zenon DEF EvaluateWork
  <2>2. PICK n \in Nat : n = (IF complete THEN 1 ELSE 0) /\ (n # 0 => complete)
    OBVIOUS
  <2>3. task' = [task EXCEPT ![t].pc = "settle", ![t].id = n]
    BY <2>1, <2>2, Zenon
  <2>4. task[t] \in Requests /\ task \in [Tasks -> Requests] /\ task[t].tok \in Tokens /\ task[t].doc \in Nat
    BY RequestParts DEF Shapes
  <2>5. task' = [task EXCEPT ![t] = [task[t] EXCEPT !.pc = "settle", !.tok = task[t].tok, !.doc = task[t].doc, !.id = n]]
    BY <2>3, <2>4 DEF Requests
  <2>6. Goes(t, "settle", task[t].tok, task[t].doc, n)
    BY <2>4, <2>5, GoesOn DEF Places, CanonicalPlaces
  <2> HIDE DEF Goes
  <2>7. \E b \in BOOLEAN, m \in Nat :
                     /\ m # 0 => b
                     /\ docs' = Append(docs, [docs[work] EXCEPT !.fresh = b])
                     /\ Goes(t, "settle", task[t].tok, task[t].doc, m)
    BY <2>1, <2>2, <2>6, Zenon
  <2> QED
    BY <1>1, <1>3, <2>1, <2>7, Zenon
<1> QED
  BY <1>2, <1>3

LEMMA EvaluateFlagEffect ==
  ASSUME Shapes, NEW t \in Tasks, EvaluateFlag(t)
  PROVE  /\ task[t].pc = "settle" /\ UNCHANGED <<docs, work, files, gone, cache, clock, named, reads>>
         /\ \/ gone /\ Exits(t) /\ UNCHANGED ctx
            \/ /\ ~gone /\ Goes(t, "close", task[t].tok, task[t].doc, task[t].id)
               /\ \E b \in BOOLEAN :
                     /\ b \/ task[t].id # 0
                     /\ Next_ctx(ctx.state, ctx.content, ctx.staged, ctx.checkpoints, ctx.ops, b)
<1>1. /\ task[t].pc = "settle" /\ UNCHANGED <<docs, work, files, gone, cache, clock, named, reads>>
      /\ ctx \in Contexts /\ "close" \in Places
  BY DEF EvaluateFlag, shared, Shapes, Places, CanonicalPlaces
<1>2. CASE gone
  BY <1>1, <1>2, Leaves DEF EvaluateFlag
<1>3. CASE ~gone
  <2>1. PICK b \in BOOLEAN : b = (task[t].id = 0)
    OBVIOUS
  <2>2. ctx' = [ctx EXCEPT !.recalc = b] /\ Move(t, "close")
    BY <1>3, <2>1, Zenon DEF EvaluateFlag
  <2>3. Next_ctx(ctx.state, ctx.content, ctx.staged, ctx.checkpoints, ctx.ops, b)
    BY <1>1, <2>2 DEF Next_ctx, Contexts
  <2>4. Goes(t, "close", task[t].tok, task[t].doc, task[t].id)
    BY <1>1, <2>2, Moves
  <2>5. b \/ task[t].id # 0
    BY <2>1
  <2> HIDE DEF Next_ctx, Goes
  <2> QED
    BY <1>1, <1>3, <2>3, <2>4, <2>5, Zenon
<1> QED
  BY <1>2, <1>3

LEMMA RestoreCheckpointEffect ==
  ASSUME Shapes, Lists, NEW t \in Tasks, RestoreCheckpoint(t)
  PROVE  /\ ~gone /\ Entered(t, "close", "restore", "none", Hash(0), 0)
         /\ \E i \in DOMAIN ctx.checkpoints : LET p == ctx.checkpoints[i] IN
               /\ Next_ctx(Random(clock), files[p.id], Until(ctx.staged, p.at), ctx.checkpoints,
                           ctx.ops, p.recalc)
               /\ work' = files[p.id]
               /\ files' = Kept(files, Since(ctx.staged, p.at))
         /\ clock' = clock + 1 /\ UNCHANGED <<docs, gone, cache, named, reads>>
<1>1. ~gone /\ clock' = clock + 1 /\ UNCHANGED <<docs, gone, cache, named, reads>>
  BY DEF RestoreCheckpoint, Tick, shared
<1>2. PICK r : r = [Idle EXCEPT !.pc = "close", !.op = "restore"]
  OBVIOUS
<1>3. /\ r \in Requests /\ r.pc = "close" /\ r.op = "restore" /\ r.kind = "none" /\ r.tok = Hash(0)
      /\ r.doc = 0 /\ r.id = 0
  BY <1>2, IdleRequest DEF Requests, Places, CanonicalPlaces, Work
<1>4. Enter(t, r) /\ task[t].pc = "idle"
  BY <1>2, Zenon DEF RestoreCheckpoint, Free
<1>5. Entered(t, "close", "restore", "none", Hash(0), 0)
  BY <1>3, <1>4, EntersNew
<1>6. PICK i \in DOMAIN ctx.checkpoints : LET p == ctx.checkpoints[i] IN
         /\ ctx' = Advanced([ctx EXCEPT !.staged = Until(@, p.at), !.recalc = p.recalc, !.content = files[p.id]])
         /\ work' = files[p.id]
         /\ files' = Kept(files, Since(ctx.staged, p.at))
  BY Zenon DEF RestoreCheckpoint
<1>7. PICK p : p = ctx.checkpoints[i]
  OBVIOUS
<1>8. p.recalc \in BOOLEAN /\ files[p.id] \in Nat /\ p.at \in Nat
  BY <1>1, <1>7, RestoredPoint
<1>9. Until(ctx.staged, p.at) \in Seq(Changes)
  BY <1>1, <1>8, RestoredLists
<1>10. PICK x \in Seq(Changes), n \in Nat, b \in BOOLEAN :
          x = Until(ctx.staged, p.at) /\ n = files[p.id] /\ b = p.recalc
  BY <1>8, <1>9, Zenon
<1>11. PICK a : a = [ctx EXCEPT !.staged = x, !.recalc = b, !.content = n]
  OBVIOUS
<1>12. ctx \in Contexts /\ clock \in Nat
  BY DEF Shapes
<1>13. /\ a \in Contexts /\ a.staged = x /\ a.checkpoints = ctx.checkpoints /\ a.ops = ctx.ops /\ a.recalc = b
       /\ a.content = n
  BY <1>11, <1>12 DEF Contexts
<1>14. ctx' = Advanced(a)
  <2>1. [ctx EXCEPT !.staged = Until(@, p.at), !.recalc = p.recalc, !.content = files[p.id]] = a
    BY <1>10, <1>11, <1>12 DEF Contexts
  <2> QED
    BY <1>6, <1>7, <2>1, Zenon
<1>15. /\ ctx' \in Contexts /\ ctx'.state = Random(clock) /\ ctx'.content = n /\ ctx'.staged = x
       /\ ctx'.checkpoints = ctx.checkpoints /\ ctx'.ops = ctx.ops /\ ctx'.recalc = b
  BY <1>12, <1>13, <1>14, AdvancedContext
<1>16. Next_ctx(Random(clock), files[p.id], Until(ctx.staged, p.at), ctx.checkpoints, ctx.ops, p.recalc)
  BY <1>10, <1>15, Zenon DEF Next_ctx
<1> HIDE DEF Next_ctx, Entered
<1> QED
  BY <1>1, <1>5, <1>6, <1>7, <1>16, Zenon

LEMMA CheckpointForkEffect ==
  ASSUME Shapes, Lists, NEW t \in Tasks, CheckpointFork(t)
  PROVE  /\ ~gone /\ task[t].pc = "idle" /\ Instant(t) /\ AddsPoint
         /\ clock' = clock + 1 /\ UNCHANGED <<docs, work, gone, cache, named, reads>>
<1>1. /\ ~gone /\ task[t].pc = "idle" /\ Instant(t) /\ clock' = clock + 1
      /\ UNCHANGED <<docs, work, gone, cache, named, reads>>
  BY DEF CheckpointFork, Free, Tick, shared
<1>2. PICK fs, s : fs = With(files, clock, work) /\ s = Append(ctx.checkpoints, Checkpoint)
  OBVIOUS
<1>3. PICK k : k = CheckpointsKept(s, fs)
  OBVIOUS
<1>4. ctx' = Advanced([Synced EXCEPT !.checkpoints = k]) /\ files' = Kept(fs, Ids(s) \ Ids(k))
  BY <1>2, <1>3, Zenon DEF CheckpointFork
<1>5. AddsPoint
  BY <1>1, <1>2, <1>3, <1>4, AddsPointStep
<1> QED
  BY <1>1, <1>5

LEMMA DeleteCheckpointEffect ==
  ASSUME Shapes, Lists, NEW t \in Tasks, DeleteCheckpoint(t)
  PROVE  /\ ~gone /\ task[t].pc = "idle" /\ Instant(t) /\ DropsPoint
         /\ clock' = clock + 1 /\ UNCHANGED <<docs, work, gone, cache, named, reads>>
<1>1. /\ ~gone /\ task[t].pc = "idle" /\ Instant(t) /\ clock' = clock + 1
      /\ UNCHANGED <<docs, work, gone, cache, named, reads>> /\ ctx \in Contexts
  BY DEF DeleteCheckpoint, Free, Tick, shared, Shapes
<1>2. PICK i \in DOMAIN ctx.checkpoints : /\ ctx' = Advanced([ctx EXCEPT !.checkpoints = RemoveAt(@, i)])
                                          /\ files' = Kept(files, {ctx.checkpoints[i].id})
  BY DEF DeleteCheckpoint
<1>3. DropsPoint
  BY <1>1, <1>2, DropsPointStep
<1> QED
  BY <1>1, <1>3

LEMMA DiscardStagedEffect ==
  ASSUME Shapes, Lists, NEW t \in Tasks, DiscardStaged(t)
  PROVE  /\ ~gone /\ task[t].pc = "idle" /\ Instant(t) /\ DropsChange
         /\ clock' = clock + 1 /\ UNCHANGED <<docs, work, gone, cache, named, reads>>
<1>1. /\ ~gone /\ task[t].pc = "idle" /\ Instant(t) /\ clock' = clock + 1
      /\ UNCHANGED <<docs, work, gone, cache, named, reads>> /\ ctx \in Contexts
  BY DEF DiscardStaged, Free, Tick, shared, Shapes
<1>2. PICK i \in DOMAIN ctx.staged : /\ ctx' = Advanced([ctx EXCEPT !.staged = RemoveAt(@, i)])
                                     /\ files' = Kept(files, {ctx.staged[i].id})
  BY DEF DiscardStaged
<1>3. DropsChange
  BY <1>1, <1>2, DropsChangeStep
<1> QED
  BY <1>1, <1>3

LEMMA SaveForkEffect ==
  ASSUME Shapes, NEW t \in Tasks, SaveFork(t)
  PROVE  /\ ~gone /\ Instant(t) /\ gone' = TRUE /\ work' = 0 /\ files' = << >>
         /\ clock' = clock + 1 /\ UNCHANGED <<docs, ctx, cache, named, reads>>
BY DEF SaveFork, Cleaned, Tick, shared

LEMMA ObserveEffect ==
  ASSUME Shapes, NEW t \in Tasks, Observe(t)
  PROVE  /\ ~gone /\ Instant(t) /\ ctx' = Synced /\ Responds
         /\ UNCHANGED <<docs, work, files, gone, cache, clock, reads>>
BY DEF Observe, Offered, Respond, Responds, shared

-----------------------------------------------------------------------------
(* Types: every content that is named exists.                               *)

LEMMA KeptFiles ==
  ASSUME NEW fs, NEW ids
  PROVE  DOMAIN Kept(fs, ids) = (DOMAIN fs) \ ids /\ \A i \in DOMAIN Kept(fs, ids) : Kept(fs, ids)[i] = fs[i]
BY DEF Kept

LEMMA WithFile ==
  ASSUME NEW fs, NEW i, NEW c
  PROVE  /\ DOMAIN With(fs, i, c) = (DOMAIN fs) \cup {i} /\ With(fs, i, c)[i] = c
         /\ \A j \in DOMAIN fs : j # i => With(fs, i, c)[j] = fs[j]
BY DEF With

\* docs with one more content.
Adds(content) ==
    /\ docs' \in Seq(Contents) /\ Len(docs') = Len(docs) + 1 /\ content \in Contents
    /\ docs'[Len(docs) + 1] = content /\ \A i \in 1..Len(docs) : docs'[i] = docs[i]

LEMMA AppendedDoc ==
  ASSUME Shapes, NEW c \in Contents, docs' = Append(docs, c)
  PROVE  Adds(c)
<1>1. docs \in Seq(Contents)
  BY DEF Shapes
<1> QED
  BY <1>1 DEF Adds

LEMMA NewDocIsOne ==
  ASSUME Shapes, NEW base \in 1..Len(docs), NEW n \in Nat, NEW stale \in BOOLEAN,
         docs' = NewDoc(base, {n}, stale)
  PROVE  \E c \in Contents : Adds(c) /\ c.edits = docs[base].edits \cup {n} /\ c.fresh = (docs[base].fresh /\ ~stale)
<1>1. docs[base] \in Contents
  BY DEF Shapes
<1>2. docs[base].edits \in SUBSET Nat /\ docs[base].fresh \in BOOLEAN
  BY <1>1 DEF Contents
<1>3. PICK x \in SUBSET Nat : x = docs[base].edits \cup {n}
  BY <1>2
<1>4. PICK b \in BOOLEAN : b = (docs[base].fresh /\ ~stale)
  BY <1>2
<1>5. PICK c : c = [edits |-> x, fresh |-> b]
  OBVIOUS
<1>6. c \in Contents /\ c.edits = x /\ c.fresh = b
  BY <1>5 DEF Contents
<1>7. docs' = Append(docs, c)
  BY <1>3, <1>4, <1>5, Zenon DEF NewDoc
<1>8. Adds(c)
  BY <1>6, <1>7, AppendedDoc
<1> QED
  BY <1>3, <1>4, <1>6, <1>8, Zenon

LEMMA EvaluatedDoc ==
  ASSUME Shapes, NEW base \in 1..Len(docs), NEW complete \in BOOLEAN,
         docs' = Append(docs, [docs[base] EXCEPT !.fresh = complete])
  PROVE  \E c \in Contents : Adds(c) /\ c.edits = docs[base].edits /\ c.fresh = complete
<1>1. PICK d \in Contents : d = docs[base]
  BY DEF Shapes
<1>2. PICK c : c = [d EXCEPT !.fresh = complete]
  OBVIOUS
<1>3. c \in Contents /\ c.edits = d.edits /\ c.fresh = complete
  BY <1>2 DEF Contents
<1>4. docs' = Append(docs, c)
  BY <1>1, <1>2, Zenon
<1>5. Adds(c)
  BY <1>3, <1>4, AppendedDoc
<1> QED
  BY <1>1, <1>3, <1>5, Zenon

TaskShape(t) ==
    /\ Others(t) /\ task'[t].doc \in 0..Len(docs')
    /\ task'[t].pc \in {"save", "evaluate"} => task'[t].doc # 0
    /\ task'[t].pc = "permit" /\ task'[t].op = "recalculate" => task'[t].doc # 0
    /\ task'[t].pc \in {"open", "put", "load", "save"} => task'[t].kind \in BatchTools

DocShape ==
    /\ docs' \in Seq(Contents) /\ Len(docs) \in Nat /\ Len(docs') \in Nat /\ Len(docs) <= Len(docs')
    /\ work' \in 0..Len(docs') /\ gone' \in BOOLEAN /\ (gone' \/ work' # 0) /\ cache' \in 0..Len(docs')

FileShape == \A i \in DOMAIN files' : files'[i] \in 1..Len(docs')

LEMMA ShapesStep ==
  ASSUME Shapes, load' = load, NEW t \in Tasks, TaskShape(t), DocShape, FileShape, ctx' \in Contexts,
         clock' \in {clock, clock + 1}
  PROVE  Shapes'
<1>1. load' \in Workloads /\ gone' \in BOOLEAN /\ clock' \in Nat \ {0}
  BY DEF Shapes, DocShape
<1>2. task' \in [Tasks -> Requests]
  BY DEF TaskShape, Others
<1>3. ASSUME NEW u \in Tasks
      PROVE  /\ task'[u].doc \in 0..Len(docs')
             /\ task'[u].pc \in {"save", "evaluate"} => task'[u].doc # None
             /\ task'[u].pc = "permit" /\ task'[u].op = "recalculate" => task'[u].doc # None
             /\ task'[u].pc \in {"open", "put", "load", "save"} => task'[u].kind \in BatchTools
  <2>1. CASE u = t
    BY <2>1 DEF TaskShape
  <2>2. CASE u # t
    <3>1. /\ task'[u].pc = task[u].pc /\ task'[u].op = task[u].op /\ task'[u].doc = task[u].doc
          /\ task'[u].kind = task[u].kind
      BY <2>2 DEF TaskShape, Others, Same
    <3>2. /\ task[u].doc \in 0..Len(docs)
          /\ task[u].pc \in {"save", "evaluate"} => task[u].doc # None
          /\ task[u].pc = "permit" /\ task[u].op = "recalculate" => task[u].doc # None
          /\ task[u].pc \in {"open", "put", "load", "save"} => task[u].kind \in BatchTools
      BY DEF Shapes
    <3>3. task[u].doc \in 0..Len(docs')
      BY <3>2 DEF DocShape
    <3> QED
      BY <3>1, <3>2, <3>3
  <2> QED
    BY <2>1, <2>2
<1> QED
  BY <1>1, <1>2, <1>3 DEF Shapes, DocShape, FileShape

LEMMA InstantShape ==
  ASSUME Shapes, NEW t \in Tasks, Instant(t), Len(docs) \in Nat, Len(docs') \in Nat, Len(docs) <= Len(docs')
  PROVE  TaskShape(t)
<1>1. /\ Others(t) /\ task'[t].pc = task[t].pc /\ task'[t].op = task[t].op /\ task'[t].doc = task[t].doc
      /\ task'[t].kind = task[t].kind
  BY InstantTasks DEF Same
<1>2. /\ task[t].doc \in 0..Len(docs)
      /\ task[t].pc \in {"save", "evaluate"} => task[t].doc # None
      /\ task[t].pc = "permit" /\ task[t].op = "recalculate" => task[t].doc # None
      /\ task[t].pc \in {"open", "put", "load", "save"} => task[t].kind \in BatchTools
  BY DEF Shapes
<1>3. task[t].doc \in 0..Len(docs')
  BY <1>2
<1> QED
  BY <1>1, <1>2, <1>3 DEF TaskShape

LEMMA ExitShape ==
  ASSUME NEW t \in Tasks, Exits(t), Len(docs') \in Nat
  PROVE  TaskShape(t)
BY DEF Exits, Next_task, TaskShape

LEMMA EnteredShape ==
  ASSUME NEW t \in Tasks, NEW pc, NEW op, NEW kind, NEW tok, NEW id, Entered(t, pc, op, kind, tok, id),
         pc \notin {"save", "evaluate"}, ~(pc = "permit" /\ op = "recalculate"), Len(docs') \in Nat,
         pc \in {"open", "put", "load"} => kind \in BatchTools
  PROVE  TaskShape(t)
BY DEF Entered, Next_task, TaskShape

LEMMA GoesShape ==
  ASSUME NEW t \in Tasks, NEW pc, NEW tok, NEW doc, NEW id, Goes(t, pc, tok, doc, id), doc \in 0..Len(docs'),
         pc \in {"save", "evaluate"} => doc # 0, pc = "permit" => doc # 0,
         pc \in {"open", "put", "load", "save"} => task[t].kind \in BatchTools
  PROVE  TaskShape(t)
BY DEF Goes, Next_task, TaskShape

\* Nothing but tasks, the clock and the cache.
LEMMA StillDocs ==
  ASSUME Shapes, UNCHANGED <<docs, work, gone>>, cache' \in {cache, 0}
  PROVE  DocShape /\ Len(docs) \in Nat /\ Len(docs') = Len(docs)
BY DEF Shapes, DocShape

LEMMA GrownDocs ==
  ASSUME Shapes, NEW c, Adds(c), work' = Len(docs) + 1, UNCHANGED gone, cache' \in {cache, 0}
  PROVE  DocShape /\ Len(docs) \in Nat /\ Len(docs') = Len(docs) + 1 /\ Len(docs') \in Nat
<1>1. Len(docs) \in Nat /\ Len(docs') = Len(docs) + 1 /\ docs' \in Seq(Contents)
  BY DEF Shapes, Adds
<1>2. work' \in 0..Len(docs') /\ work' # 0
  BY <1>1
<1>3. cache' \in 0..Len(docs')
  BY <1>1 DEF Shapes
<1> QED
  BY <1>1, <1>2, <1>3 DEF DocShape, Shapes

LEMMA StillFiles ==
  ASSUME Shapes, Len(docs) \in Nat, Len(docs') \in Nat, Len(docs) <= Len(docs'),
         (UNCHANGED files) \/ (\E ids : files' = Kept(files, ids))
  PROVE  FileShape
<1>1. \A i \in DOMAIN files : files[i] \in 1..Len(docs')
  BY DEF Shapes
<1>2. CASE UNCHANGED files
  BY <1>1, <1>2 DEF FileShape
<1>3. ASSUME NEW ids, files' = Kept(files, ids) PROVE FileShape
  BY <1>1, <1>3 DEF FileShape, Kept
<1> QED
  BY <1>2, <1>3

\* The work file, copied under an identifier.
LEMMA CopiedFile ==
  ASSUME Shapes, work # 0, NEW i, NEW ids, UNCHANGED docs,
         files' = With(files, i, work) \/ files' = Kept(With(files, i, work), ids)
  PROVE  FileShape
<1>1. work \in 1..Len(docs) /\ \A j \in DOMAIN files : files[j] \in 1..Len(docs)
  BY DEF Shapes
<1>2. PICK fs : fs = With(files, i, work)
  OBVIOUS
<1>3. /\ DOMAIN fs = (DOMAIN files) \cup {i} /\ fs[i] = work
      /\ \A j \in DOMAIN files : j # i => fs[j] = files[j]
  BY <1>2 DEF With
<1>4. \A j \in DOMAIN fs : fs[j] \in 1..Len(docs)
  BY <1>1, <1>3
<1>5. DOMAIN Kept(fs, ids) = (DOMAIN fs) \ ids /\ \A j \in DOMAIN Kept(fs, ids) : Kept(fs, ids)[j] = fs[j]
  BY KeptFiles
<1> QED
  BY <1>2, <1>4, <1>5 DEF FileShape

SameFiles == (UNCHANGED files) \/ (\E ids : files' = Kept(files, ids))

LEMMA StillStep ==
  ASSUME Shapes, load' = load, NEW t \in Tasks, TaskShape(t), ctx' \in Contexts, SameFiles,
         UNCHANGED <<docs, work, gone>>, cache' \in {cache, 0}, clock' \in {clock, clock + 1}
  PROVE  Shapes'
<1>1. DocShape /\ Len(docs) \in Nat /\ Len(docs') = Len(docs)
  BY StillDocs
<1>2. FileShape
  BY <1>1, StillFiles DEF SameFiles
<1> QED
  BY <1>1, <1>2, ShapesStep

LEMMA InstantStill ==
  ASSUME Shapes, load' = load, NEW t \in Tasks, Instant(t), ctx' \in Contexts, SameFiles,
         UNCHANGED <<docs, work, gone>>, cache' \in {cache, 0}, clock' \in {clock, clock + 1}
  PROVE  Shapes'
<1>1. Len(docs) \in Nat /\ Len(docs') = Len(docs)
  BY DEF Shapes
<1>2. TaskShape(t)
  BY <1>1, InstantShape
<1> QED
  BY <1>2, StillStep

LEMMA GrownStep ==
  ASSUME Shapes, load' = load, NEW t \in Tasks, NEW c, Adds(c), work' = Len(docs) + 1, UNCHANGED gone,
         cache' \in {cache, 0}, TaskShape(t), ctx' \in Contexts, SameFiles, clock' \in {clock, clock + 1}
  PROVE  Shapes'
<1>1. DocShape /\ Len(docs) \in Nat /\ Len(docs') = Len(docs) + 1 /\ Len(docs') \in Nat
  BY GrownDocs
<1>2. FileShape
  BY <1>1, StillFiles DEF SameFiles
<1> QED
  BY <1>1, <1>2, ShapesStep

\* The fork is marked and its files go.
LEMMA CleanedShapes ==
  ASSUME Shapes, load' = load, NEW t \in Tasks, Instant(t), ctx' \in Contexts, UNCHANGED docs, gone' = TRUE,
         work' = 0, files' = << >>, cache' \in {cache, 0}, clock' \in {clock, clock + 1}
  PROVE  Shapes'
<1>1. DocShape /\ Len(docs) \in Nat /\ Len(docs') = Len(docs)
  BY DEF Shapes, DocShape
<1>2. TaskShape(t)
  BY <1>1, InstantShape
<1>3. FileShape
  BY DEF FileShape
<1> QED
  BY <1>1, <1>2, <1>3, ShapesStep

\* The content of a snapshot becomes the content of the work file.
LEMMA RestoredShapes ==
  ASSUME Shapes, load' = load, NEW t \in Tasks, TaskShape(t), ctx' \in Contexts, SameFiles, UNCHANGED <<docs, gone>>,
         work' \in 1..Len(docs), cache' \in {cache, 0}, clock' \in {clock, clock + 1}
  PROVE  Shapes'
<1>1. DocShape /\ Len(docs) \in Nat /\ Len(docs') = Len(docs)
  BY DEF Shapes, DocShape
<1>2. FileShape
  BY <1>1, StillFiles DEF SameFiles
<1> QED
  BY <1>1, <1>2, ShapesStep

LEMMA PresentFork ==
  ASSUME Shapes
  PROVE  /\ Len(docs) \in Nat /\ clock \in Nat \ {0} /\ ctx \in Contexts /\ Synced \in Contexts
         /\ work \in 0..Len(docs) /\ cache \in 0..Len(docs) /\ (~gone => work \in 1..Len(docs))
         /\ \A t \in Tasks : task[t].doc \in 0..Len(docs)
BY SyncedContext DEF Shapes

LEMMA CanonicalSectionShapes ==
  ASSUME Shapes, Lists, load' = load, NEW t \in Tasks,
         \/ Observe(t) \/ Write(t) \/ Stage(t) \/ StagedApply(t) \/ StagedDiscard(t)
         \/ CheckpointCreate(t) \/ CheckpointDelete(t) \/ CheckpointRestore(t) \/ Export(t) \/ Discard(t)
  PROVE  Shapes'
<1>0. /\ Len(docs) \in Nat /\ clock \in Nat \ {0} /\ Synced \in Contexts /\ (~gone => work \in 1..Len(docs))
  BY PresentFork
<1>1. CASE Observe(t)
  <2>1. Instant(t) /\ ctx' \in Contexts /\ UNCHANGED <<docs, work, files, gone, cache, clock>>
    BY <1>0, <1>1, ObserveEffect
  <2> QED
    BY <2>1, InstantStill DEF SameFiles
<1>2. CASE Write(t)
  <2>1. /\ Others(t) /\ task'[t].pc = "revoke" /\ task'[t].op = "write" /\ task'[t].doc = 0 /\ ctx' \in Contexts
        /\ docs' = NewDoc(work, {clock}, TRUE) /\ work' = Len(docs) + 1 /\ ~gone
        /\ clock' = clock + 1 /\ UNCHANGED <<files, gone, cache>>
    BY <1>2, WriteEffect DEF Next_ctx
  <2>2. PICK c : Adds(c)
    BY <1>0, <2>1, NewDocIsOne
  <2>3. TaskShape(t)
    <3>1. Len(docs') \in Nat
      BY <1>0, <2>2 DEF Adds
    <3>2. 0 \in 0..Len(docs')
      BY <3>1
    <3> QED
      BY <2>1, <3>2, Zenon DEF TaskShape
  <2> QED
    BY <2>1, <2>2, <2>3, GrownStep DEF SameFiles
<1>3. CASE Stage(t)
  <2>1. Instant(t) /\ ctx' \in Contexts /\ UNCHANGED <<docs, work, gone, cache>> /\ clock' = clock + 1 /\ SameFiles
    BY <1>3, StageEffect DEF Next_ctx, SameFiles
  <2> QED
    BY <2>1, InstantStill
<1>4. CASE StagedApply(t)
  <2>1. /\ Instant(t) /\ ctx' \in Contexts /\ docs' = NewDoc(work, {clock}, TRUE) /\ work' = Len(docs) + 1 /\ ~gone
        /\ clock' = clock + 1 /\ UNCHANGED gone /\ cache' = 0 /\ SameFiles
    BY <1>4, StagedApplyEffect DEF Next_ctx, SameFiles
  <2>2. PICK c : Adds(c)
    BY <1>0, <2>1, NewDocIsOne
  <2>3. TaskShape(t)
    <3>1. Len(docs') \in Nat /\ Len(docs) <= Len(docs')
      BY <1>0, <2>2 DEF Adds
    <3> QED
      BY <1>0, <2>1, <3>1, InstantShape
  <2> QED
    BY <2>1, <2>2, <2>3, GrownStep
<1>5. CASE StagedDiscard(t)
  <2>1. Instant(t) /\ ctx' \in Contexts /\ UNCHANGED <<docs, work, gone, cache>> /\ clock' = clock + 1 /\ SameFiles
    BY <1>5, StagedDiscardEffect DEF DropsChange, Lists_ctx, SameFiles
  <2> QED
    BY <2>1, InstantStill
<1>6. CASE CheckpointCreate(t)
  <2>1. /\ Instant(t) /\ ctx' \in Contexts /\ UNCHANGED <<docs, work, gone, cache>> /\ clock' = clock + 1 /\ ~gone
        /\ \E ids : files' = Kept(With(files, clock, work), ids)
    BY <1>6, CheckpointCreateEffect DEF AddsPoint, Lists_ctx
  <2>2. FileShape
    BY <1>0, <2>1, CopiedFile
  <2>3. DocShape /\ Len(docs') = Len(docs)
    BY <2>1, StillDocs
  <2>4. TaskShape(t)
    BY <1>0, <2>1, <2>3, InstantShape
  <2> QED
    BY <2>1, <2>2, <2>3, <2>4, ShapesStep
<1>7. CASE CheckpointDelete(t)
  <2>1. Instant(t) /\ ctx' \in Contexts /\ UNCHANGED <<docs, work, gone, cache>> /\ clock' = clock + 1 /\ SameFiles
    BY <1>7, CheckpointDeleteEffect DEF DropsPoint, Lists_ctx, SameFiles
  <2> QED
    BY <2>1, InstantStill
<1>8. CASE CheckpointRestore(t)
  <2>1. /\ Instant(t) /\ cache' = 0 /\ clock' = clock + 1 /\ UNCHANGED <<docs, gone>> /\ ~gone
        /\ ctx' \in Contexts /\ SameFiles /\ \E i \in DOMAIN ctx.checkpoints : work' = files[ctx.checkpoints[i].id]
    BY <1>8, CheckpointRestoreEffect, Zenon DEF Next_ctx, SameFiles
  <2>2. work' \in 1..Len(docs)
    BY <2>1, RestoredPoint
  <2>3. TaskShape(t)
    BY <1>0, <2>1, InstantShape
  <2> QED
    BY <2>1, <2>2, <2>3, RestoredShapes
<1>9. CASE Export(t)
  <2>1. Instant(t) /\ ctx' \in Contexts /\ UNCHANGED <<docs, work, files, gone, cache>> /\ clock' = clock + 1
    BY <1>9, ExportEffect DEF Next_ctx
  <2> QED
    BY <2>1, InstantStill DEF SameFiles
<1>10. CASE Discard(t)
  <2>1. /\ Instant(t) /\ ctx' \in Contexts /\ UNCHANGED docs /\ gone' = TRUE /\ work' = 0 /\ files' = << >>
        /\ cache' = 0 /\ clock' = clock + 1
    BY <1>0, <1>10, DiscardEffect
  <2> QED
    BY <2>1, CleanedShapes
<1> QED
  BY <1>1, <1>2, <1>3, <1>4, <1>5, <1>6, <1>7, <1>8, <1>9, <1>10

LEMMA CanonicalTaskShapes ==
  ASSUME Shapes, load' = load, NEW t \in Tasks,
         \/ RecalcBegin(t) \/ RecalcCopy(t) \/ Acquire(t) \/ RecalcCommit(t) \/ Record(t) \/ Revoke(t) \/ Close(t)
         \/ ReadBegin(t) \/ Open(t) \/ Put(t) \/ Identify(t) \/ Answer(t)
  PROVE  Shapes'
<1>0. /\ Len(docs) \in Nat /\ clock \in Nat \ {0} /\ ctx \in Contexts /\ Synced \in Contexts
      /\ work \in 0..Len(docs) /\ cache \in 0..Len(docs) /\ (~gone => work \in 1..Len(docs))
      /\ task[t].doc \in 0..Len(docs)
  BY PresentFork
<1>1. CASE RecalcBegin(t)
  <2>1. /\ ctx' \in Contexts /\ Entered(t, "copy", "recalculate", "none", Synced.state, 0)
        /\ clock' = clock + 1 /\ UNCHANGED <<docs, work, files, gone, cache>>
    BY <1>0, <1>1, RecalcBeginEffect
  <2>2. TaskShape(t)
    BY <1>0, <2>1, EnteredShape
  <2> QED
    BY <2>1, <2>2, StillStep DEF SameFiles
<1>2. CASE RecalcCopy(t)
  <2>1. /\ Exits(t) \/ (work # 0 /\ Goes(t, "permit", task[t].tok, work, task[t].id))
        /\ UNCHANGED <<docs, work, files, ctx, gone, cache, clock>>
    BY <1>2, RecalcCopyEffect
  <2>2. TaskShape(t)
    BY <1>0, <2>1, ExitShape, GoesShape
  <2> QED
    BY <1>0, <2>1, <2>2, StillStep DEF SameFiles
<1>3. CASE Acquire(t)
  <2>1. /\ task[t].pc = "permit" /\ UNCHANGED <<docs, work, files, ctx, gone, cache, clock>>
        /\ Goes(t, IF task[t].op = "recalculate" THEN "evaluate" ELSE "evaluate_work",
                task[t].tok, task[t].doc, task[t].id)
    BY <1>3, AcquireEffect
  <2>2. task[t].op = "recalculate" => task[t].doc # 0
    BY <2>1 DEF Shapes
  <2>3. TaskShape(t)
    BY <1>0, <2>1, <2>2, GoesShape
  <2> QED
    BY <1>0, <2>1, <2>3, StillStep DEF SameFiles
<1>4. CASE RecalcCommit(t)
  <2>1. CASE Exits(t) /\ ctx' \in {ctx, Synced} /\ UNCHANGED <<docs, work, files, gone, cache, clock>>
    <3>1. TaskShape(t)
      BY <1>0, <2>1, ExitShape
    <3> QED
      BY <1>0, <2>1, <3>1, StillStep DEF SameFiles
  <2>2. ASSUME NEW complete \in BOOLEAN, NEW n \in Nat, ctx' \in Contexts,
               docs' = Append(docs, [docs[task[t].doc] EXCEPT !.fresh = complete]), work' = Len(docs) + 1,
               clock' = clock + 1, Goes(t, "record", Random(clock), task[t].doc, n),
               task[t].pc = "evaluate", UNCHANGED <<files, gone, cache>>
        PROVE  Shapes'
    <3>1. task[t].doc \in 1..Len(docs)
      BY <1>0, <2>2 DEF Shapes
    <3>2. PICK c : Adds(c)
      BY <2>2, <3>1, EvaluatedDoc
    <3>3. task[t].doc \in 0..Len(docs')
      BY <1>0, <3>1, <3>2 DEF Adds
    <3>4. TaskShape(t)
      BY <2>2, <3>3, GoesShape
    <3> QED
      BY <2>2, <3>2, <3>4, GrownStep DEF SameFiles
  <2> QED
    BY <1>4, <2>1, <2>2, RecalcCommitEffect DEF Next_ctx
<1>5. CASE Record(t) \/ Revoke(t)
  <2>1. /\ Goes(t, "close", task[t].tok, task[t].doc, task[t].id)
        /\ UNCHANGED <<docs, work, files, ctx, gone, cache, clock>>
    BY <1>5, RecordEffect
  <2>2. TaskShape(t)
    BY <1>0, <2>1, GoesShape
  <2> QED
    BY <1>0, <2>1, <2>2, StillStep DEF SameFiles
<1>6. CASE Close(t)
  <2>1. Exits(t) /\ cache' \in {cache, 0} /\ UNCHANGED <<docs, work, files, ctx, gone, clock>>
    BY <1>6, CloseEffect
  <2>2. TaskShape(t)
    BY <1>0, <2>1, ExitShape
  <2> QED
    BY <1>0, <2>1, <2>2, StillStep DEF SameFiles
<1>7. CASE ReadBegin(t)
  <2>1. /\ Entered(t, "open1", "read", "none", Hash(0), 0) /\ clock' = clock + 1
        /\ UNCHANGED <<docs, work, files, ctx, gone, cache>>
    BY <1>7, ReadBeginEffect
  <2>2. TaskShape(t)
    BY <1>0, <2>1, EnteredShape
  <2> QED
    BY <1>0, <2>1, <2>2, StillStep DEF SameFiles
<1>8. CASE Open(t)
  <2>1. /\ task[t].pc \in Opening
        /\ \/ Exits(t)
           \/ Goes(t, Then(task[t].pc), task[t].tok, cache, task[t].id)
           \/ Goes(t, PutFor(task[t].pc), task[t].tok, work, task[t].id)
        /\ UNCHANGED <<docs, work, files, ctx, gone, cache, clock>>
    BY <1>8, OpenEffect
  <2>2. /\ Then(task[t].pc) \notin {"save", "evaluate", "permit"}
        /\ PutFor(task[t].pc) \notin {"save", "evaluate", "permit"}
        /\ Then(task[t].pc) \in {"open", "put", "load"} => task[t].kind \in BatchTools
        /\ PutFor(task[t].pc) \in {"open", "put", "load"} => task[t].kind \in BatchTools
    BY <2>1 DEF Opening, Then, PutFor, Shapes
  <2>3. TaskShape(t)
    BY <1>0, <2>1, <2>2, ExitShape, GoesShape
  <2> QED
    BY <1>0, <2>1, <2>3, StillStep DEF SameFiles
<1>9. CASE Put(t)
  <2>1. /\ task[t].pc \in Putting /\ cache' = task[t].doc
        /\ Goes(t, Then(OpenFor(task[t].pc)), task[t].tok, task[t].doc, task[t].id)
        /\ UNCHANGED <<docs, work, files, ctx, gone, clock>>
    BY <1>9, PutEffect
  <2>2. /\ Then(OpenFor(task[t].pc)) \notin {"save", "evaluate", "permit"}
        /\ Then(OpenFor(task[t].pc)) \in {"open", "put", "load"} => task[t].kind \in BatchTools
    BY <2>1 DEF Putting, Then, OpenFor, Shapes
  <2>3. TaskShape(t)
    BY <1>0, <2>1, <2>2, GoesShape
  <2>4. DocShape
    BY <1>0, <2>1 DEF Shapes, DocShape
  <2>5. FileShape
    BY <1>0, <2>1, StillFiles
  <2> QED
    BY <1>0, <2>1, <2>3, <2>4, <2>5, ShapesStep
<1>10. CASE Identify(t)
  <2>1. /\ \/ Exits(t)
           \/ \E pc \in {"open2", "open3"} : Goes(t, pc, Synced.state, task[t].doc, task[t].id)
        /\ ctx' \in {ctx, Synced} /\ cache' \in {cache, 0} /\ UNCHANGED <<docs, work, files, gone, clock>>
    BY <1>10, IdentifyEffect
  <2>2. TaskShape(t)
    BY <1>0, <2>1, ExitShape, GoesShape
  <2> QED
    BY <1>0, <2>1, <2>2, StillStep DEF SameFiles
<1>11. CASE Answer(t)
  <2>1. Exits(t) /\ UNCHANGED <<docs, work, files, ctx, gone, cache, clock>>
    BY <1>11, AnswerEffect
  <2>2. TaskShape(t)
    BY <1>0, <2>1, ExitShape
  <2> QED
    BY <1>0, <2>1, <2>2, StillStep DEF SameFiles
<1> QED
  BY <1>1, <1>2, <1>3, <1>4, <1>5, <1>6, <1>7, <1>8, <1>9, <1>10, <1>11

\* What is known of a batch tool.
LEMMA ToolOf ==
  ASSUME NEW k \in BatchTools
  PROVE  /\ Handler(k).stales \in BOOLEAN /\ Handler(k).flags \in BOOLEAN
         /\ k # "move_values" /\ Handler(k).stales => Handler(k).flags
BY DEF BatchTools, Handler, Tool, EditBatch, TransformBatch, ApplyFormulaPattern, GridImport, StyleBatch,
       ColumnSizeBatch, SheetLayoutBatch, RulesBatch, StructureBatch, MoveValues, ReplaceInFormulas, NameTool

LEMMA SavedKind ==
  ASSUME Shapes, NEW t \in Tasks, task[t].pc = "save"
  PROVE  task[t].kind \in BatchTools /\ Kind(t).stales \in BOOLEAN
<1>1. task[t].kind \in BatchTools
  BY DEF Shapes
<1>2. Handler(task[t].kind).stales \in BOOLEAN
  BY <1>1, ToolOf
<1> QED
  BY <1>1, <1>2 DEF Kind

LEMMA ToolTaskShapes ==
  ASSUME Shapes, Lists, load' = load, NEW t \in Tasks,
         \/ BatchBegin(t) \/ Load(t) \/ AddStaged(t) \/ Save(t) \/ Flag(t) \/ ApplyStaged(t) \/ ApplyBundle(t)
         \/ Consume(t)
  PROVE  Shapes'
<1>0. /\ Len(docs) \in Nat /\ clock \in Nat \ {0} /\ ctx \in Contexts
      /\ work \in 0..Len(docs) /\ (~gone => work \in 1..Len(docs)) /\ task[t].doc \in 0..Len(docs)
  BY PresentFork
<1>1. CASE BatchBegin(t)
  <2>1. /\ \E k \in Batches, mode \in {"apply", "preview"}, pc \in {"open", "load"} :
              Entered(t, pc, mode, k, Hash(0), clock)
        /\ clock' = clock + 1 /\ UNCHANGED <<docs, work, files, ctx, gone, cache>>
    BY <1>1, BatchBeginEffect
  <2>3. Batches \subseteq BatchTools
    BY ForkLifecycleAssumption DEF Shapes, Batches
  <2>2. TaskShape(t)
    BY <1>0, <2>1, <2>3, EnteredShape
  <2> QED
    BY <1>0, <2>1, <2>2, StillStep DEF SameFiles
<1>2. CASE Load(t)
  <2>0. /\ \/ Exits(t) /\ UNCHANGED files
           \/ /\ work # 0 /\ Goes(t, "stage", task[t].tok, work, task[t].id)
              /\ files' = With(files, task[t].id, work)
           \/ work # 0 /\ Goes(t, "save", task[t].tok, work, task[t].id) /\ UNCHANGED files
        /\ UNCHANGED <<docs, work, ctx, gone, cache, clock>>
    BY <1>2, LoadEffect
  <2>4. task[t].kind \in BatchTools
    BY <1>2 DEF Load, Shapes
  <2>1. TaskShape(t)
    BY <1>0, <2>0, <2>4, ExitShape, GoesShape
  <2>2. CASE UNCHANGED files
    BY <1>0, <2>0, <2>1, <2>2, StillStep DEF SameFiles
  <2>3. CASE work # 0 /\ files' = With(files, task[t].id, work)
    <3>1. FileShape
      BY <2>0, <2>3, CopiedFile
    <3>2. DocShape
      BY <2>0, StillDocs
    <3> QED
      BY <1>0, <2>0, <2>1, <3>1, <3>2, ShapesStep
  <2> QED
    BY <2>0, <2>2, <2>3
<1>3. CASE AddStaged(t)
  <2>1. /\ Exits(t) /\ UNCHANGED <<docs, work, gone, cache>> /\ ctx' \in Contexts /\ SameFiles
        /\ clock' \in {clock, clock + 1}
    BY <1>0, <1>3, AddStagedEffect DEF Lists_ctx, SameFiles
  <2>2. TaskShape(t)
    BY <1>0, <2>1, ExitShape
  <2> QED
    BY <2>1, <2>2, StillStep
<1>4. CASE Save(t)
  <2>1. /\ task[t].pc = "save" /\ docs' = NewDoc(task[t].doc, {task[t].id}, Kind(t).stales)
        /\ work' = Len(docs) + 1 /\ UNCHANGED <<files, ctx, gone, cache, clock>>
        /\ \/ Exits(t)
           \/ \E pc \in {"flag", "consume", "close"} : Goes(t, pc, task[t].tok, task[t].doc, task[t].id)
    BY <1>4, SaveEffect
  <2>2. task[t].doc \in 1..Len(docs) /\ task[t].id \in Nat
    BY <1>0, <2>1, RequestParts DEF Shapes
  <2>3. PICK c : Adds(c)
    <3>1. PICK stale \in BOOLEAN : docs' = NewDoc(task[t].doc, {task[t].id}, stale)
      <4>1. Kind(t).stales \in BOOLEAN
        BY <2>1, SavedKind
      <4> QED
        BY <2>1, <4>1, Zenon
    <3> QED
      BY <2>2, <3>1, NewDocIsOne
  <2>4. Len(docs') \in Nat /\ task[t].doc \in 0..Len(docs')
    BY <1>0, <2>2, <2>3 DEF Adds
  <2>5. TaskShape(t)
    BY <2>1, <2>4, ExitShape, GoesShape
  <2> QED
    BY <1>0, <2>1, <2>3, <2>5, GrownStep DEF SameFiles
<1>5. CASE Flag(t)
  <2>1. /\ \/ Exits(t)
           \/ \E pc \in {"consume", "close"} : Goes(t, pc, task[t].tok, task[t].doc, task[t].id)
        /\ ctx' \in Contexts /\ UNCHANGED <<docs, work, files, gone, cache, clock>>
    BY <1>0, <1>5, FlagEffect DEF Next_ctx
  <2>2. TaskShape(t)
    BY <1>0, <2>1, ExitShape, GoesShape
  <2> QED
    BY <2>1, <2>2, StillStep DEF SameFiles
<1>6. CASE ApplyStaged(t)
  <2>1. /\ \E i \in DOMAIN ctx.staged : \E k \in BatchTools :
              Entered(t, "load", "replay", k, Hash(0), ctx.staged[i].id)
        /\ clock' = clock + 1 /\ UNCHANGED <<docs, work, files, ctx, gone, cache>>
    BY <1>6, ApplyStagedEffect
  <2>2. TaskShape(t)
    BY <1>0, <2>1, EnteredShape
  <2> QED
    BY <1>0, <2>1, <2>2, StillStep DEF SameFiles
<1>7. CASE ApplyBundle(t)
  <2>1. /\ ~gone /\ ctx' \in Contexts
        /\ \E i \in DOMAIN ctx.staged, pc \in {"flag", "consume"} :
              Entered(t, pc, "replay", "canonical_write_bundle", Hash(0), ctx.staged[i].id)
        /\ docs' = NewDoc(work, {clock}, TRUE) /\ work' = Len(docs) + 1
        /\ clock' = clock + 1 /\ UNCHANGED <<files, gone, cache>>
    BY <1>7, ApplyBundleEffect DEF Next_ctx
  <2>2. PICK c : Adds(c)
    BY <1>0, <2>1, NewDocIsOne
  <2>3. Len(docs') \in Nat
    BY <1>0, <2>2 DEF Adds
  <2>4. TaskShape(t)
    BY <2>1, <2>3, EnteredShape
  <2> QED
    BY <2>1, <2>2, <2>4, GrownStep DEF SameFiles
<1>8. CASE Consume(t)
  <2>1. /\ Exits(t) \/ Goes(t, "close", task[t].tok, task[t].doc, task[t].id)
        /\ UNCHANGED <<docs, work, gone, cache>> /\ ctx' \in Contexts /\ SameFiles /\ clock' \in {clock, clock + 1}
    BY <1>0, <1>8, ConsumeEffect DEF DropsChange, Lists_ctx, SameFiles
  <2>2. TaskShape(t)
    BY <1>0, <2>1, ExitShape, GoesShape
  <2> QED
    BY <2>1, <2>2, StillStep
<1> QED
  BY <1>1, <1>2, <1>3, <1>4, <1>5, <1>6, <1>7, <1>8

LEMMA ToolSectionShapes ==
  ASSUME Shapes, Lists, load' = load, NEW t \in Tasks,
         \/ EvaluateBegin(t) \/ EvaluateWork(t) \/ EvaluateFlag(t)
         \/ RestoreCheckpoint(t) \/ CheckpointFork(t) \/ DeleteCheckpoint(t) \/ DiscardStaged(t) \/ SaveFork(t)
  PROVE  Shapes'
<1>0. /\ Len(docs) \in Nat /\ clock \in Nat \ {0} /\ ctx \in Contexts
      /\ work \in 0..Len(docs) /\ (~gone => work \in 1..Len(docs)) /\ task[t].doc \in 0..Len(docs)
  BY PresentFork
<1>1. CASE EvaluateBegin(t)
  <2>1. /\ Entered(t, "permit", "evaluate", "none", Hash(0), 0) /\ clock' = clock + 1
        /\ UNCHANGED <<docs, work, files, ctx, gone, cache>>
    BY <1>1, EvaluateBeginEffect
  <2>2. TaskShape(t)
    BY <1>0, <2>1, EnteredShape
  <2> QED
    BY <1>0, <2>1, <2>2, StillStep DEF SameFiles
<1>2. CASE EvaluateWork(t)
  <2>1. CASE Exits(t) /\ UNCHANGED <<docs, work, files, ctx, gone, cache, clock>>
    <3>1. TaskShape(t)
      BY <1>0, <2>1, ExitShape
    <3> QED
      BY <1>0, <2>1, <3>1, StillStep DEF SameFiles
  <2>2. ASSUME NEW complete \in BOOLEAN, NEW n \in Nat, work # 0, work' = Len(docs) + 1,
               docs' = Append(docs, [docs[work] EXCEPT !.fresh = complete]),
               Goes(t, "settle", task[t].tok, task[t].doc, n), UNCHANGED <<files, ctx, gone, cache, clock>>
        PROVE  Shapes'
    <3>1. work \in 1..Len(docs)
      BY <1>0, <2>2
    <3>2. PICK c : Adds(c)
      BY <2>2, <3>1, EvaluatedDoc
    <3>3. task[t].doc \in 0..Len(docs')
      BY <1>0, <3>2 DEF Adds
    <3>4. TaskShape(t)
      BY <2>2, <3>3, GoesShape
    <3> QED
      BY <1>0, <2>2, <3>2, <3>4, GrownStep DEF SameFiles
  <2> QED
    BY <1>2, <2>1, <2>2, EvaluateWorkEffect
<1>3. CASE EvaluateFlag(t)
  <2>1. /\ Exits(t) \/ Goes(t, "close", task[t].tok, task[t].doc, task[t].id)
        /\ ctx' \in Contexts /\ UNCHANGED <<docs, work, files, gone, cache, clock>>
    BY <1>0, <1>3, EvaluateFlagEffect DEF Next_ctx
  <2>2. TaskShape(t)
    BY <1>0, <2>1, ExitShape, GoesShape
  <2> QED
    BY <2>1, <2>2, StillStep DEF SameFiles
<1>4. CASE RestoreCheckpoint(t)
  <2>1. /\ ~gone /\ Entered(t, "close", "restore", "none", Hash(0), 0) /\ ctx' \in Contexts /\ SameFiles
        /\ \E i \in DOMAIN ctx.checkpoints : work' = files[ctx.checkpoints[i].id]
        /\ clock' = clock + 1 /\ UNCHANGED <<docs, gone, cache>>
    BY <1>4, RestoreCheckpointEffect, Zenon DEF Next_ctx, SameFiles
  <2>2. work' \in 1..Len(docs)
    BY <2>1, RestoredPoint
  <2>3. TaskShape(t)
    BY <1>0, <2>1, EnteredShape
  <2> QED
    BY <2>1, <2>2, <2>3, RestoredShapes
<1>5. CASE CheckpointFork(t)
  <2>1. /\ Instant(t) /\ ctx' \in Contexts /\ UNCHANGED <<docs, work, gone, cache>> /\ clock' = clock + 1 /\ ~gone
        /\ \E ids : files' = Kept(With(files, clock, work), ids)
    BY <1>5, CheckpointForkEffect DEF AddsPoint, Lists_ctx
  <2>2. FileShape
    BY <1>0, <2>1, CopiedFile
  <2>3. DocShape /\ Len(docs') = Len(docs)
    BY <2>1, StillDocs
  <2>4. TaskShape(t)
    BY <1>0, <2>1, <2>3, InstantShape
  <2> QED
    BY <2>1, <2>2, <2>3, <2>4, ShapesStep
<1>6. CASE DeleteCheckpoint(t)
  <2>1. Instant(t) /\ ctx' \in Contexts /\ UNCHANGED <<docs, work, gone, cache>> /\ clock' = clock + 1 /\ SameFiles
    BY <1>6, DeleteCheckpointEffect DEF DropsPoint, Lists_ctx, SameFiles
  <2> QED
    BY <2>1, InstantStill
<1>7. CASE DiscardStaged(t)
  <2>1. Instant(t) /\ ctx' \in Contexts /\ UNCHANGED <<docs, work, gone, cache>> /\ clock' = clock + 1 /\ SameFiles
    BY <1>7, DiscardStagedEffect DEF DropsChange, Lists_ctx, SameFiles
  <2> QED
    BY <2>1, InstantStill
<1>8. CASE SaveFork(t)
  <2>1. /\ Instant(t) /\ ctx' \in Contexts /\ UNCHANGED docs /\ gone' = TRUE /\ work' = 0 /\ files' = << >>
        /\ cache' = cache /\ clock' = clock + 1
    BY <1>0, <1>8, SaveForkEffect
  <2> QED
    BY <2>1, CleanedShapes
<1> QED
  BY <1>1, <1>2, <1>3, <1>4, <1>5, <1>6, <1>7, <1>8

LEMMA ShapesPreserved ==
  ASSUME Shapes, Lists, load' = load, NEW t \in Tasks, CanonicalStep(t) \/ ToolStep(t)
  PROVE  Shapes'
BY CanonicalSectionShapes, CanonicalTaskShapes, ToolTaskShapes, ToolSectionShapes DEF CanonicalStep, ToolStep

-----------------------------------------------------------------------------
(* The lists and the snapshot files.  Every step is one of a few changes of *)
(* the entries, the tasks, the names of the files and the clock.            *)

ListsOf(changes, points, tasks, now, names) ==
    IdentifiersOnce(changes, points, tasks, now) /\ FilesListed(changes, points, tasks, names)

\* No preview begins, moves to its end or ends.
NoPreview(a, b) ==
    \A u \in Tasks :
       /\ b[u].op = "preview" => /\ a[u].op = "preview" /\ b[u].id = a[u].id /\ b[u].kind = a[u].kind
                                 /\ b[u].pc \in {"open", "put", "load", "stage"}
       /\ b[u].pc = "stage" <=> a[u].pc = "stage"
       /\ b[u].pc = "stage" => b[u].id = a[u].id /\ b[u].op = a[u].op

LEMMA ListsWithoutPreview ==
  ASSUME NEW changes \in SUBSET Changes, NEW points \in SUBSET Points, NEW a \in [Tasks -> Requests], NEW b,
         NEW now \in Nat, NEW next \in {now, now + 1}, NEW names,
         ListsOf(changes, points, a, now, names), NoPreview(a, b)
  PROVE  ListsOf(changes, points, b, next, names)
<1>1. \A x \in Nat : x < now => x < next
  OBVIOUS
<1>2. \A e \in changes : e.id \in Nat /\ e.at \in Nat
  BY DEF Changes
<1>3. \A e \in points : e.id \in Nat /\ e.at \in Nat
  BY DEF Points
<1>4. \A u \in Tasks : a[u].id \in Nat
  BY DEF Requests
<1>5. IdentifiersOnce(changes, points, b, next)
  <2>1. (\A e \in changes : e.id < next /\ e.at < next) /\ (\A p \in points : p.id < next /\ p.at < next)
    BY <1>1, <1>2, <1>3 DEF ListsOf, IdentifiersOnce
  <2>2. ASSUME NEW t \in Tasks, b[t].op = "preview"
        PROVE  /\ b[t].id < next
               /\ b[t].pc \in {"open", "put", "load", "stage"} /\ b[t].kind \in BatchTools
               /\ \A e \in changes : b[t].id # e.id
               /\ \A p \in points : b[t].id # p.id
               /\ \A u \in Tasks : b[u].op = "preview" /\ b[t].id = b[u].id => t = u
    <3>1. /\ a[t].op = "preview" /\ b[t].id = a[t].id /\ b[t].kind = a[t].kind
          /\ b[t].pc \in {"open", "put", "load", "stage"}
      BY <2>2 DEF NoPreview
    <3>2. b[t].id < next
      BY <1>1, <1>4, <3>1 DEF ListsOf, IdentifiersOnce
    <3>3. /\ a[t].kind \in BatchTools /\ \A e \in changes : a[t].id # e.id
          /\ \A p \in points : a[t].id # p.id
          /\ \A u \in Tasks : a[u].op = "preview" /\ a[t].id = a[u].id => t = u
      BY <3>1 DEF ListsOf, IdentifiersOnce
    <3>4. \A u \in Tasks : b[u].op = "preview" => a[u].op = "preview" /\ b[u].id = a[u].id
      BY DEF NoPreview
    <3> QED
      BY <3>1, <3>2, <3>3, <3>4
  <2>3. (\A e \in changes, p \in points : e.id # p.id) /\ (\A e, f \in changes : e.id = f.id => e = f)
    BY DEF ListsOf, IdentifiersOnce
  <2> QED
    BY <2>1, <2>2, <2>3 DEF IdentifiersOnce
<1>6. FilesListed(changes, points, b, names)
  BY DEF FilesListed, NoPreview, ListsOf
<1> QED
  BY <1>5, <1>6 DEF ListsOf

\* Entries leave with their files.
Without(less, all, dropped) == less = {e \in all : e.id \notin dropped}
Among(dropped, changes, points) ==
    \A x \in dropped : (\E e \in changes : e.id = x) \/ (\E p \in points : p.id = x)

LEMMA ListsWithout ==
  ASSUME NEW changes, NEW points, NEW less, NEW fewer, NEW a, NEW now, NEW names, NEW dropped,
         ListsOf(changes, points, a, now, names),
         Without(less, changes, dropped), Without(fewer, points, dropped), Among(dropped, changes, points)
  PROVE  ListsOf(less, fewer, a, now, names \ dropped)
<1>0. /\ less = {e \in changes : e.id \notin dropped} /\ fewer = {p \in points : p.id \notin dropped}
      /\ \A x \in dropped : (\E e \in changes : e.id = x) \/ (\E p \in points : p.id = x)
  BY DEF Without, Among
<1>1. less \subseteq changes /\ fewer \subseteq points
  BY <1>0
<1>2. IdentifiersOnce(less, fewer, a, now)
  BY <1>1 DEF ListsOf, IdentifiersOnce
<1>3. ASSUME NEW t \in Tasks, a[t].pc = "stage" PROVE a[t].op = "preview" /\ a[t].id \in names \ dropped
  <2>1. a[t].op = "preview" /\ a[t].id \in names
    BY <1>3 DEF ListsOf, FilesListed
  <2>2. (\A e \in changes : a[t].id # e.id) /\ (\A p \in points : a[t].id # p.id)
    BY <2>1 DEF ListsOf, IdentifiersOnce
  <2> QED
    BY <1>0, <2>1, <2>2
<1>4. FilesListed(less, fewer, a, names \ dropped)
  <2>1. \A p \in fewer : p.id \in names \ dropped
    BY <1>0 DEF ListsOf, FilesListed
  <2>2. \A e \in less : ~Bundle(e) => e.id \in names \ dropped
    BY <1>0 DEF ListsOf, FilesListed
  <2>3. ASSUME NEW n \in names \ dropped
        PROVE  \/ \E p \in fewer : p.id = n
               \/ \E e \in less : ~Bundle(e) /\ e.id = n
               \/ \E t \in Tasks : a[t].pc = "stage" /\ a[t].id = n
               \/ n \in failed
    BY <1>0 DEF ListsOf, FilesListed
  <2> QED
    BY <1>3, <2>1, <2>2, <2>3 DEF FilesListed
<1> QED
  BY <1>2, <1>4 DEF ListsOf

\* A checkpoint under the clock.
LEMMA ListsWithPoint ==
  ASSUME NEW changes \in SUBSET Changes, NEW points \in SUBSET Points, NEW a \in [Tasks -> Requests],
         NEW now \in Nat, NEW names, NEW p \in Points, p.id = now, p.at = now,
         ListsOf(changes, points, a, now, names)
  PROVE  ListsOf(changes, points \cup {p}, a, now + 1, names \cup {now})
<1>1. now < now + 1 /\ \A x \in Nat : x < now => x < now + 1 /\ x # now
  OBVIOUS
<1>2. \A e \in changes : e.id \in Nat /\ e.at \in Nat
  BY DEF Changes
<1>3. \A e \in points : e.id \in Nat /\ e.at \in Nat
  BY DEF Points
<1>4. \A u \in Tasks : a[u].id \in Nat
  BY DEF Requests
<1>5. \A e \in changes : e.id < now + 1 /\ e.at < now + 1 /\ e.id # now
  BY <1>1, <1>2 DEF ListsOf, IdentifiersOnce
<1>6. \A q \in points : q.id < now + 1 /\ q.at < now + 1
  BY <1>1, <1>3 DEF ListsOf, IdentifiersOnce
<1>7. \A t \in Tasks : a[t].op = "preview" => a[t].id < now + 1 /\ a[t].id # now
  BY <1>1, <1>4 DEF ListsOf, IdentifiersOnce
<1>8. IdentifiersOnce(changes, points \cup {p}, a, now + 1)
  BY <1>1, <1>5, <1>6, <1>7, Zenon DEF ListsOf, IdentifiersOnce
<1>9. FilesListed(changes, points \cup {p}, a, names \cup {now})
  BY Zenon DEF ListsOf, FilesListed
<1> QED
  BY <1>8, <1>9 DEF ListsOf

\* A bundle under the clock: it has no file.
LEMMA ListsWithBundle ==
  ASSUME NEW changes \in SUBSET Changes, NEW points \in SUBSET Points, NEW a \in [Tasks -> Requests],
         NEW now \in Nat, NEW names, NEW e \in Changes, e.id = now, e.at = now, Bundle(e),
         ListsOf(changes, points, a, now, names)
  PROVE  ListsOf(changes \cup {e}, points, a, now + 1, names)
<1>1. now < now + 1 /\ \A x \in Nat : x < now => x < now + 1 /\ x # now
  OBVIOUS
<1>2. \A f \in changes : f.id \in Nat /\ f.at \in Nat
  BY DEF Changes
<1>3. \A p \in points : p.id \in Nat /\ p.at \in Nat
  BY DEF Points
<1>4. \A u \in Tasks : a[u].id \in Nat
  BY DEF Requests
<1>5. \A f \in changes : f.id < now + 1 /\ f.at < now + 1 /\ f.id # now
  BY <1>1, <1>2 DEF ListsOf, IdentifiersOnce
<1>6. \A q \in points : q.id < now + 1 /\ q.at < now + 1 /\ q.id # now
  BY <1>1, <1>3 DEF ListsOf, IdentifiersOnce
<1>7. \A t \in Tasks : a[t].op = "preview" => a[t].id < now + 1 /\ a[t].id # now
  BY <1>1, <1>4 DEF ListsOf, IdentifiersOnce
<1>8. IdentifiersOnce(changes \cup {e}, points, a, now + 1)
  BY <1>1, <1>5, <1>6, <1>7, Zenon DEF ListsOf, IdentifiersOnce
<1>9. FilesListed(changes \cup {e}, points, a, names)
  BY Zenon DEF ListsOf, FilesListed
<1> QED
  BY <1>8, <1>9 DEF ListsOf

\* The change of a preview that ends: its file is there already.
LEMMA ListsWithChange ==
  ASSUME NEW changes \in SUBSET Changes, NEW points \in SUBSET Points, NEW a \in [Tasks -> Requests], NEW b,
         NEW now \in Nat, NEW names, NEW t \in Tasks, NEW e \in Changes, e.id = a[t].id, e.at = now, ~Bundle(e),
         a[t].pc = "stage", b[t].pc = "idle", b[t].op = "none", \A u \in Tasks \ {t} : Same(b[u], a[u]),
         ListsOf(changes, points, a, now, names)
  PROVE  ListsOf(changes \cup {e}, points, b, now + 1, names)
<1>0. now < now + 1 /\ \A x \in Nat : x < now => x < now + 1
  OBVIOUS
<1>1. \A f \in changes : f.id \in Nat /\ f.at \in Nat
  BY DEF Changes
<1>2. \A p \in points : p.id \in Nat /\ p.at \in Nat
  BY DEF Points
<1>3. \A u \in Tasks : a[u].id \in Nat
  BY DEF Requests
<1>4. a[t].op = "preview" /\ a[t].id \in names
  BY DEF ListsOf, FilesListed
<1>5. /\ a[t].id < now /\ \A f \in changes : a[t].id # f.id
      /\ \A p \in points : a[t].id # p.id
      /\ \A u \in Tasks : a[u].op = "preview" /\ a[t].id = a[u].id => t = u
  BY <1>4 DEF ListsOf, IdentifiersOnce
<1>6. \A f \in changes \cup {e} : f.id < now + 1 /\ f.at < now + 1
  BY <1>0, <1>1, <1>3, <1>5 DEF ListsOf, IdentifiersOnce
<1>7. \A q \in points : q.id < now + 1 /\ q.at < now + 1
  BY <1>0, <1>2 DEF ListsOf, IdentifiersOnce
<1>8. ASSUME NEW u \in Tasks, b[u].op = "preview"
      PROVE  /\ u # t /\ a[u].op = "preview" /\ b[u].id = a[u].id /\ b[u].pc = a[u].pc /\ b[u].kind = a[u].kind
             /\ a[u].id < now + 1
  <2>1. u # t /\ a[u].op = "preview" /\ b[u].id = a[u].id /\ b[u].pc = a[u].pc /\ b[u].kind = a[u].kind
    BY <1>8 DEF Same
  <2>2. a[u].id < now
    BY <2>1 DEF ListsOf, IdentifiersOnce
  <2> QED
    BY <1>0, <1>3, <2>1, <2>2
<1>9. IdentifiersOnce(changes \cup {e}, points, b, now + 1)
  <2>1. \A c \in changes \cup {e}, p \in points : c.id # p.id
    BY <1>5 DEF ListsOf, IdentifiersOnce
  <2>2. \A c, f \in changes \cup {e} : c.id = f.id => c = f
    BY <1>5 DEF ListsOf, IdentifiersOnce
  <2>3. ASSUME NEW u \in Tasks, b[u].op = "preview"
        PROVE  /\ b[u].id < now + 1
               /\ b[u].pc \in {"open", "put", "load", "stage"} /\ b[u].kind \in BatchTools
               /\ \A c \in changes \cup {e} : b[u].id # c.id
               /\ \A p \in points : b[u].id # p.id
               /\ \A v \in Tasks : b[v].op = "preview" /\ b[u].id = b[v].id => u = v
    <3>1. /\ u # t /\ a[u].op = "preview" /\ b[u].id = a[u].id /\ b[u].pc = a[u].pc /\ b[u].kind = a[u].kind
          /\ a[u].id < now + 1
      BY <1>8, <2>3
    <3>2. /\ a[u].pc \in {"open", "put", "load", "stage"} /\ a[u].kind \in BatchTools
          /\ \A c \in changes : a[u].id # c.id
          /\ \A p \in points : a[u].id # p.id
          /\ \A v \in Tasks : a[v].op = "preview" /\ a[u].id = a[v].id => u = v
      BY <3>1 DEF ListsOf, IdentifiersOnce
    <3>3. a[u].id # e.id
      BY <1>4, <3>1, <3>2
    <3> QED
      BY <1>8, <3>1, <3>2, <3>3
  <2> QED
    BY <1>6, <1>7, <2>1, <2>2, <2>3 DEF IdentifiersOnce
<1>10. FilesListed(changes \cup {e}, points, b, names)
  <2>1. ASSUME NEW u \in Tasks, b[u].pc = "stage" PROVE b[u].op = "preview" /\ b[u].id \in names
    <3>1. u # t /\ a[u].pc = "stage" /\ b[u].op = a[u].op /\ b[u].id = a[u].id
      BY <2>1 DEF Same
    <3> QED
      BY <3>1 DEF ListsOf, FilesListed
  <2>2. ASSUME NEW n \in names
        PROVE  \/ \E p \in points : p.id = n
               \/ \E c \in changes \cup {e} : ~Bundle(c) /\ c.id = n
               \/ \E u \in Tasks : b[u].pc = "stage" /\ b[u].id = n
               \/ n \in failed
    <3>1. \/ \E p \in points : p.id = n
          \/ \E c \in changes : ~Bundle(c) /\ c.id = n
          \/ \E u \in Tasks : a[u].pc = "stage" /\ a[u].id = n
          \/ n \in failed
      BY DEF ListsOf, FilesListed
    <3>2. ASSUME NEW u \in Tasks, a[u].pc = "stage", a[u].id = n
          PROVE  \/ \E c \in changes \cup {e} : ~Bundle(c) /\ c.id = n
                 \/ \E v \in Tasks : b[v].pc = "stage" /\ b[v].id = n
      <4>1. CASE u = t
        BY <3>2, <4>1
      <4>2. CASE u # t
        <5>1. b[u].pc = "stage" /\ b[u].id = n
          BY <3>2, <4>2 DEF Same
        <5> QED
          BY <5>1
      <4> QED
        BY <4>1, <4>2
    <3> QED
      BY <3>1, <3>2
  <2>3. (\A p \in points : p.id \in names) /\ (\A c \in changes \cup {e} : ~Bundle(c) => c.id \in names)
    BY <1>4 DEF ListsOf, FilesListed
  <2> QED
    BY <2>1, <2>2, <2>3 DEF FilesListed
<1> QED
  BY <1>9, <1>10 DEF ListsOf

\* A preview begins with the clock as its identifier.
LEMMA ListsPreviewBegins ==
  ASSUME NEW changes \in SUBSET Changes, NEW points \in SUBSET Points, NEW a \in [Tasks -> Requests], NEW b,
         NEW now \in Nat, NEW names, NEW t \in Tasks, a[t].pc = "idle",
         b[t].pc \in {"open", "load"}, b[t].op = "preview", b[t].id = now, b[t].kind \in BatchTools,
         \A u \in Tasks \ {t} : Same(b[u], a[u]), ListsOf(changes, points, a, now, names)
  PROVE  ListsOf(changes, points, b, now + 1, names)
<1>0. now < now + 1 /\ \A x \in Nat : x < now => x < now + 1 /\ x # now
  OBVIOUS
<1>1. \A f \in changes : f.id \in Nat /\ f.at \in Nat
  BY DEF Changes
<1>2. \A p \in points : p.id \in Nat /\ p.at \in Nat
  BY DEF Points
<1>3. \A u \in Tasks : a[u].id \in Nat
  BY DEF Requests
<1>4. \A f \in changes : f.id < now + 1 /\ f.at < now + 1 /\ f.id # now
  BY <1>0, <1>1 DEF ListsOf, IdentifiersOnce
<1>5. \A q \in points : q.id < now + 1 /\ q.at < now + 1 /\ q.id # now
  BY <1>0, <1>2 DEF ListsOf, IdentifiersOnce
<1>6. ASSUME NEW u \in Tasks \ {t}, b[u].op = "preview"
      PROVE  /\ a[u].op = "preview" /\ b[u].id = a[u].id /\ a[u].id < now + 1 /\ a[u].id # now
             /\ b[u].pc \in {"open", "put", "load", "stage"} /\ b[u].kind \in BatchTools
             /\ \A c \in changes : b[u].id # c.id
             /\ \A p \in points : b[u].id # p.id
             /\ \A v \in Tasks : a[v].op = "preview" /\ a[u].id = a[v].id => u = v
  <2>1. a[u].op = "preview" /\ b[u].id = a[u].id /\ b[u].pc = a[u].pc /\ b[u].kind = a[u].kind
    BY <1>6 DEF Same
  <2>2. /\ a[u].id < now /\ a[u].pc \in {"open", "put", "load", "stage"} /\ a[u].kind \in BatchTools
        /\ \A c \in changes : a[u].id # c.id
        /\ \A p \in points : a[u].id # p.id
        /\ \A v \in Tasks : a[v].op = "preview" /\ a[u].id = a[v].id => u = v
    BY <2>1 DEF ListsOf, IdentifiersOnce
  <2> QED
    BY <1>0, <1>3, <2>1, <2>2
<1>7. ASSUME NEW u \in Tasks, b[u].op = "preview"
      PROVE  /\ b[u].id < now + 1
             /\ b[u].pc \in {"open", "put", "load", "stage"} /\ b[u].kind \in BatchTools
             /\ \A c \in changes : b[u].id # c.id
             /\ \A p \in points : b[u].id # p.id
             /\ \A v \in Tasks : b[v].op = "preview" /\ b[u].id = b[v].id => u = v
  <2>1. CASE u = t
    <3>1. \A v \in Tasks : b[v].op = "preview" /\ b[v].id = now => v = t
      BY <1>6
    <3> QED
      BY <1>0, <1>4, <1>5, <2>1, <3>1
  <2>2. CASE u # t
    <3>1. u \in Tasks \ {t}
      BY <2>2
    <3>2. \A v \in Tasks : b[v].op = "preview" /\ b[u].id = b[v].id => u = v
      <4> SUFFICES ASSUME NEW v \in Tasks, b[v].op = "preview", b[u].id = b[v].id PROVE u = v
        OBVIOUS
      <4>1. b[u].id # now
        BY <1>6, <1>7, <3>1
      <4>2. v # t
        BY <4>1
      <4>3. a[v].op = "preview" /\ b[v].id = a[v].id
        BY <1>6, <4>2
      <4> QED
        BY <1>6, <1>7, <3>1, <4>3
    <3> QED
      BY <1>6, <1>7, <3>1, <3>2
  <2> QED
    BY <2>1, <2>2
<1>8. IdentifiersOnce(changes, points, b, now + 1)
  BY <1>4, <1>5, <1>7 DEF ListsOf, IdentifiersOnce
<1>9. \A u \in Tasks : (b[u].pc = "stage" <=> a[u].pc = "stage") /\ (b[u].pc = "stage" => b[u].id = a[u].id /\ b[u].op = a[u].op)
  <2> SUFFICES ASSUME NEW u \in Tasks
               PROVE  (b[u].pc = "stage" <=> a[u].pc = "stage") /\ (b[u].pc = "stage" => b[u].id = a[u].id /\ b[u].op = a[u].op)
    OBVIOUS
  <2>1. CASE u = t
    BY <2>1
  <2>2. CASE u # t
    BY <2>2 DEF Same
  <2> QED
    BY <2>1, <2>2
<1>10. FilesListed(changes, points, b, names)
  BY <1>9 DEF ListsOf, FilesListed
<1> QED
  BY <1>8, <1>10 DEF ListsOf

\* A preview copies the work file to its snapshot.
LEMMA ListsPreviewLoads ==
  ASSUME NEW changes, NEW points, NEW a, NEW b, NEW now, NEW names, NEW t \in Tasks,
         a[t].op = "preview", a[t].pc = "load", b[t].op = "preview", b[t].pc = "stage", b[t].id = a[t].id,
         b[t].kind = a[t].kind, \A u \in Tasks \ {t} : Same(b[u], a[u]), ListsOf(changes, points, a, now, names)
  PROVE  ListsOf(changes, points, b, now, names \cup {a[t].id})
<1>1. \A u \in Tasks : /\ b[u].op = "preview" <=> a[u].op = "preview"
                       /\ b[u].op = "preview" => b[u].id = a[u].id /\ b[u].kind = a[u].kind
                       /\ u # t => b[u].pc = a[u].pc /\ b[u].id = a[u].id
  <2> SUFFICES ASSUME NEW u \in Tasks
               PROVE  /\ b[u].op = "preview" <=> a[u].op = "preview"
                      /\ b[u].op = "preview" => b[u].id = a[u].id /\ b[u].kind = a[u].kind
                      /\ u # t => b[u].pc = a[u].pc /\ b[u].id = a[u].id
    OBVIOUS
  <2>1. CASE u = t
    BY <2>1
  <2>2. CASE u # t
    BY <2>2 DEF Same
  <2> QED
    BY <2>1, <2>2
<1>2. ASSUME NEW u \in Tasks, b[u].op = "preview"
      PROVE  /\ b[u].id < now
             /\ b[u].pc \in {"open", "put", "load", "stage"} /\ b[u].kind \in BatchTools
             /\ \A c \in changes : b[u].id # c.id
             /\ \A p \in points : b[u].id # p.id
             /\ \A v \in Tasks : b[v].op = "preview" /\ b[u].id = b[v].id => u = v
  <2>1. a[u].op = "preview" /\ b[u].id = a[u].id /\ b[u].kind = a[u].kind
    BY <1>1, <1>2
  <2>2. /\ a[u].id < now /\ a[u].pc \in {"open", "put", "load", "stage"} /\ a[u].kind \in BatchTools
        /\ \A c \in changes : a[u].id # c.id
        /\ \A p \in points : a[u].id # p.id
        /\ \A v \in Tasks : a[v].op = "preview" /\ a[u].id = a[v].id => u = v
    BY <2>1 DEF ListsOf, IdentifiersOnce
  <2>3. b[u].pc \in {"open", "put", "load", "stage"}
    BY <1>1, <2>2
  <2> QED
    BY <1>1, <2>1, <2>2, <2>3
<1>3. IdentifiersOnce(changes, points, b, now)
  BY <1>2 DEF ListsOf, IdentifiersOnce
<1>4. FilesListed(changes, points, b, names \cup {a[t].id})
  <2>1. \A u \in Tasks : b[u].pc = "stage" => b[u].op = "preview" /\ b[u].id \in names \cup {a[t].id}
    BY <1>1 DEF ListsOf, FilesListed
  <2>2. ASSUME NEW n \in names \cup {a[t].id}
        PROVE  \/ \E p \in points : p.id = n
               \/ \E c \in changes : ~Bundle(c) /\ c.id = n
               \/ \E u \in Tasks : b[u].pc = "stage" /\ b[u].id = n
               \/ n \in failed
    <3>1. CASE n = a[t].id
      BY <3>1
    <3>2. CASE n \in names
      <4>1. \/ \E p \in points : p.id = n
            \/ \E c \in changes : ~Bundle(c) /\ c.id = n
            \/ \E u \in Tasks : a[u].pc = "stage" /\ a[u].id = n
            \/ n \in failed
        BY <3>2 DEF ListsOf, FilesListed
      <4>2. \A u \in Tasks : a[u].pc = "stage" => b[u].pc = "stage" /\ b[u].id = a[u].id
        BY <1>1
      <4> QED
        BY <4>1, <4>2
    <3> QED
      BY <3>1, <3>2
  <2>3. (\A p \in points : p.id \in names) /\ (\A c \in changes : ~Bundle(c) => c.id \in names)
    BY DEF ListsOf, FilesListed
  <2> QED
    BY <2>1, <2>2, <2>3 DEF FilesListed
<1> QED
  BY <1>3, <1>4 DEF ListsOf

\* The order of the checkpoints.
LEMMA FewerPoints ==
  ASSUME NEW points \in SUBSET Points, NEW fewer \in SUBSET points, NEW n \in Nat, NEW m \in Nat, n <= m,
         PointsInOrder(points, n)
  PROVE  PointsInOrder(fewer, m)
<1>1. \A p \in points : p.ops \in Nat
  BY DEF Points
<1>2. \A p \in points : p.ops <= m
  BY <1>1 DEF PointsInOrder
<1> QED
  BY <1>2 DEF PointsInOrder

LEMMA AnotherPoint ==
  ASSUME NEW points \in SUBSET Points, NEW n \in Nat, NEW now \in Nat, NEW p \in Points, p.ops = n, p.at = now,
         \A q \in points : q.at < now, PointsInOrder(points, n)
  PROVE  PointsInOrder(points \cup {p}, n)
<1>1. \A q \in points : q.ops \in Nat /\ q.at \in Nat
  BY DEF Points
<1>2. \A q \in points : q.ops <= n /\ ~(now <= q.at) /\ q.at <= now
  BY <1>1 DEF PointsInOrder
<1>3. n <= n
  OBVIOUS
<1> QED
  BY <1>2, <1>3 DEF PointsInOrder

LEMMA RestoredPoints ==
  ASSUME NEW points, NEW n, NEW p \in points, PointsInOrder(points, n)
  PROVE  PointsInOrder({q \in points : q.at <= p.at}, p.ops)
BY DEF PointsInOrder

\* What is known while the fork exists, and what is to show of the next state.
LEMMA ListsHold ==
  ASSUME Shapes, Lists, ~gone
  PROVE  /\ Entries(ctx.staged) \in SUBSET Changes /\ Entries(ctx.checkpoints) \in SUBSET Points
         /\ task \in [Tasks -> Requests] /\ clock \in Nat /\ Len(ctx.ops) \in Nat
         /\ ctx.staged \in Seq(Changes) /\ ctx.checkpoints \in Seq(Points)
         /\ Once(ctx.staged) /\ Once(ctx.checkpoints)
         /\ ListsOf(Entries(ctx.staged), Entries(ctx.checkpoints), task, clock, DOMAIN files)
         /\ PointsInOrder(Entries(ctx.checkpoints), Len(ctx.ops))
<1>1. ctx.staged \in Seq(Changes) /\ ctx.checkpoints \in Seq(Points) /\ ctx.ops \in Seq(Operations)
  BY ContextParts DEF Shapes
<1>2. Entries(ctx.staged) \in SUBSET Changes
  BY <1>1 DEF Entries
<1>3. Entries(ctx.checkpoints) \in SUBSET Points
  BY <1>1 DEF Entries
<1>4. Len(ctx.ops) \in Nat
  BY <1>1
<1> QED
  BY <1>1, <1>2, <1>3, <1>4 DEF Shapes, Lists, ListsOf

LEMMA ListsStep ==
  ASSUME failed' = failed, Once(ctx'.staged), Once(ctx'.checkpoints), PointsInOrder(Entries(ctx'.checkpoints), Len(ctx'.ops)),
         ListsOf(Entries(ctx'.staged), Entries(ctx'.checkpoints), task', clock', DOMAIN files')
  PROVE  Lists'
BY DEF Lists, ListsOf, Entries, Once, IdentifiersOnce, FilesListed, PointsInOrder, Bundle

LEMMA GoneLists == ASSUME gone' PROVE Lists'
BY DEF Lists

\* The operations recorded so far stay.
Longer == Len(ctx.ops) <= Len(ctx'.ops) /\ Len(ctx'.ops) \in Nat

LEMMA PushedIsLonger ==
  ASSUME Shapes, NEW o \in Operations, ctx'.ops = Append(ctx.ops, o)
  PROVE  Longer
<1>1. ctx.ops \in Seq(Operations)
  BY ContextParts DEF Shapes
<1> QED
  BY <1>1 DEF Longer

LEMMA SameIsLonger == ASSUME Shapes, ctx'.ops = ctx.ops PROVE Longer
<1>1. ctx.ops \in Seq(Operations)
  BY ContextParts DEF Shapes
<1> QED
  BY <1>1 DEF Longer

LEMMA ListsStill ==
  ASSUME failed' = failed, Shapes, Lists, ~gone, ctx'.staged = ctx.staged, ctx'.checkpoints = ctx.checkpoints, Longer,
         UNCHANGED files, NoPreview(task, task'), clock' \in {clock, clock + 1}
  PROVE  Lists'
<1>1. /\ Entries(ctx.staged) \in SUBSET Changes /\ Entries(ctx.checkpoints) \in SUBSET Points
      /\ task \in [Tasks -> Requests] /\ clock \in Nat /\ Len(ctx.ops) \in Nat
      /\ Once(ctx.staged) /\ Once(ctx.checkpoints)
      /\ ListsOf(Entries(ctx.staged), Entries(ctx.checkpoints), task, clock, DOMAIN files)
      /\ PointsInOrder(Entries(ctx.checkpoints), Len(ctx.ops))
  BY ListsHold
<1>2. PICK b, next : b = task' /\ next = clock'
  OBVIOUS
<1>3. ListsOf(Entries(ctx.staged), Entries(ctx.checkpoints), b, next, DOMAIN files)
  BY <1>1, <1>2, ListsWithoutPreview
<1>4. PICK m \in Nat : m = Len(ctx'.ops) /\ Len(ctx.ops) <= m
  BY DEF Longer
<1>5. PointsInOrder(Entries(ctx.checkpoints), m)
  BY <1>1, <1>4, FewerPoints
<1> QED
  BY <1>1, <1>2, <1>3, <1>4, <1>5, ListsStep

\* The lists without some identifiers.
LEMMA WiderLeft ==
  ASSUME NEW r, NEW s, NEW dropped, NEW more, Left(r, s, dropped), \A x \in more : x \notin Ids(s)
  PROVE  Left(r, s, dropped \cup more)
<1>1. \A e \in Entries(s) : e.id \in Ids(s)
  BY IdsOfEntries
<1> QED
  BY <1>1 DEF Left

LEMMA SameLeft ==
  ASSUME NEW s, Once(s), NEW more, \A x \in more : x \notin Ids(s)
  PROVE  Left(s, s, more)
<1>1. \A e \in Entries(s) : e.id \in Ids(s)
  BY IdsOfEntries
<1> QED
  BY <1>1 DEF Left

LEMMA IdsDiffer ==
  ASSUME Shapes, Lists, ~gone
  PROVE  \A x \in Ids(ctx.staged) : x \notin Ids(ctx.checkpoints)
<1>1. \A e \in Entries(ctx.staged), p \in Entries(ctx.checkpoints) : e.id # p.id
  BY DEF Lists, IdentifiersOnce
<1>2. \A x \in Ids(ctx.staged) : \E e \in Entries(ctx.staged) : e.id = x
  BY IdsOfEntries
<1>3. \A x \in Ids(ctx.checkpoints) : \E e \in Entries(ctx.checkpoints) : e.id = x
  BY IdsOfEntries
<1> QED
  BY <1>1, <1>2, <1>3

LEMMA ListsDrop ==
  ASSUME failed' = failed, Shapes, Lists, ~gone, NEW dropped, Left(ctx'.staged, ctx.staged, dropped),
         Left(ctx'.checkpoints, ctx.checkpoints, dropped),
         \A x \in dropped : x \in Ids(ctx.staged) \/ x \in Ids(ctx.checkpoints),
         DOMAIN files' = (DOMAIN files) \ dropped, NoPreview(task, task'), clock' \in {clock, clock + 1},
         PointsInOrder(Entries(ctx'.checkpoints), Len(ctx'.ops))
  PROVE  Lists'
<1>1. /\ Entries(ctx.staged) \in SUBSET Changes /\ Entries(ctx.checkpoints) \in SUBSET Points
      /\ task \in [Tasks -> Requests] /\ clock \in Nat
      /\ ListsOf(Entries(ctx.staged), Entries(ctx.checkpoints), task, clock, DOMAIN files)
  BY ListsHold
<1>2. PICK b, next, c : b = task' /\ next = clock' /\ c = ctx'
  OBVIOUS
<1>3. ListsOf(Entries(ctx.staged), Entries(ctx.checkpoints), b, next, DOMAIN files)
  BY <1>1, <1>2, ListsWithoutPreview
<1>4. /\ Entries(c.staged) = {e \in Entries(ctx.staged) : e.id \notin dropped}
      /\ Entries(c.checkpoints) = {p \in Entries(ctx.checkpoints) : p.id \notin dropped}
      /\ Once(c.staged) /\ Once(c.checkpoints)
  BY <1>2 DEF Left
<1>5. \A x \in dropped : (\E e \in Entries(ctx.staged) : e.id = x) \/ (\E p \in Entries(ctx.checkpoints) : p.id = x)
  <2>1. \A x \in Ids(ctx.staged) : \E e \in Entries(ctx.staged) : e.id = x
    BY IdsOfEntries
  <2>2. \A x \in Ids(ctx.checkpoints) : \E e \in Entries(ctx.checkpoints) : e.id = x
    BY IdsOfEntries
  <2> QED
    BY <2>1, <2>2
<1>7. /\ Without(Entries(c.staged), Entries(ctx.staged), dropped)
      /\ Without(Entries(c.checkpoints), Entries(ctx.checkpoints), dropped)
      /\ Among(dropped, Entries(ctx.staged), Entries(ctx.checkpoints))
  BY <1>4, <1>5, Zenon DEF Without, Among
<1>6. ListsOf(Entries(c.staged), Entries(c.checkpoints), b, next, (DOMAIN files) \ dropped)
  BY <1>3, <1>7, ListsWithout
<1> QED
  BY <1>2, <1>4, <1>6, ListsStep

\* A change leaves; a checkpoint leaves.
LEMMA ListsDropChange ==
  ASSUME failed' = failed, Shapes, Lists, ~gone, NEW i \in DOMAIN ctx.staged, Left(ctx'.staged, ctx.staged, {ctx.staged[i].id}),
         ctx'.checkpoints = ctx.checkpoints, Longer, files' = Kept(files, {ctx.staged[i].id}),
         NoPreview(task, task'), clock' \in {clock, clock + 1}
  PROVE  Lists'
<1>1. /\ Entries(ctx.checkpoints) \in SUBSET Points /\ Len(ctx.ops) \in Nat /\ Once(ctx.checkpoints)
      /\ PointsInOrder(Entries(ctx.checkpoints), Len(ctx.ops))
  BY ListsHold
<1>2. PICK dropped : dropped = {ctx.staged[i].id}
  OBVIOUS
<1>3. \A x \in dropped : x \in Ids(ctx.staged) /\ x \notin Ids(ctx.checkpoints)
  BY <1>2, IdsDiffer DEF Ids
<1>4. Left(ctx.checkpoints, ctx.checkpoints, dropped)
  BY <1>1, <1>3, SameLeft
<1>5. PICK m \in Nat : m = Len(ctx'.ops) /\ Len(ctx.ops) <= m
  BY DEF Longer
<1>6. PointsInOrder(Entries(ctx.checkpoints), m)
  BY <1>1, <1>5, FewerPoints
<1>7. DOMAIN files' = (DOMAIN files) \ dropped
  BY <1>2 DEF Kept
<1> QED
  BY <1>2, <1>3, <1>4, <1>5, <1>6, <1>7, ListsDrop

LEMMA ListsDropPoint ==
  ASSUME failed' = failed, Shapes, Lists, ~gone, NEW i \in DOMAIN ctx.checkpoints,
         Left(ctx'.checkpoints, ctx.checkpoints, {ctx.checkpoints[i].id}),
         ctx'.staged = ctx.staged, Longer, files' = Kept(files, {ctx.checkpoints[i].id}),
         NoPreview(task, task'), clock' \in {clock, clock + 1}
  PROVE  Lists'
<1>1. /\ Entries(ctx.checkpoints) \in SUBSET Points /\ Len(ctx.ops) \in Nat /\ Once(ctx.staged)
      /\ PointsInOrder(Entries(ctx.checkpoints), Len(ctx.ops))
  BY ListsHold
<1>2. PICK dropped, c : dropped = {ctx.checkpoints[i].id} /\ c = ctx'
  OBVIOUS
<1>3. \A x \in dropped : x \in Ids(ctx.checkpoints) /\ x \notin Ids(ctx.staged)
  BY <1>2, IdsDiffer DEF Ids
<1>4. Left(ctx.staged, ctx.staged, dropped)
  BY <1>1, <1>3, SameLeft
<1>5. PICK m \in Nat : m = Len(ctx'.ops) /\ Len(ctx.ops) <= m
  BY DEF Longer
<1>6. Entries(c.checkpoints) \in SUBSET Entries(ctx.checkpoints)
  BY <1>2 DEF Left
<1>7. PointsInOrder(Entries(c.checkpoints), m)
  BY <1>1, <1>5, <1>6, FewerPoints
<1>8. DOMAIN files' = (DOMAIN files) \ dropped
  BY <1>2 DEF Kept
<1> QED
  BY <1>2, <1>3, <1>4, <1>5, <1>7, <1>8, ListsDrop

\* A checkpoint is added, and the oldest leave.
LEMMA ListsAddPoint ==
  ASSUME failed' = failed, Shapes, Lists, ~gone, AddsPoint, NoPreview(task, task'), task' \in [Tasks -> Requests], clock' = clock + 1
  PROVE  Lists'
<1>1. /\ Entries(ctx.staged) \in SUBSET Changes /\ Entries(ctx.checkpoints) \in SUBSET Points
      /\ task \in [Tasks -> Requests] /\ clock \in Nat /\ Len(ctx.ops) \in Nat /\ ctx.checkpoints \in Seq(Points)
      /\ Once(ctx.staged) /\ Once(ctx.checkpoints)
      /\ ListsOf(Entries(ctx.staged), Entries(ctx.checkpoints), task, clock, DOMAIN files)
      /\ PointsInOrder(Entries(ctx.checkpoints), Len(ctx.ops))
  BY ListsHold
<1>2. PICK p \in Points, s \in Seq(Points), r \in Seq(Points) :
         /\ p.id = clock /\ p.at = clock /\ p.ops = Len(ctx.ops)
         /\ s = Append(ctx.checkpoints, p) /\ Once(s) /\ Left(r, s, Ids(s) \ Ids(r))
         /\ Lists_ctx(ctx.staged, r) /\ files' = Kept(With(files, clock, work), Ids(s) \ Ids(r))
  BY DEF AddsPoint
<1>3. PICK b, dropped, now : b = task' /\ dropped = Ids(s) \ Ids(r) /\ now = clock
  OBVIOUS
<1>4. b \in [Tasks -> Requests] /\ now \in Nat /\ NoPreview(task, b)
  BY <1>1, <1>3
<1>5. ListsOf(Entries(ctx.staged), Entries(ctx.checkpoints), b, now, DOMAIN files)
  BY <1>1, <1>3, <1>4, ListsWithoutPreview
<1>6. ListsOf(Entries(ctx.staged), Entries(ctx.checkpoints) \cup {p}, b, now + 1, (DOMAIN files) \cup {now})
  BY <1>1, <1>2, <1>3, <1>4, <1>5, ListsWithPoint
<1>7. Entries(s) = Entries(ctx.checkpoints) \cup {p} /\ Ids(s) = Ids(ctx.checkpoints) \cup {now}
  BY <1>1, <1>2, <1>3, AppendedList
<1>8. clock \notin Ids(ctx.staged) /\ \A x \in Ids(ctx.staged) : x \notin Ids(ctx.checkpoints)
  BY ClockIsNew, IdsDiffer
<1>9. \A x \in dropped : x \notin Ids(ctx.staged)
  BY <1>3, <1>7, <1>8
<1>10. Left(ctx.staged, ctx.staged, dropped)
  BY <1>1, <1>9, SameLeft
<1>11. /\ Entries(ctx.staged) = {e \in Entries(ctx.staged) : e.id \notin dropped}
       /\ Entries(r) = {e \in Entries(s) : e.id \notin dropped} /\ Once(r)
  BY <1>2, <1>3, <1>10 DEF Left
<1>12. \A x \in dropped : \E e \in Entries(s) : e.id = x
  <2>1. \A x \in Ids(s) : \E e \in Entries(s) : e.id = x
    BY IdsOfEntries
  <2> QED
    BY <1>3, <2>1
<1>13. ListsOf(Entries(ctx.staged), Entries(r), b, now + 1, ((DOMAIN files) \cup {now}) \ dropped)
  <2>1. PICK points, names : points = Entries(ctx.checkpoints) \cup {p} /\ names = (DOMAIN files) \cup {now}
    OBVIOUS
  <2>2. ListsOf(Entries(ctx.staged), points, b, now + 1, names)
    BY <1>6, <2>1
  <2>3. Entries(r) = {e \in points : e.id \notin dropped} /\ \A x \in dropped : \E e \in points : e.id = x
    BY <1>7, <1>11, <1>12, <2>1
  <2>5. /\ Without(Entries(ctx.staged), Entries(ctx.staged), dropped) /\ Without(Entries(r), points, dropped)
        /\ Among(dropped, Entries(ctx.staged), points)
    BY <1>11, <2>3, Zenon DEF Without, Among
  <2>4. ListsOf(Entries(ctx.staged), Entries(r), b, now + 1, names \ dropped)
    BY <2>2, <2>5, ListsWithout
  <2> QED
    BY <2>1, <2>4
<1>14. DOMAIN files' = ((DOMAIN files) \cup {now}) \ dropped
  BY <1>2, <1>3 DEF Kept, With
<1>15. \A q \in Entries(ctx.checkpoints) : q.at < clock
  BY DEF Lists, IdentifiersOnce
<1>16. PointsInOrder(Entries(s), Len(ctx.ops))
  BY <1>1, <1>2, <1>7, <1>15, AnotherPoint
<1>17. Entries(s) \in SUBSET Points /\ Entries(r) \in SUBSET Entries(s)
  BY <1>1, <1>7, <1>11
<1>18. PointsInOrder(Entries(r), Len(ctx.ops))
  <2>1. PICK n \in Nat : n = Len(ctx.ops) /\ n <= n
    BY <1>1
  <2>2. PointsInOrder(Entries(r), n)
    BY <1>16, <1>17, <2>1, FewerPoints
  <2> QED
    BY <2>1, <2>2
<1>19. ctx'.staged = ctx.staged /\ ctx'.checkpoints = r /\ ctx'.ops = ctx.ops
  BY <1>2 DEF Lists_ctx
<1> QED
  BY <1>1, <1>3, <1>11, <1>13, <1>14, <1>18, <1>19, ListsStep

\* A change is added to the list, and the oldest leave.
LEMMA ListsAddChange ==
  ASSUME failed' = failed, Shapes, Lists, ~gone, NEW e \in Changes, NEW s \in Seq(Changes), NEW r \in Seq(Changes),
         s = Append(ctx.staged, e), Once(s), Left(r, s, Ids(s) \ Ids(r)), e.id \notin Ids(ctx.checkpoints),
         ctx'.staged = r, ctx'.checkpoints = ctx.checkpoints, ctx'.ops = ctx.ops,
         files' = Kept(files, Ids(s) \ Ids(r)),
         ListsOf(Entries(ctx.staged) \cup {e}, Entries(ctx.checkpoints), task', clock', DOMAIN files)
  PROVE  Lists'
<1>1. /\ ctx.staged \in Seq(Changes) /\ Once(ctx.checkpoints)
      /\ PointsInOrder(Entries(ctx.checkpoints), Len(ctx.ops))
  BY ListsHold
<1>2. PICK b, dropped, now : b = task' /\ dropped = Ids(s) \ Ids(r) /\ now = clock'
  OBVIOUS
<1>3. Entries(s) = Entries(ctx.staged) \cup {e} /\ Ids(s) = Ids(ctx.staged) \cup {e.id}
  BY <1>1, AppendedList
<1>4. \A x \in dropped : x \notin Ids(ctx.checkpoints)
  BY <1>2, <1>3, IdsDiffer
<1>5. Left(ctx.checkpoints, ctx.checkpoints, dropped)
  BY <1>1, <1>4, SameLeft
<1>6. /\ Entries(ctx.checkpoints) = {p \in Entries(ctx.checkpoints) : p.id \notin dropped}
      /\ Entries(r) = {f \in Entries(s) : f.id \notin dropped} /\ Once(r)
  BY <1>2, <1>5 DEF Left
<1>7. \A x \in dropped : \E f \in Entries(s) : f.id = x
  <2>1. \A x \in Ids(s) : \E f \in Entries(s) : f.id = x
    BY IdsOfEntries
  <2> QED
    BY <1>2, <2>1
<1>8. ListsOf(Entries(s), Entries(ctx.checkpoints), b, now, DOMAIN files)
  BY <1>2, <1>3
<1>11. /\ Without(Entries(r), Entries(s), dropped)
       /\ Without(Entries(ctx.checkpoints), Entries(ctx.checkpoints), dropped)
       /\ Among(dropped, Entries(s), Entries(ctx.checkpoints))
  BY <1>6, <1>7, Zenon DEF Without, Among
<1>9. ListsOf(Entries(r), Entries(ctx.checkpoints), b, now, (DOMAIN files) \ dropped)
  BY <1>8, <1>11, ListsWithout
<1>10. DOMAIN files' = (DOMAIN files) \ dropped
  BY <1>2 DEF Kept
<1> QED
  BY <1>1, <1>2, <1>6, <1>9, <1>10, ListsStep

\* Which steps of a task leave the previews alone.
LEMMA SamePreviews ==
  ASSUME NEW t \in Tasks, Others(t), Same(task'[t], task[t]), Lists, ~gone
  PROVE  NoPreview(task, task')
<1> SUFFICES ASSUME NEW u \in Tasks
             PROVE  /\ task'[u].op = "preview" => /\ task[u].op = "preview" /\ task'[u].id = task[u].id
                                                  /\ task'[u].kind = task[u].kind
                                                  /\ task'[u].pc \in {"open", "put", "load", "stage"}
                    /\ task'[u].pc = "stage" <=> task[u].pc = "stage"
                    /\ task'[u].pc = "stage" => task'[u].id = task[u].id /\ task'[u].op = task[u].op
  BY DEF NoPreview
<1>1. Same(task'[u], task[u])
  BY DEF Others
<1>2. task[u].op = "preview" => task[u].pc \in {"open", "put", "load", "stage"}
  BY DEF Lists, IdentifiersOnce
<1> QED
  BY <1>1, <1>2 DEF Same

LEMMA OwnPreview ==
  ASSUME NEW t \in Tasks, Others(t), Lists, ~gone, task[t].pc # "stage", task'[t].pc # "stage",
         task'[t].op = "preview" => /\ task[t].op = "preview" /\ task'[t].id = task[t].id
                                    /\ task'[t].kind = task[t].kind /\ task'[t].pc \in {"open", "put", "load"}
  PROVE  NoPreview(task, task')
<1> SUFFICES ASSUME NEW u \in Tasks
             PROVE  /\ task'[u].op = "preview" => /\ task[u].op = "preview" /\ task'[u].id = task[u].id
                                                  /\ task'[u].kind = task[u].kind
                                                  /\ task'[u].pc \in {"open", "put", "load", "stage"}
                    /\ task'[u].pc = "stage" <=> task[u].pc = "stage"
                    /\ task'[u].pc = "stage" => task'[u].id = task[u].id /\ task'[u].op = task[u].op
  BY DEF NoPreview
<1>1. CASE u = t
  BY <1>1
<1>2. CASE u # t
  <2>1. Same(task'[u], task[u])
    BY <1>2 DEF Others
  <2>2. task[u].op = "preview" => task[u].pc \in {"open", "put", "load", "stage"}
    BY DEF Lists, IdentifiersOnce
  <2> QED
    BY <2>1, <2>2 DEF Same
<1> QED
  BY <1>1, <1>2

LEMMA NotPreview ==
  ASSUME NEW t \in Tasks, Lists, ~gone, task[t].pc \notin {"open", "put", "load", "stage"}
  PROVE  task[t].op # "preview"
BY DEF Lists, IdentifiersOnce

LEMMA InstantQuiet ==
  ASSUME Shapes, Lists, ~gone, NEW t \in Tasks, Instant(t)
  PROVE  NoPreview(task, task') /\ task' \in [Tasks -> Requests]
<1>1. Others(t) /\ Same(task'[t], task[t])
  BY InstantTasks
<1> QED
  BY <1>1, SamePreviews DEF Others

LEMMA ExitQuiet ==
  ASSUME Lists, ~gone, NEW t \in Tasks, Exits(t), task[t].pc # "stage"
  PROVE  NoPreview(task, task')
<1>1. Others(t) /\ task'[t].pc = "idle" /\ task'[t].op = "none"
  BY DEF Exits, Next_task
<1> QED
  BY <1>1, OwnPreview

LEMMA EnteredQuiet ==
  ASSUME Lists, ~gone, NEW t \in Tasks, NEW pc, NEW op, NEW kind, NEW tok, NEW id,
         Entered(t, pc, op, kind, tok, id), op # "preview", pc # "stage"
  PROVE  NoPreview(task, task')
<1>1. Others(t) /\ task[t].pc = "idle" /\ task'[t].pc = pc /\ task'[t].op = op
  BY DEF Entered, Next_task
<1> QED
  BY <1>1, OwnPreview

LEMMA GoesQuiet ==
  ASSUME Lists, ~gone, NEW t \in Tasks, NEW pc, NEW tok, NEW doc, NEW id,
         Goes(t, pc, tok, doc, id), task[t].pc \notin {"open", "put", "load", "stage"}, pc # "stage"
  PROVE  NoPreview(task, task')
<1>1. Others(t) /\ task'[t].pc = pc /\ task'[t].op = task[t].op
  BY DEF Goes, Next_task
<1>2. task[t].op # "preview"
  BY NotPreview
<1> QED
  BY <1>1, <1>2, OwnPreview

\* A task that opens a workbook, or loads without previewing.
LEMMA OpeningQuiet ==
  ASSUME Lists, ~gone, NEW t \in Tasks, NEW pc, NEW tok, NEW doc, Goes(t, pc, tok, doc, task[t].id),
         task[t].pc \notin {"stage"}, pc # "stage", pc \in {"open", "put", "load"} \/ task[t].op # "preview"
  PROVE  NoPreview(task, task')
<1>1. /\ Others(t) /\ task'[t].pc = pc /\ task'[t].op = task[t].op /\ task'[t].kind = task[t].kind
      /\ task'[t].id = task[t].id
  BY DEF Goes, Next_task
<1> QED
  BY <1>1, OwnPreview

SameLists == ctx'.staged = ctx.staged /\ ctx'.checkpoints = ctx.checkpoints /\ Longer

LEMMA SyncedLists ==
  ASSUME Shapes, ctx' \in {ctx, Synced}
  PROVE  SameLists
<1>1. Synced.staged = ctx.staged /\ Synced.checkpoints = ctx.checkpoints /\ Synced.ops = ctx.ops
  BY SyncedContext
<1> QED
  BY <1>1, SameIsLonger DEF SameLists

LEMMA NextLists ==
  ASSUME Shapes, NEW state, NEW content, NEW recalc, NEW ops,
         Next_ctx(state, content, ctx.staged, ctx.checkpoints, ops, recalc),
         ops = ctx.ops \/ \E o \in Operations : ops = Append(ctx.ops, o)
  PROVE  SameLists
BY SameIsLonger, PushedIsLonger DEF SameLists, Next_ctx

LEMMA DropsChangeLists ==
  ASSUME failed' = failed, Shapes, Lists, ~gone, DropsChange, NoPreview(task, task'), clock' \in {clock, clock + 1}
  PROVE  Lists'
<1>1. PICK i \in DOMAIN ctx.staged, r \in Seq(Changes) :
         /\ Left(r, ctx.staged, {ctx.staged[i].id})
         /\ Lists_ctx(r, ctx.checkpoints) /\ files' = Kept(files, {ctx.staged[i].id})
  BY DEF DropsChange
<1>2. ctx'.staged = r /\ ctx'.checkpoints = ctx.checkpoints /\ ctx'.ops = ctx.ops
  BY <1>1 DEF Lists_ctx
<1> QED
  BY <1>1, <1>2, SameIsLonger, ListsDropChange

LEMMA DropsPointLists ==
  ASSUME failed' = failed, Shapes, Lists, ~gone, DropsPoint, NoPreview(task, task'), clock' \in {clock, clock + 1}
  PROVE  Lists'
<1>1. PICK i \in DOMAIN ctx.checkpoints, r \in Seq(Points) :
         /\ Left(r, ctx.checkpoints, {ctx.checkpoints[i].id})
         /\ Lists_ctx(ctx.staged, r) /\ files' = Kept(files, {ctx.checkpoints[i].id})
  BY DEF DropsPoint
<1>2. ctx'.staged = ctx.staged /\ ctx'.checkpoints = r /\ ctx'.ops = ctx.ops
  BY <1>1 DEF Lists_ctx
<1> QED
  BY <1>1, <1>2, SameIsLonger, ListsDropPoint

LEMMA StageLists ==
  ASSUME failed' = failed, Shapes, Lists, NEW t \in Tasks, Stage(t)
  PROVE  Lists'
<1>1. ~gone /\ Instant(t) /\ clock' = clock + 1
  BY StageEffect
<1>2. PICK e \in Changes, r \in Seq(Changes), s \in Seq(Changes) :
         /\ e.id = clock /\ e.at = clock /\ Bundle(e) /\ s = Append(ctx.staged, e)
         /\ Once(s) /\ Left(r, s, Ids(s) \ Ids(r))
         /\ Next_ctx(Random(clock), work, r, ctx.checkpoints, ctx.ops, ctx.recalc)
         /\ files' = Kept(files, Ids(s) \ Ids(r))
  BY StageEffect
<1>3. NoPreview(task, task') /\ task' \in [Tasks -> Requests]
  BY <1>1, InstantQuiet
<1>4. /\ Entries(ctx.staged) \in SUBSET Changes /\ Entries(ctx.checkpoints) \in SUBSET Points
      /\ task \in [Tasks -> Requests] /\ clock \in Nat
      /\ ListsOf(Entries(ctx.staged), Entries(ctx.checkpoints), task, clock, DOMAIN files)
  BY <1>1, ListsHold
<1>5. PICK b, now : b = task' /\ now = clock
  OBVIOUS
<1>6. ListsOf(Entries(ctx.staged), Entries(ctx.checkpoints), b, now, DOMAIN files)
  BY <1>3, <1>4, <1>5, ListsWithoutPreview
<1>7. ListsOf(Entries(ctx.staged) \cup {e}, Entries(ctx.checkpoints), b, now + 1, DOMAIN files)
  BY <1>2, <1>3, <1>4, <1>5, <1>6, ListsWithBundle
<1>8. ctx'.staged = r /\ ctx'.checkpoints = ctx.checkpoints /\ ctx'.ops = ctx.ops
  BY <1>2 DEF Next_ctx
<1>9. e.id \notin Ids(ctx.checkpoints)
  BY <1>1, <1>2, ClockIsNew
<1> QED
  BY <1>1, <1>2, <1>5, <1>7, <1>8, <1>9, ListsAddChange

LEMMA AddStagedLists ==
  ASSUME failed' = failed, Shapes, Lists, NEW t \in Tasks, AddStaged(t)
  PROVE  Lists'
<1>1. task[t].pc = "stage" /\ Exits(t) /\ UNCHANGED gone
  BY AddStagedEffect
<1>2. CASE gone
  BY <1>1, <1>2, GoneLists
<1>3. CASE ~gone
  <2>1. PICK e \in Changes, r \in Seq(Changes), s \in Seq(Changes) :
           /\ e.id = task[t].id /\ e.at = clock /\ e.kind = task[t].kind /\ s = Append(ctx.staged, e)
           /\ Once(s) /\ Left(r, s, Ids(s) \ Ids(r))
           /\ Lists_ctx(r, ctx.checkpoints)
           /\ files' = Kept(files, Ids(s) \ Ids(r))
    BY <1>3, AddStagedEffect
  <2>2. clock' = clock + 1
    BY <1>3, AddStagedEffect
  <2>3. /\ Entries(ctx.staged) \in SUBSET Changes /\ Entries(ctx.checkpoints) \in SUBSET Points
        /\ task \in [Tasks -> Requests] /\ clock \in Nat
        /\ ListsOf(Entries(ctx.staged), Entries(ctx.checkpoints), task, clock, DOMAIN files)
    BY <1>3, ListsHold
  <2>4. PICK b, now : b = task' /\ now = clock
    OBVIOUS
  <2>5. b[t].pc = "idle" /\ b[t].op = "none" /\ \A u \in Tasks \ {t} : Same(b[u], task[u])
    BY <1>1, <2>4 DEF Exits, Next_task, Others
  <2>6. task[t].op = "preview"
    BY <1>1, <1>3 DEF Lists, FilesListed
  <2>7. task[t].kind \in BatchTools /\ \A p \in Entries(ctx.checkpoints) : task[t].id # p.id
    BY <1>3, <2>6 DEF Lists, IdentifiersOnce
  <2>8. ~Bundle(e)
    BY <2>1, <2>7 DEF Bundle, BatchTools
  <2>9. ListsOf(Entries(ctx.staged) \cup {e}, Entries(ctx.checkpoints), b, now + 1, DOMAIN files)
    BY <1>1, <2>1, <2>3, <2>4, <2>5, <2>8, ListsWithChange
  <2>10. ctx'.staged = r /\ ctx'.checkpoints = ctx.checkpoints /\ ctx'.ops = ctx.ops
    BY <2>1 DEF Lists_ctx
  <2>11. e.id \notin Ids(ctx.checkpoints)
    <3>1. \A x \in Ids(ctx.checkpoints) : \E p \in Entries(ctx.checkpoints) : p.id = x
      BY IdsOfEntries
    <3> QED
      BY <2>1, <2>7, <3>1
  <2> QED
    BY <1>3, <2>1, <2>2, <2>4, <2>9, <2>10, <2>11, ListsAddChange
<1> QED
  BY <1>2, <1>3

LEMMA RestoreLists ==
  ASSUME failed' = failed, Shapes, Lists, NEW t \in Tasks, CheckpointRestore(t)
  PROVE  Lists'
<1>1. ~gone /\ Instant(t) /\ clock' = clock + 1
  BY CheckpointRestoreEffect
<1>2. PICK i \in DOMAIN ctx.checkpoints : LET p == ctx.checkpoints[i] IN
         /\ Next_ctx(Random(clock), files[p.id], Until(ctx.staged, p.at), Until(ctx.checkpoints, p.at),
                     SubSeq(ctx.ops, 1, p.ops), p.recalc)
         /\ files' = Kept(files, Since(ctx.staged, p.at) \cup Since(ctx.checkpoints, p.at))
  BY CheckpointRestoreEffect
<1>3. PICK p, dropped : /\ p = ctx.checkpoints[i]
                        /\ dropped = Since(ctx.staged, p.at) \cup Since(ctx.checkpoints, p.at)
  OBVIOUS
<1>4. /\ ctx'.staged = Until(ctx.staged, p.at) /\ ctx'.checkpoints = Until(ctx.checkpoints, p.at)
      /\ ctx'.ops = SubSeq(ctx.ops, 1, p.ops) /\ files' = Kept(files, dropped)
  BY <1>2, <1>3 DEF Next_ctx
<1>5. p \in Entries(ctx.checkpoints) /\ p.at \in Nat /\ p.ops \in 0..Len(ctx.ops)
  BY <1>1, <1>3, RestoredPoint
<1>6. /\ Left(Until(ctx.staged, p.at), ctx.staged, Since(ctx.staged, p.at))
      /\ Since(ctx.staged, p.at) \subseteq Ids(ctx.staged)
      /\ Left(Until(ctx.checkpoints, p.at), ctx.checkpoints, Since(ctx.checkpoints, p.at))
      /\ Since(ctx.checkpoints, p.at) \subseteq Ids(ctx.checkpoints)
      /\ \A e \in Entries(ctx.checkpoints) : e.at <= p.at <=> e.id \notin Since(ctx.checkpoints, p.at)
  BY <1>1, <1>5, RestoredLists
<1>7. \A x \in Ids(ctx.staged) : x \notin Ids(ctx.checkpoints)
  BY <1>1, IdsDiffer
<1>8. Left(Until(ctx.staged, p.at), ctx.staged, dropped)
  <2>1. \A x \in Since(ctx.checkpoints, p.at) : x \notin Ids(ctx.staged)
    BY <1>6, <1>7
  <2>2. Left(Until(ctx.staged, p.at), ctx.staged, Since(ctx.staged, p.at) \cup Since(ctx.checkpoints, p.at))
    BY <1>6, <2>1, WiderLeft
  <2> QED
    BY <1>3, <2>2
<1>9. Left(Until(ctx.checkpoints, p.at), ctx.checkpoints, dropped)
  <2>1. \A x \in Since(ctx.staged, p.at) : x \notin Ids(ctx.checkpoints)
    BY <1>6, <1>7
  <2>2. Left(Until(ctx.checkpoints, p.at), ctx.checkpoints, Since(ctx.checkpoints, p.at) \cup Since(ctx.staged, p.at))
    BY <1>6, <2>1, WiderLeft
  <2>3. Since(ctx.checkpoints, p.at) \cup Since(ctx.staged, p.at) = dropped
    BY <1>3
  <2> QED
    BY <2>2, <2>3
<1>10. PointsInOrder(Entries(Until(ctx.checkpoints, p.at)), p.ops)
  <2>1. PointsInOrder(Entries(ctx.checkpoints), Len(ctx.ops))
    BY <1>1, ListsHold
  <2>2. Entries(Until(ctx.checkpoints, p.at)) = {q \in Entries(ctx.checkpoints) : q.at <= p.at}
    BY <1>6 DEF Left
  <2> QED
    BY <1>5, <2>1, <2>2, RestoredPoints
<1>11. Len(ctx'.ops) = p.ops
  <2>1. ctx.ops \in Seq(Operations)
    BY ContextParts DEF Shapes
  <2> QED
    BY <1>4, <1>5, <2>1
<1>12. NoPreview(task, task')
  BY <1>1, InstantQuiet
<1>13. \A x \in dropped : x \in Ids(ctx.staged) \/ x \in Ids(ctx.checkpoints)
  BY <1>3, <1>6
<1>14. DOMAIN files' = (DOMAIN files) \ dropped
  BY <1>4 DEF Kept
<1> QED
  BY <1>1, <1>4, <1>8, <1>9, <1>10, <1>11, <1>12, <1>13, <1>14, ListsDrop

LEMMA RestoreCheckpointLists ==
  ASSUME failed' = failed, Shapes, Lists, NEW t \in Tasks, RestoreCheckpoint(t)
  PROVE  Lists'
<1>1. ~gone /\ Entered(t, "close", "restore", "none", Hash(0), 0) /\ clock' = clock + 1
  BY RestoreCheckpointEffect
<1>2. PICK i \in DOMAIN ctx.checkpoints : LET p == ctx.checkpoints[i] IN
         /\ Next_ctx(Random(clock), files[p.id], Until(ctx.staged, p.at), ctx.checkpoints, ctx.ops, p.recalc)
         /\ files' = Kept(files, Since(ctx.staged, p.at))
  BY RestoreCheckpointEffect
<1>3. PICK p, dropped : p = ctx.checkpoints[i] /\ dropped = Since(ctx.staged, p.at)
  OBVIOUS
<1>4. /\ ctx'.staged = Until(ctx.staged, p.at) /\ ctx'.checkpoints = ctx.checkpoints /\ ctx'.ops = ctx.ops
      /\ files' = Kept(files, dropped)
  BY <1>2, <1>3 DEF Next_ctx
<1>5. p.at \in Nat
  BY <1>1, <1>3, RestoredPoint
<1>6. Left(Until(ctx.staged, p.at), ctx.staged, dropped) /\ dropped \subseteq Ids(ctx.staged)
  BY <1>1, <1>3, <1>5, RestoredLists
<1>7. \A x \in dropped : x \notin Ids(ctx.checkpoints)
  BY <1>1, <1>6, IdsDiffer
<1>8. Once(ctx.checkpoints) /\ PointsInOrder(Entries(ctx.checkpoints), Len(ctx.ops))
  BY <1>1, ListsHold
<1>9. Left(ctx.checkpoints, ctx.checkpoints, dropped)
  BY <1>7, <1>8, SameLeft
<1>10. NoPreview(task, task')
  BY <1>1, EnteredQuiet
<1>11. \A x \in dropped : x \in Ids(ctx.staged) \/ x \in Ids(ctx.checkpoints)
  BY <1>6
<1>12. DOMAIN files' = (DOMAIN files) \ dropped
  BY <1>4 DEF Kept
<1> QED
  BY <1>1, <1>4, <1>6, <1>8, <1>9, <1>10, <1>11, <1>12, ListsDrop

LEMMA CanonicalLists ==
  ASSUME failed' = failed, Shapes, Lists, NEW t \in Tasks, CanonicalStep(t)
  PROVE  Lists'
<1>1. CASE gone'
  BY <1>1, GoneLists
<1>2. CASE ~gone'
  <2>1. CASE Observe(t)
    <3>1. ~gone /\ Instant(t) /\ ctx' = Synced /\ UNCHANGED <<files, clock>>
      BY <2>1, ObserveEffect
    <3>2. NoPreview(task, task') /\ SameLists
      BY <3>1, InstantQuiet, SyncedLists
    <3> QED
      BY <3>1, <3>2, ListsStill DEF SameLists
  <2>2. CASE Write(t)
    <3>1. /\ ~gone /\ task[t].pc = "idle" /\ Others(t) /\ task'[t].pc = "revoke" /\ task'[t].op = "write"
          /\ clock' = clock + 1 /\ UNCHANGED files
          /\ \E o \in Operations : Next_ctx(Random(clock), Len(docs) + 1, ctx.staged, ctx.checkpoints,
                                            Append(ctx.ops, o), TRUE)
      BY <2>2, WriteEffect
    <3>2. NoPreview(task, task')
      BY <3>1, OwnPreview
    <3>3. SameLists
      BY <3>1, PushedIsLonger DEF SameLists, Next_ctx
    <3> QED
      BY <3>1, <3>2, <3>3, ListsStill DEF SameLists
  <2>3. CASE Stage(t)
    BY <2>3, StageLists
  <2>4. CASE StagedApply(t)
    <3>1. ~gone /\ Instant(t) /\ clock' = clock + 1
      BY <2>4, StagedApplyEffect
    <3>2. PICK i \in DOMAIN ctx.staged, r \in Seq(Changes), o \in Operations :
             /\ Left(r, ctx.staged, {ctx.staged[i].id})
             /\ Next_ctx(Random(clock), Len(docs) + 1, r, ctx.checkpoints, Append(ctx.ops, o), TRUE)
             /\ files' = Kept(files, {ctx.staged[i].id})
      BY <2>4, StagedApplyEffect
    <3>3. ctx'.staged = r /\ ctx'.checkpoints = ctx.checkpoints /\ ctx'.ops = Append(ctx.ops, o)
      BY <3>2 DEF Next_ctx
    <3>4. NoPreview(task, task')
      BY <3>1, InstantQuiet
    <3>5. Longer
      BY <3>3, PushedIsLonger
    <3> QED
      BY <3>1, <3>2, <3>3, <3>4, <3>5, ListsDropChange
  <2>5. CASE StagedDiscard(t)
    <3>1. ~gone /\ Instant(t) /\ clock' = clock + 1 /\ DropsChange
      BY <2>5, StagedDiscardEffect
    <3> QED
      BY <3>1, InstantQuiet, DropsChangeLists
  <2>6. CASE CheckpointCreate(t)
    <3>1. ~gone /\ Instant(t) /\ clock' = clock + 1 /\ AddsPoint
      BY <2>6, CheckpointCreateEffect
    <3> QED
      BY <3>1, InstantQuiet, ListsAddPoint
  <2>7. CASE CheckpointDelete(t)
    <3>1. ~gone /\ Instant(t) /\ clock' = clock + 1 /\ DropsPoint
      BY <2>7, CheckpointDeleteEffect
    <3> QED
      BY <3>1, InstantQuiet, DropsPointLists
  <2>8. CASE CheckpointRestore(t)
    BY <2>8, RestoreLists
  <2>9. CASE Export(t)
    <3>1. /\ ~gone /\ Instant(t) /\ clock' = clock + 1 /\ UNCHANGED files
          /\ Next_ctx(Random(clock), work, ctx.staged, ctx.checkpoints, ctx.ops, ctx.recalc)
      BY <2>9, ExportEffect
    <3>2. NoPreview(task, task')
      BY <3>1, InstantQuiet
    <3>3. SameLists
      BY <3>1, SameIsLonger DEF SameLists, Next_ctx
    <3> QED
      BY <3>1, <3>2, <3>3, ListsStill DEF SameLists
  <2>10. CASE Discard(t)
    BY <1>2, <2>10, DiscardEffect
  <2>11. CASE RecalcBegin(t)
    <3>1. /\ ~gone /\ ctx' = Synced /\ Entered(t, "copy", "recalculate", "none", Synced.state, 0)
          /\ clock' = clock + 1 /\ UNCHANGED files
      BY <2>11, RecalcBeginEffect
    <3>2. NoPreview(task, task') /\ SameLists
      BY <3>1, EnteredQuiet, SyncedLists
    <3> QED
      BY <3>1, <3>2, ListsStill DEF SameLists
  <2>12. CASE RecalcCopy(t)
    <3>1. /\ task[t].pc = "copy" /\ (Exits(t) \/ Goes(t, "permit", task[t].tok, work, task[t].id))
          /\ UNCHANGED <<files, ctx, gone, clock>>
      BY <2>12, RecalcCopyEffect
    <3>2. NoPreview(task, task') /\ SameLists
      BY <1>2, <3>1, ExitQuiet, GoesQuiet, SyncedLists
    <3> QED
      BY <1>2, <3>1, <3>2, ListsStill DEF SameLists
  <2>13. CASE Acquire(t)
    <3>1. /\ task[t].pc = "permit" /\ UNCHANGED <<files, ctx, gone, clock>>
          /\ \E pc \in {"evaluate", "evaluate_work"} : Goes(t, pc, task[t].tok, task[t].doc, task[t].id)
      BY <2>13, AcquireEffect
    <3>2. NoPreview(task, task') /\ SameLists
      BY <1>2, <3>1, GoesQuiet, SyncedLists
    <3> QED
      BY <1>2, <3>1, <3>2, ListsStill DEF SameLists
  <2>14. CASE RecalcCommit(t)
    <3>1. task[t].pc = "evaluate" /\ UNCHANGED <<files, gone>>
      BY <2>14, RecalcCommitEffect
    <3>2. CASE Exits(t) /\ ctx' \in {ctx, Synced} /\ UNCHANGED clock
      <4>1. NoPreview(task, task') /\ SameLists
        BY <1>2, <3>1, <3>2, ExitQuiet, SyncedLists
      <4> QED
        BY <1>2, <3>1, <3>2, <4>1, ListsStill DEF SameLists
    <3>3. ASSUME NEW o \in Operations, NEW n \in Nat, NEW flag, clock' = clock + 1,
                 Next_ctx(Random(clock), Len(docs) + 1, ctx.staged, ctx.checkpoints, Append(ctx.ops, o), flag),
                 Goes(t, "record", Random(clock), task[t].doc, n)
          PROVE  Lists'
      <4>1. NoPreview(task, task')
        BY <1>2, <3>1, <3>3, GoesQuiet
      <4>2. SameLists
        BY <3>3, PushedIsLonger DEF SameLists, Next_ctx
      <4> QED
        BY <1>2, <3>1, <3>3, <4>1, <4>2, ListsStill DEF SameLists
    <3> QED
      BY <2>14, <3>2, <3>3, RecalcCommitEffect
  <2>15. CASE Record(t) \/ Revoke(t)
    <3>1. /\ task[t].pc \in {"record", "revoke"} /\ Goes(t, "close", task[t].tok, task[t].doc, task[t].id)
          /\ UNCHANGED <<files, ctx, gone, clock>>
      BY <2>15, RecordEffect
    <3>2. NoPreview(task, task') /\ SameLists
      BY <1>2, <3>1, GoesQuiet, SyncedLists
    <3> QED
      BY <1>2, <3>1, <3>2, ListsStill DEF SameLists
  <2>16. CASE Close(t)
    <3>1. task[t].pc = "close" /\ Exits(t) /\ UNCHANGED <<files, ctx, gone, clock>>
      BY <2>16, CloseEffect
    <3>2. NoPreview(task, task') /\ SameLists
      BY <1>2, <3>1, ExitQuiet, SyncedLists
    <3> QED
      BY <1>2, <3>1, <3>2, ListsStill DEF SameLists
  <2>17. CASE ReadBegin(t)
    <3>1. /\ ~gone /\ Entered(t, "open1", "read", "none", Hash(0), 0) /\ clock' = clock + 1
          /\ UNCHANGED <<files, ctx>>
      BY <2>17, ReadBeginEffect
    <3>2. NoPreview(task, task') /\ SameLists
      BY <3>1, EnteredQuiet, SyncedLists
    <3> QED
      BY <3>1, <3>2, ListsStill DEF SameLists
  <2>18. CASE Open(t)
    <3>1. /\ task[t].pc \in Opening /\ UNCHANGED <<files, ctx, gone, clock>>
          /\ \/ Exits(t)
             \/ Goes(t, Then(task[t].pc), task[t].tok, cache, task[t].id)
             \/ Goes(t, PutFor(task[t].pc), task[t].tok, work, task[t].id)
      BY <2>18, OpenEffect
    <3>2. task[t].pc # "stage" /\ Then(task[t].pc) # "stage" /\ PutFor(task[t].pc) # "stage"
      BY <3>1 DEF Opening, Then, PutFor
    <3>3. \/ task[t].op # "preview"
          \/ Then(task[t].pc) \in {"open", "put", "load"} /\ PutFor(task[t].pc) \in {"open", "put", "load"}
      <4>1. CASE task[t].pc = "open"
        BY <4>1 DEF Then, PutFor
      <4>2. CASE task[t].pc # "open"
        <5>1. task[t].pc \notin {"open", "put", "load", "stage"}
          BY <3>1, <4>2 DEF Opening
        <5> QED
          BY <1>2, <3>1, <5>1, NotPreview
      <4> QED
        BY <4>1, <4>2
    <3>4. NoPreview(task, task') /\ SameLists
      BY <1>2, <3>1, <3>2, <3>3, ExitQuiet, OpeningQuiet, SyncedLists
    <3> QED
      BY <1>2, <3>1, <3>4, ListsStill DEF SameLists
  <2>19. CASE Put(t)
    <3>1. /\ task[t].pc \in Putting /\ UNCHANGED <<files, ctx, gone, clock>>
          /\ Goes(t, Then(OpenFor(task[t].pc)), task[t].tok, task[t].doc, task[t].id)
      BY <2>19, PutEffect
    <3>2. task[t].pc # "stage" /\ Then(OpenFor(task[t].pc)) # "stage"
      BY <3>1 DEF Putting, Then, OpenFor
    <3>3. task[t].op # "preview" \/ Then(OpenFor(task[t].pc)) \in {"open", "put", "load"}
      <4>1. CASE task[t].pc = "put"
        BY <4>1 DEF Then, OpenFor
      <4>2. CASE task[t].pc # "put"
        <5>1. task[t].pc \notin {"open", "put", "load", "stage"}
          BY <3>1, <4>2 DEF Putting
        <5> QED
          BY <1>2, <3>1, <5>1, NotPreview
      <4> QED
        BY <4>1, <4>2
    <3>4. NoPreview(task, task') /\ SameLists
      BY <1>2, <3>1, <3>2, <3>3, OpeningQuiet, SyncedLists
    <3> QED
      BY <1>2, <3>1, <3>4, ListsStill DEF SameLists
  <2>20. CASE Identify(t)
    <3>1. /\ task[t].pc = "identify" /\ ctx' \in {ctx, Synced} /\ UNCHANGED <<files, gone, clock>>
          /\ \/ Exits(t)
             \/ \E pc \in {"open2", "open3"} : Goes(t, pc, Synced.state, task[t].doc, task[t].id)
      BY <2>20, IdentifyEffect
    <3>2. NoPreview(task, task') /\ SameLists
      BY <1>2, <3>1, ExitQuiet, GoesQuiet, SyncedLists
    <3> QED
      BY <1>2, <3>1, <3>2, ListsStill DEF SameLists
  <2>21. CASE Answer(t)
    <3>1. task[t].pc = "answer" /\ Exits(t) /\ UNCHANGED <<files, ctx, gone, clock>>
      BY <2>21, AnswerEffect
    <3>2. NoPreview(task, task') /\ SameLists
      BY <1>2, <3>1, ExitQuiet, SyncedLists
    <3> QED
      BY <1>2, <3>1, <3>2, ListsStill DEF SameLists
  <2> QED
    BY <2>1, <2>2, <2>3, <2>4, <2>5, <2>6, <2>7, <2>8, <2>9, <2>10, <2>11, <2>12, <2>13, <2>14, <2>15, <2>16,
       <2>17, <2>18, <2>19, <2>20, <2>21 DEF CanonicalStep
<1> QED
  BY <1>1, <1>2

LEMMA ToolLists ==
  ASSUME failed' = failed, Shapes, Lists, NEW t \in Tasks, ToolStep(t)
  PROVE  Lists'
<1>1. CASE gone'
  BY <1>1, GoneLists
<1>2. CASE ~gone'
  <2>1. CASE BatchBegin(t)
    <3>1. ~gone /\ clock' = clock + 1 /\ UNCHANGED <<files, ctx>>
      BY <2>1, BatchBeginEffect
    <3>2. PICK k \in Batches, mode \in {"apply", "preview"}, pc \in {"open", "load"} :
             Entered(t, pc, mode, k, Hash(0), clock)
      BY <2>1, BatchBeginEffect
    <3>3. CASE mode # "preview"
      <4>1. NoPreview(task, task') /\ SameLists
        BY <3>1, <3>2, <3>3, EnteredQuiet, SyncedLists
      <4> QED
        BY <3>1, <4>1, ListsStill DEF SameLists
    <3>4. CASE mode = "preview"
      <4>1. /\ Entries(ctx.staged) \in SUBSET Changes /\ Entries(ctx.checkpoints) \in SUBSET Points
            /\ task \in [Tasks -> Requests] /\ clock \in Nat /\ Once(ctx.staged) /\ Once(ctx.checkpoints)
            /\ ListsOf(Entries(ctx.staged), Entries(ctx.checkpoints), task, clock, DOMAIN files)
            /\ PointsInOrder(Entries(ctx.checkpoints), Len(ctx.ops))
        BY <3>1, ListsHold
      <4>2. Batches \subseteq BatchTools
        BY ForkLifecycleAssumption DEF Shapes, Batches
      <4>3. PICK b, now : b = task' /\ now = clock
        OBVIOUS
      <4>4. /\ task[t].pc = "idle" /\ b[t].pc \in {"open", "load"} /\ b[t].op = "preview" /\ b[t].id = now
            /\ b[t].kind \in BatchTools /\ \A u \in Tasks \ {t} : Same(b[u], task[u])
        BY <3>2, <3>4, <4>2, <4>3 DEF Entered, Next_task, Others
      <4>5. ListsOf(Entries(ctx.staged), Entries(ctx.checkpoints), b, now + 1, DOMAIN files)
        BY <4>1, <4>3, <4>4, ListsPreviewBegins
      <4> QED
        BY <3>1, <4>1, <4>3, <4>5, ListsStep
    <3> QED
      BY <3>3, <3>4
  <2>2. CASE Load(t)
    <3>1. task[t].pc = "load" /\ UNCHANGED <<ctx, gone, clock>>
      BY <2>2, LoadEffect
    <3>2. CASE UNCHANGED files /\ (Exits(t) \/ (task[t].op # "preview" /\ Goes(t, "save", task[t].tok, work, task[t].id)))
      <4>1. NoPreview(task, task') /\ SameLists
        BY <1>2, <3>1, <3>2, ExitQuiet, OpeningQuiet, SyncedLists
      <4> QED
        BY <1>2, <3>1, <3>2, <4>1, ListsStill DEF SameLists
    <3>3. CASE /\ task[t].op = "preview" /\ Goes(t, "stage", task[t].tok, work, task[t].id)
               /\ files' = With(files, task[t].id, work)
      <4>1. /\ Once(ctx.staged) /\ Once(ctx.checkpoints)
            /\ ListsOf(Entries(ctx.staged), Entries(ctx.checkpoints), task, clock, DOMAIN files)
            /\ PointsInOrder(Entries(ctx.checkpoints), Len(ctx.ops))
        BY <1>2, <3>1, ListsHold
      <4>2. PICK b : b = task'
        OBVIOUS
      <4>3. /\ b[t].op = "preview" /\ b[t].pc = "stage" /\ b[t].id = task[t].id
            /\ b[t].kind = task[t].kind /\ \A u \in Tasks \ {t} : Same(b[u], task[u])
        BY <3>3, <4>2 DEF Goes, Next_task, Others
      <4>4. ListsOf(Entries(ctx.staged), Entries(ctx.checkpoints), b, clock, (DOMAIN files) \cup {task[t].id})
        BY <3>1, <3>3, <4>1, <4>3, ListsPreviewLoads
      <4>5. DOMAIN files' = (DOMAIN files) \cup {task[t].id}
        BY <3>3 DEF With
      <4> QED
        BY <3>1, <4>1, <4>2, <4>4, <4>5, ListsStep
    <3> QED
      BY <2>2, <3>2, <3>3, LoadEffect
  <2>3. CASE AddStaged(t)
    BY <2>3, AddStagedLists
  <2>4. CASE Save(t)
    <3>1. /\ task[t].pc = "save" /\ UNCHANGED <<files, ctx, gone, clock>>
          /\ \/ Exits(t)
             \/ Goes(t, "flag", task[t].tok, task[t].doc, task[t].id)
             \/ \E pc \in {"consume", "close"} : Goes(t, pc, task[t].tok, task[t].doc, task[t].id)
      BY <2>4, SaveEffect, Zenon
    <3>2. NoPreview(task, task') /\ SameLists
      BY <1>2, <3>1, ExitQuiet, GoesQuiet, SyncedLists
    <3> QED
      BY <1>2, <3>1, <3>2, ListsStill DEF SameLists
  <2>5. CASE Flag(t)
    <3>0. gone' = gone /\ files' = files /\ clock' = clock
      BY <2>5, FlagEffect
    <3>1. /\ task[t].pc = "flag" /\ UNCHANGED <<files, gone, clock>>
          /\ Next_ctx(ctx.state, ctx.content, ctx.staged, ctx.checkpoints, ctx.ops, TRUE)
          /\ \E pc \in {"consume", "close"} : Goes(t, pc, task[t].tok, task[t].doc, task[t].id)
      BY <1>2, <2>5, <3>0, FlagEffect
    <3>2. NoPreview(task, task')
      BY <1>2, <3>1, GoesQuiet
    <3>3. SameLists
      BY <3>1, SameIsLonger DEF SameLists, Next_ctx
    <3> QED
      BY <1>2, <3>1, <3>2, <3>3, ListsStill DEF SameLists
  <2>6. CASE ApplyStaged(t)
    <3>1. /\ ~gone /\ clock' = clock + 1 /\ UNCHANGED <<files, ctx>>
          /\ \E i \in DOMAIN ctx.staged : Entered(t, "load", "replay", ctx.staged[i].kind, Hash(0), ctx.staged[i].id)
      BY <2>6, ApplyStagedEffect
    <3>2. NoPreview(task, task') /\ SameLists
      BY <3>1, EnteredQuiet, SyncedLists
    <3> QED
      BY <3>1, <3>2, ListsStill DEF SameLists
  <2>7. CASE ApplyBundle(t)
    <3>1. /\ ~gone /\ clock' = clock + 1 /\ UNCHANGED files
          /\ Next_ctx(Random(clock), Len(docs) + 1, ctx.staged, ctx.checkpoints, ctx.ops, TRUE)
          /\ \E i \in DOMAIN ctx.staged, pc \in {"flag", "consume"} :
                Entered(t, pc, "replay", "canonical_write_bundle", Hash(0), ctx.staged[i].id)
      BY <2>7, ApplyBundleEffect
    <3>2. NoPreview(task, task')
      BY <3>1, EnteredQuiet
    <3>3. SameLists
      BY <3>1, SameIsLonger DEF SameLists, Next_ctx
    <3> QED
      BY <3>1, <3>2, <3>3, ListsStill DEF SameLists
  <2>8. CASE Consume(t)
    <3>1. task[t].pc = "consume" /\ UNCHANGED gone
      BY <2>8, ConsumeEffect
    <3>2. CASE Exits(t) /\ UNCHANGED <<ctx, files, clock>>
      <4>1. NoPreview(task, task') /\ SameLists
        BY <1>2, <3>1, <3>2, ExitQuiet, SyncedLists
      <4> QED
        BY <1>2, <3>1, <3>2, <4>1, ListsStill DEF SameLists
    <3>3. CASE DropsChange /\ clock' = clock + 1 /\ Goes(t, "close", task[t].tok, task[t].doc, task[t].id)
      <4>1. NoPreview(task, task')
        BY <1>2, <3>1, <3>3, GoesQuiet
      <4> QED
        BY <1>2, <3>1, <3>3, <4>1, DropsChangeLists
    <3> QED
      BY <2>8, <3>2, <3>3, ConsumeEffect
  <2>9. CASE EvaluateBegin(t)
    <3>1. /\ ~gone /\ Entered(t, "permit", "evaluate", "none", Hash(0), 0) /\ clock' = clock + 1
          /\ UNCHANGED <<files, ctx>>
      BY <2>9, EvaluateBeginEffect
    <3>2. NoPreview(task, task') /\ SameLists
      BY <3>1, EnteredQuiet, SyncedLists
    <3> QED
      BY <3>1, <3>2, ListsStill DEF SameLists
  <2>10. CASE EvaluateWork(t)
    <3>1. /\ task[t].pc = "evaluate_work" /\ UNCHANGED <<files, ctx, gone, clock>>
          /\ Exits(t) \/ \E n \in Nat : Goes(t, "settle", task[t].tok, task[t].doc, n)
      BY <2>10, EvaluateWorkEffect
    <3>2. NoPreview(task, task') /\ SameLists
      BY <1>2, <3>1, ExitQuiet, GoesQuiet, SyncedLists
    <3> QED
      BY <1>2, <3>1, <3>2, ListsStill DEF SameLists
  <2>11. CASE EvaluateFlag(t)
    <3>1. /\ task[t].pc = "settle" /\ UNCHANGED <<files, gone, clock>>
          /\ Goes(t, "close", task[t].tok, task[t].doc, task[t].id)
          /\ \E b \in BOOLEAN : Next_ctx(ctx.state, ctx.content, ctx.staged, ctx.checkpoints, ctx.ops, b)
      BY <1>2, <2>11, EvaluateFlagEffect
    <3>2. NoPreview(task, task')
      BY <1>2, <3>1, GoesQuiet
    <3>3. SameLists
      BY <3>1, SameIsLonger DEF SameLists, Next_ctx
    <3> QED
      BY <1>2, <3>1, <3>2, <3>3, ListsStill DEF SameLists
  <2>12. CASE RestoreCheckpoint(t)
    BY <2>12, RestoreCheckpointLists
  <2>13. CASE CheckpointFork(t)
    <3>1. ~gone /\ Instant(t) /\ clock' = clock + 1 /\ AddsPoint
      BY <2>13, CheckpointForkEffect
    <3> QED
      BY <3>1, InstantQuiet, ListsAddPoint
  <2>14. CASE DeleteCheckpoint(t)
    <3>1. ~gone /\ Instant(t) /\ clock' = clock + 1 /\ DropsPoint
      BY <2>14, DeleteCheckpointEffect
    <3> QED
      BY <3>1, InstantQuiet, DropsPointLists
  <2>15. CASE DiscardStaged(t)
    <3>1. ~gone /\ Instant(t) /\ clock' = clock + 1 /\ DropsChange
      BY <2>15, DiscardStagedEffect
    <3> QED
      BY <3>1, InstantQuiet, DropsChangeLists
  <2>16. CASE SaveFork(t)
    BY <1>2, <2>16, SaveForkEffect
  <2> QED
    BY <2>1, <2>2, <2>3, <2>4, <2>5, <2>6, <2>7, <2>8, <2>9, <2>10, <2>11, <2>12, <2>13, <2>14, <2>15, <2>16
    DEF ToolStep
<1> QED
  BY <1>1, <1>2

-----------------------------------------------------------------------------
(* The canonical surface alone.  A step leaves the context as it is, or it  *)
(* makes a new revision with a token that nobody has seen, or it discards.  *)

Holds == Shapes /\ Lists /\ CanonicalOnly /\ CanonicalTasks /\ NamedOnce /\ Explained /\ LoneTasks

Calm ==
    /\ ctx' = ctx /\ clock' \in {clock, clock + 1} /\ UNCHANGED <<docs, work, gone>>
    /\ named' = named \/ (~gone /\ Responds)
Quiet == Calm /\ UNCHANGED files
Revises ==
    /\ ~gone /\ ~gone' /\ ctx' \in Contexts /\ ctx'.state = Random(clock) /\ ctx'.content = work' /\ Responds
    /\ clock' = clock + 1
Drops == ~gone /\ gone' /\ ctx' = ctx /\ clock' = clock + 1 /\ UNCHANGED named

\* No tool is offered, and no task is where only a tool goes.
LEMMA NoToolSteps ==
  ASSUME Holds, NEW t \in Tasks
  PROVE  ~ToolStep(t)
<1>1. Batches = {} /\ Lifecycle = {} /\ task[t].pc \in CanonicalPlaces
  BY DEF Holds, CanonicalOnly, CanonicalTasks
<1>2. ~BatchBegin(t)
  BY <1>1 DEF BatchBegin
<1>3. /\ ~Load(t) /\ ~AddStaged(t) /\ ~Save(t) /\ ~Flag(t) /\ ~Consume(t) /\ ~EvaluateWork(t) /\ ~EvaluateFlag(t)
  BY <1>1 DEF CanonicalPlaces, Load, AddStaged, Save, Flag, Consume, EvaluateWork, EvaluateFlag
<1>4. /\ ~ApplyStaged(t) /\ ~ApplyBundle(t) /\ ~EvaluateBegin(t) /\ ~RestoreCheckpoint(t) /\ ~CheckpointFork(t)
      /\ ~DeleteCheckpoint(t) /\ ~DiscardStaged(t) /\ ~SaveFork(t)
  BY <1>1 DEF ApplyStaged, ApplyBundle, EvaluateBegin, RestoreCheckpoint, CheckpointFork, DeleteCheckpoint,
              DiscardStaged, SaveFork
<1> QED
  BY <1>2, <1>3, <1>4 DEF ToolStep

LEMMA SyncedIsCurrent ==
  ASSUME Holds, ~gone
  PROVE  Synced = ctx
<1>1. Shapes /\ ctx.content = work
  BY DEF Holds, NamedOnce
<1> QED
  BY <1>1, SyncedContext

LEMMA SectionClass ==
  ASSUME Holds, NEW t \in Tasks,
         \/ Write(t) \/ Stage(t) \/ StagedApply(t) \/ StagedDiscard(t) \/ CheckpointCreate(t)
         \/ CheckpointDelete(t) \/ CheckpointRestore(t) \/ Export(t)
  PROVE  Revises
<1>0. Shapes /\ Lists
  BY DEF Holds
<1>1. CASE Write(t)
  BY <1>0, <1>1, WriteEffect DEF Next_ctx, Revises
<1>2. CASE Stage(t)
  BY <1>0, <1>2, StageEffect DEF Next_ctx, Revises
<1>3. CASE StagedApply(t)
  BY <1>0, <1>3, StagedApplyEffect DEF Next_ctx, Revises
<1>4. CASE StagedDiscard(t)
  BY <1>0, <1>4, StagedDiscardEffect DEF Lists_ctx, DropsChange, Revises
<1>5. CASE CheckpointCreate(t)
  BY <1>0, <1>5, CheckpointCreateEffect DEF Lists_ctx, AddsPoint, Revises
<1>6. CASE CheckpointDelete(t)
  BY <1>0, <1>6, CheckpointDeleteEffect DEF Lists_ctx, DropsPoint, Revises
<1>7. CASE CheckpointRestore(t)
  BY <1>0, <1>7, CheckpointRestoreEffect DEF Next_ctx, Revises
<1>8. CASE Export(t)
  BY <1>0, <1>8, ExportEffect DEF Next_ctx, Revises
<1> QED
  BY <1>1, <1>2, <1>3, <1>4, <1>5, <1>6, <1>7, <1>8

LEMMA TaskClass ==
  ASSUME Holds, NEW t \in Tasks,
         \/ Observe(t) \/ RecalcBegin(t) \/ RecalcCopy(t) \/ Acquire(t) \/ Record(t) \/ Revoke(t) \/ Close(t)
         \/ ReadBegin(t) \/ Open(t) \/ Put(t) \/ Identify(t) \/ Answer(t)
  PROVE  Quiet
<1>0. Shapes /\ Lists
  BY DEF Holds
<1>1. CASE Observe(t)
  BY <1>0, <1>1, ObserveEffect, SyncedIsCurrent DEF Quiet, Calm
<1>2. CASE RecalcBegin(t)
  BY <1>0, <1>2, RecalcBeginEffect, SyncedIsCurrent DEF Quiet, Calm
<1>3. CASE RecalcCopy(t)
  BY <1>0, <1>3, RecalcCopyEffect DEF Quiet, Calm
<1>4. CASE Acquire(t)
  BY <1>0, <1>4, AcquireEffect DEF Quiet, Calm
<1>5. CASE Record(t) \/ Revoke(t)
  BY <1>0, <1>5, RecordEffect DEF Quiet, Calm
<1>6. CASE Close(t)
  BY <1>0, <1>6, CloseEffect DEF Quiet, Calm
<1>7. CASE ReadBegin(t)
  BY <1>0, <1>7, ReadBeginEffect DEF Quiet, Calm
<1>8. CASE Open(t)
  BY <1>0, <1>8, OpenEffect DEF Quiet, Calm
<1>9. CASE Put(t)
  BY <1>0, <1>9, PutEffect DEF Quiet, Calm
<1>10. CASE Identify(t)
  BY <1>0, <1>10, IdentifyEffect, SyncedIsCurrent DEF Quiet, Calm
<1>11. CASE Answer(t)
  BY <1>0, <1>11, AnswerEffect DEF Quiet, Calm
<1> QED
  BY <1>1, <1>2, <1>3, <1>4, <1>5, <1>6, <1>7, <1>8, <1>9, <1>10, <1>11

LEMMA CommitClass ==
  ASSUME Holds, NEW t \in Tasks, RecalcCommit(t)
  PROVE  (Quiet /\ Exits(t)) \/ Revises
<1>0. Shapes /\ Lists
  BY DEF Holds
<1>1. CASE gone
  BY <1>0, <1>1, RecalcCommitEffect DEF Quiet, Calm
<1>2. CASE ~gone /\ Exits(t) /\ ctx' = Synced /\ UNCHANGED <<docs, work, clock, named>>
  BY <1>0, <1>2, RecalcCommitEffect, SyncedIsCurrent DEF Quiet, Calm
<1>3. CASE ~gone /\ work' = Len(docs) + 1 /\ Responds /\ clock' = clock + 1
  <2>1. gone' = gone
    BY <1>0, RecalcCommitEffect
  <2>2. clock' # clock
    BY <1>0, <1>3 DEF Shapes
  <2>3. ctx' \in Contexts /\ ctx'.state = Random(clock) /\ ctx'.content = Len(docs) + 1
    BY <1>0, <1>3, <2>2, RecalcCommitEffect, Zenon DEF Next_ctx
  <2> QED
    BY <1>3, <2>1, <2>3 DEF Revises
<1> QED
  BY <1>0, <1>1, <1>2, <1>3, RecalcCommitEffect

LEMMA DiscardClass ==
  ASSUME Holds, NEW t \in Tasks, Discard(t)
  PROVE  Drops
<1>0. Shapes /\ Lists
  BY DEF Holds
<1> QED
  BY <1>0, DiscardEffect, SyncedIsCurrent DEF Drops

LEMMA StepClass ==
  ASSUME Holds, NEW t \in Tasks, CanonicalStep(t)
  PROVE  Quiet \/ Revises \/ Drops
BY SectionClass, TaskClass, CommitClass, DiscardClass DEF CanonicalStep

LEMMA OldStays ==
  ASSUME NEW tok \in Tokens, clock \in Nat, clock' \in {clock, clock + 1}, Old(tok)
  PROVE  Old(tok)'
<1>1. tok[2] \in Nat
  BY DEF Tokens
<1> QED
  BY <1>1 DEF Old

LEMMA RandomIsNew ==
  ASSUME clock \in Nat, NEW tok, Old(tok)
  PROVE  tok # Random(clock)
BY DEF Old, Random

LEMMA RandomIsOld ==
  ASSUME clock \in Nat, clock' = clock + 1, NEW tok, tok = Random(clock)
  PROVE  tok \in Tokens /\ Old(tok)'
BY DEF Old, Random, Tokens

\* What NamedOnce says of one set of names: every name but one is from before.
LEMMA NamedWith ==
  ASSUME Holds, clock' \in {clock, clock + 1}, NEW s \in Tokens, NEW v, Old(s)',
         named' \subseteq named \cup {<<s, v>>}, \A n \in named : n[1] = s => n[2] = v
  PROVE  /\ \A n \in named' : n[1] \in Tokens /\ Old(n[1])'
         /\ \A n, m \in named' : n[1] = m[1] => n[2] = m[2]
         /\ \A n \in named' : n[1] = s => n[2] = v
<1>1. /\ clock \in Nat /\ \A n \in named : n[1] \in Tokens /\ Old(n[1])
      /\ \A n, m \in named : n[1] = m[1] => n[2] = m[2]
  BY DEF Holds, Shapes, NamedOnce
<1>2. ASSUME NEW n \in named' PROVE n[1] \in Tokens /\ Old(n[1])'
  <2>1. CASE n \in named
    BY <1>1, <2>1, OldStays
  <2>2. CASE n = <<s, v>>
    BY <2>2
  <2> QED
    BY <2>1, <2>2
<1>3. ASSUME NEW n \in named', n[1] = s PROVE n[2] = v
  BY <1>3
<1>4. ASSUME NEW n \in named', NEW m \in named', n[1] = m[1] PROVE n[2] = m[2]
  BY <1>1, <1>3, <1>4
<1> QED
  BY <1>2, <1>3, <1>4

LEMMA NamedQuiet ==
  ASSUME Holds, Calm
  PROVE  NamedOnce'
<1>1. PICK s, v : s = ctx.state /\ v = View(ctx, work)
  OBVIOUS
<1>2. s \in Tokens /\ clock \in Nat /\ Old(s)
  BY <1>1, ContextParts DEF Holds, Shapes, NamedOnce
<1>3. Old(s)'
  BY <1>2, OldStays DEF Calm
<1>4. CASE gone
  <2>1. named' = named /\ gone' /\ ctx' = ctx /\ clock' \in {clock, clock + 1} /\ clock \in Nat
    BY <1>4 DEF Calm, Holds, Shapes
  <2>2. \A n \in named : n[1] \in Tokens /\ Old(n[1])
    BY DEF Holds, NamedOnce
  <2>3. \A n \in named' : n[1] \in Tokens /\ Old(n[1])'
    BY <2>1, <2>2, OldStays
  <2>4. \A n, m \in named' : n[1] = m[1] => n[2] = m[2]
    BY <2>1 DEF Holds, NamedOnce
  <2>5. Old(ctx.state)'
    BY <1>1, <1>3, <2>1 DEF Old
  <2> QED
    BY <2>1, <2>3, <2>4, <2>5 DEF NamedOnce, Old
<1>5. CASE ~gone
  <2>1. ctx' = ctx /\ work' = work /\ clock' \in {clock, clock + 1} /\ ~gone' /\ ctx.content = work
    BY <1>5 DEF Calm, Holds, NamedOnce
  <2>2. View(ctx', work') = v
    BY <1>1, <2>1 DEF View, Ids
  <2>3. named' \subseteq named \cup {<<s, v>>}
    BY <1>1, <2>1, <2>2 DEF Calm, Responds
  <2>4. \A n \in named : n[1] = s => n[2] = v
    BY <1>1, <1>5 DEF Holds, NamedOnce
  <2>5. /\ \A n \in named' : n[1] \in Tokens /\ Old(n[1])'
        /\ \A n, m \in named' : n[1] = m[1] => n[2] = m[2]
        /\ \A n \in named' : n[1] = s => n[2] = v
    BY <1>2, <1>3, <2>1, <2>3, <2>4, NamedWith
  <2>6. Old(ctx.state)'
    BY <1>1, <1>3, <2>1 DEF Old
  <2> QED
    BY <1>1, <2>1, <2>2, <2>5, <2>6 DEF NamedOnce, Old
<1> QED
  BY <1>4, <1>5

LEMMA NamedRevised ==
  ASSUME Holds, Revises
  PROVE  NamedOnce'
<1>1. PICK s, v : s = ctx'.state /\ v = View(ctx', work')
  OBVIOUS
<1>2. clock \in Nat /\ clock' = clock + 1 /\ s = Random(clock) /\ ctx'.content = work' /\ ~gone'
  BY <1>1 DEF Holds, Shapes, Revises
<1>3. s \in Tokens /\ Old(s)'
  BY <1>2, RandomIsOld
<1>4. \A n \in named : n[1] # s
  BY <1>2, RandomIsNew DEF Holds, NamedOnce
<1>5. named' \subseteq named \cup {<<s, v>>}
  BY <1>1 DEF Revises, Responds
<1>6. /\ \A n \in named' : n[1] \in Tokens /\ Old(n[1])'
      /\ \A n, m \in named' : n[1] = m[1] => n[2] = m[2]
      /\ \A n \in named' : n[1] = s => n[2] = v
  BY <1>2, <1>3, <1>4, <1>5, NamedWith
<1>7. Old(ctx.state)'
  BY <1>1, <1>3 DEF Old
<1> QED
  BY <1>1, <1>2, <1>6, <1>7 DEF NamedOnce, Old

LEMMA NamedDropped ==
  ASSUME Holds, Drops
  PROVE  NamedOnce'
<1>1. PICK s : s = ctx.state
  OBVIOUS
<1>2. s \in Tokens /\ clock \in Nat /\ Old(s) /\ named' = named /\ gone' /\ ctx' = ctx /\ clock' = clock + 1
  BY <1>1, ContextParts DEF Holds, Shapes, NamedOnce, Drops
<1>3. Old(s)'
  BY <1>2, OldStays
<1>4. \A n \in named' : n[1] \in Tokens /\ Old(n[1])'
  BY <1>2, OldStays DEF Holds, NamedOnce
<1>5. \A n, m \in named' : n[1] = m[1] => n[2] = m[2]
  BY <1>2 DEF Holds, NamedOnce
<1>6. Old(ctx.state)'
  BY <1>1, <1>2, <1>3 DEF Old
<1> QED
  BY <1>2, <1>4, <1>5, <1>6 DEF NamedOnce, Old

LEMMA TasksStep ==
  ASSUME Holds, clock' \in {clock, clock + 1}, NEW t \in Tasks, Others(t),
         task'[t].pc \in CanonicalPlaces, task'[t].pc \in {"copy", "permit"} => task'[t].op = "recalculate",
         NEW tok, tok = task'[t].tok, Old(tok)'
  PROVE  CanonicalTasks'
<1>1. clock \in Nat /\ \A u \in Tasks : task[u].tok \in Tokens
  BY RequestParts DEF Holds, Shapes
<1>2. ASSUME NEW u \in Tasks
      PROVE  /\ task'[u].pc \in CanonicalPlaces /\ Old(task[u].tok)'
             /\ task'[u].pc \in {"copy", "permit"} => task'[u].op = "recalculate"
  <2>1. CASE u = t
    BY <2>1 DEF Old
  <2>2. CASE u # t
    <3>1. PICK old \in Tokens : old = task[u].tok
      BY <1>1
    <3>2. /\ task[u].pc \in CanonicalPlaces /\ Old(old)
          /\ task[u].pc \in {"copy", "permit"} => task[u].op = "recalculate"
      BY <3>1 DEF Holds, CanonicalTasks
    <3>3. Old(old)'
      BY <1>1, <3>2, OldStays
    <3>4. task'[u].pc = task[u].pc /\ task'[u].op = task[u].op /\ task'[u].tok = old
      BY <2>2, <3>1 DEF Others, Same
    <3> QED
      BY <3>2, <3>3, <3>4 DEF Old
  <2> QED
    BY <2>1, <2>2
<1> QED
  BY <1>2 DEF CanonicalTasks, Old

LEMMA HashIsOld == \A n : Old(Hash(n)) /\ Old(Hash(n))'
BY DEF Old, Hash

LEMMA OwnTask ==
  ASSUME Holds, NEW t \in Tasks
  PROVE  /\ task[t].pc \in CanonicalPlaces /\ Old(task[t].tok)
         /\ task[t].pc \in {"copy", "permit"} => task[t].op = "recalculate"
BY DEF Holds, CanonicalTasks

LEMMA TasksInstant ==
  ASSUME Holds, clock' \in {clock, clock + 1}, NEW t \in Tasks, Instant(t)
  PROVE  CanonicalTasks'
<1>1. PICK tok : tok = task[t].tok
  OBVIOUS
<1>2. Others(t) /\ Same(task'[t], task[t])
  BY InstantTasks DEF Holds
<1>3. tok \in Tokens /\ clock \in Nat
  BY <1>1, RequestParts DEF Holds, Shapes
<1>4. /\ task[t].pc \in CanonicalPlaces /\ Old(tok)
      /\ task[t].pc \in {"copy", "permit"} => task[t].op = "recalculate"
  BY <1>1, OwnTask
<1>5. Old(tok)'
  BY <1>3, <1>4, OldStays
<1> QED
  BY <1>1, <1>2, <1>4, <1>5, TasksStep DEF Same

LEMMA TasksExit ==
  ASSUME Holds, clock' \in {clock, clock + 1}, NEW t \in Tasks, Exits(t)
  PROVE  CanonicalTasks'
<1>1. PICK tok : tok = Hash(0)
  OBVIOUS
<1>2. Others(t) /\ task'[t].pc = "idle" /\ task'[t].tok = tok /\ Old(tok)'
  BY <1>1, HashIsOld DEF Exits, Next_task
<1> QED
  BY <1>2, TasksStep DEF CanonicalPlaces

LEMMA TasksEnter ==
  ASSUME Holds, clock' \in {clock, clock + 1}, NEW t \in Tasks,
         NEW pc \in CanonicalPlaces, NEW op, NEW tok \in Tokens, NEW id, Old(tok),
         pc \in {"copy", "permit"} => op = "recalculate",
         Entered(t, pc, op, "none", tok, id)
  PROVE  CanonicalTasks'
<1>1. clock \in Nat
  BY DEF Holds, Shapes
<1>2. Old(tok)'
  BY <1>1, OldStays
<1>3. Others(t) /\ task'[t].pc = pc /\ task'[t].tok = tok /\ task'[t].op = op
  BY DEF Entered, Next_task
<1> QED
  BY <1>2, <1>3, TasksStep

LEMMA TasksGo ==
  ASSUME Holds, clock' \in {clock, clock + 1}, NEW t \in Tasks,
         NEW pc \in CanonicalPlaces, NEW tok, NEW doc, NEW id, Old(tok)',
         pc \in {"copy", "permit"} => task[t].op = "recalculate",
         Goes(t, pc, tok, doc, id)
  PROVE  CanonicalTasks'
<1>3. Others(t) /\ task'[t].pc = pc /\ task'[t].tok = tok /\ task'[t].op = task[t].op
  BY DEF Goes, Next_task
<1> QED
  BY <1>3, TasksStep

\* A task that goes on with the token it has.
LEMMA TasksMove ==
  ASSUME Holds, clock' \in {clock, clock + 1}, NEW t \in Tasks,
         NEW pc \in CanonicalPlaces, NEW doc, NEW id,
         pc \in {"copy", "permit"} => task[t].op = "recalculate",
         Goes(t, pc, task[t].tok, doc, id)
  PROVE  CanonicalTasks'
<1>1. PICK tok \in Tokens : tok = task[t].tok
  BY RequestParts DEF Holds
<1>2. clock \in Nat /\ Old(tok)
  BY <1>1, OwnTask DEF Holds, Shapes
<1>3. Old(tok)'
  BY <1>2, OldStays
<1> QED
  BY <1>1, <1>3, TasksGo

LEMMA WriteEnters ==
  ASSUME Shapes, NEW t \in Tasks, Write(t)
  PROVE  Entered(t, "revoke", "write", "none", Hash(0), 0)
<1>1. PICK r : r = [Idle EXCEPT !.pc = "revoke", !.op = "write"]
  OBVIOUS
<1>2. /\ r \in Requests /\ r.pc = "revoke" /\ r.op = "write" /\ r.doc = 0 /\ r.tok = Hash(0) /\ r.kind = "none"
      /\ r.id = 0
  BY <1>1, IdleRequest DEF Requests, Places, CanonicalPlaces, Work, Idle, None
<1>3. Enter(t, r) /\ task[t].pc = "idle"
  BY <1>1, FreeTask DEF Write
<1>4. Entered(t, r.pc, r.op, r.kind, r.tok, r.id)
  BY <1>2, <1>3, EntersNew
<1> QED
  BY <1>2, <1>4

LEMMA CanonicalTasksStep ==
  ASSUME Holds, NEW t \in Tasks, CanonicalStep(t)
  PROVE  CanonicalTasks'
<1>0. Shapes /\ Lists
  BY DEF Holds
<1>1. clock' \in {clock, clock + 1}
  BY StepClass DEF Quiet, Calm, Revises, Drops
<1>2. CASE \/ Observe(t) \/ Stage(t) \/ StagedApply(t) \/ StagedDiscard(t) \/ CheckpointCreate(t)
           \/ CheckpointDelete(t) \/ CheckpointRestore(t) \/ Export(t) \/ Discard(t)
  <2>1. Instant(t)
    BY <1>2 DEF Observe, Stage, StagedApply, StagedDiscard, CheckpointCreate, CheckpointDelete, CheckpointRestore,
                Export, Discard
  <2> QED
    BY <1>1, <2>1, TasksInstant
<1>3. Hash(0) \in Tokens /\ Old(Hash(0))
  BY HashIsOld DEF Hash, Tokens
<1>4. CASE Write(t)
  BY <1>0, <1>1, <1>3, <1>4, WriteEnters, TasksEnter DEF CanonicalPlaces
<1>5. CASE ReadBegin(t)
  BY <1>0, <1>1, <1>3, <1>5, ReadBeginEffect, TasksEnter DEF CanonicalPlaces
<1>6. CASE RecalcBegin(t)
  <2>1. ~gone /\ Entered(t, "copy", "recalculate", "none", Synced.state, 0)
    BY <1>0, <1>6, RecalcBeginEffect
  <2>2. PICK tok : tok = ctx.state
    OBVIOUS
  <2>3. tok \in Tokens /\ Old(tok)
    BY <1>0, <2>2, ContextParts DEF Shapes, Holds, NamedOnce
  <2>4. Entered(t, "copy", "recalculate", "none", tok, 0)
    BY <2>1, <2>2, SyncedIsCurrent
  <2> QED
    BY <1>1, <2>3, <2>4, TasksEnter DEF CanonicalPlaces
<1>7. CASE RecalcCopy(t)
  <2>1. task[t].op = "recalculate"
    BY <1>0, <1>7, RecalcCopyEffect, OwnTask
  <2> QED
    BY <1>0, <1>1, <1>7, <2>1, RecalcCopyEffect, TasksExit, TasksMove DEF CanonicalPlaces
<1>8. CASE Acquire(t)
  <2>1. task[t].op = "recalculate"
    BY <1>0, <1>8, AcquireEffect, OwnTask
  <2> QED
    BY <1>0, <1>1, <1>8, <2>1, AcquireEffect, TasksMove DEF CanonicalPlaces
<1>9. CASE RecalcCommit(t)
  <2>1. CASE Exits(t)
    BY <1>1, <2>1, TasksExit
  <2>2. CASE \E n \in Nat : Goes(t, "record", Random(clock), task[t].doc, n) /\ clock' = clock + 1
    <3>1. PICK n \in Nat : Goes(t, "record", Random(clock), task[t].doc, n) /\ clock' = clock + 1
      BY <2>2
    <3>2. PICK tok : tok = Random(clock)
      OBVIOUS
    <3>3. Old(tok)'
      BY <1>0, <3>1, <3>2, RandomIsOld DEF Shapes
    <3> QED
      BY <1>1, <3>1, <3>2, <3>3, TasksGo DEF CanonicalPlaces
  <2> QED
    BY <1>0, <1>9, <2>1, <2>2, RecalcCommitEffect
<1>10. CASE Record(t) \/ Revoke(t)
  BY <1>0, <1>1, <1>10, RecordEffect, TasksMove DEF CanonicalPlaces
<1>11. CASE Close(t)
  BY <1>0, <1>1, <1>11, CloseEffect, TasksExit
<1>12. CASE Open(t)
  <2>1. task[t].pc \in {"open1", "open2", "open3"}
    BY <1>0, <1>12, OpenEffect, OwnTask DEF Opening, CanonicalPlaces
  <2>2. Then(task[t].pc) \in {"identify", "open3", "answer"} /\ PutFor(task[t].pc) \in {"put1", "put2", "put3"}
    BY <2>1 DEF Then, PutFor
  <2> QED
    BY <1>0, <1>1, <1>12, <2>2, OpenEffect, TasksExit, TasksMove DEF CanonicalPlaces
<1>13. CASE Put(t)
  <2>1. task[t].pc \in {"put1", "put2", "put3"}
    BY <1>0, <1>13, PutEffect, OwnTask DEF Putting, CanonicalPlaces
  <2>2. Then(OpenFor(task[t].pc)) \in {"identify", "open3", "answer"}
    BY <2>1 DEF Then, OpenFor
  <2> QED
    BY <1>0, <1>1, <1>13, <2>2, PutEffect, TasksMove DEF CanonicalPlaces
<1>14. CASE Identify(t)
  <2>1. CASE gone
    BY <1>0, <1>1, <1>14, <2>1, IdentifyEffect, TasksExit
  <2>2. CASE ~gone
    <3>1. PICK tok : tok = ctx.state
      OBVIOUS
    <3>2. tok \in Tokens /\ Old(tok) /\ clock \in Nat /\ Synced.state = tok
      BY <1>0, <2>2, <3>1, ContextParts, SyncedIsCurrent DEF Shapes, Holds, NamedOnce
    <3>3. Old(tok)'
      BY <1>1, <3>2, OldStays
    <3>4. \E pc \in {"open2", "open3"} : Goes(t, pc, tok, task[t].doc, task[t].id)
      BY <1>0, <1>14, <2>2, <3>2, IdentifyEffect
    <3> QED
      BY <1>1, <3>3, <3>4, TasksGo DEF CanonicalPlaces
  <2> QED
    BY <2>1, <2>2
<1>15. CASE Answer(t)
  BY <1>0, <1>1, <1>15, AnswerEffect, TasksExit
<1> QED
  BY <1>2, <1>4, <1>5, <1>6, <1>7, <1>8, <1>9, <1>10, <1>11, <1>12, <1>13, <1>14, <1>15 DEF CanonicalStep

\* The three parts of Explained.
WorkExplained == docs[work].edits = EditsOf(ctx.ops, Len(ctx.ops))
PointsExplained ==
    \A p \in Entries(ctx.checkpoints) : docs[files[p.id]].edits = EditsOf(ctx.ops, p.ops)
CopiesCurrent ==
    \A t \in Tasks : task[t].pc \in {"permit", "evaluate"} /\ task[t].tok = ctx.state => task[t].doc = work

LEMMA ExplainedParts ==
  /\ Holds /\ ~gone => WorkExplained /\ PointsExplained /\ CopiesCurrent
  /\ WorkExplained' /\ PointsExplained' /\ CopiesCurrent' => Explained'
  /\ gone' => Explained'
BY DEF Holds, Explained, WorkExplained, PointsExplained, CopiesCurrent

LEMMA EditsBefore ==
  ASSUME NEW ops, NEW more, NEW n, \A i \in 1..n : more[i] = ops[i]
  PROVE  EditsOf(more, n) = EditsOf(ops, n)
BY DEF EditsOf

OneMoreEdit(more, ops, o) ==
    /\ EditsOf(more, Len(more)) = EditsOf(ops, Len(ops)) \cup ({o.edit} \ {0})
    /\ \A n \in 0..Len(ops) : EditsOf(more, n) = EditsOf(ops, n)

LEMMA EditsWithOne ==
  ASSUME NEW ops \in Seq(Operations), NEW o \in Operations, NEW more, more = Append(ops, o)
  PROVE  OneMoreEdit(more, ops, o)
<1>1. /\ Len(more) = Len(ops) + 1 /\ Len(ops) \in Nat /\ more[Len(ops) + 1] = o
      /\ \A i \in 1..Len(ops) : more[i] = ops[i]
  OBVIOUS
<1>2. ASSUME NEW n \in 0..Len(ops) PROVE EditsOf(more, n) = EditsOf(ops, n)
  <2>1. \A i \in 1..n : more[i] = ops[i]
    BY <1>1
  <2> QED
    BY <2>1, EditsBefore
<1>3. {more[i].edit : i \in 1..Len(more)} = {ops[i].edit : i \in 1..Len(ops)} \cup {o.edit}
  <2>1. 1..Len(more) = (1..Len(ops)) \cup {Len(ops) + 1}
    BY <1>1
  <2> QED
    BY <1>1, <2>1
<1>4. EditsOf(more, Len(more)) = EditsOf(ops, Len(ops)) \cup ({o.edit} \ {0})
  BY <1>3, Zenon DEF EditsOf, None
<1> QED
  BY <1>2, <1>4, Zenon DEF OneMoreEdit

\* A listed checkpoint has its file.
LEMMA PointFacts ==
  ASSUME Shapes, Lists, ~gone, NEW p \in Entries(ctx.checkpoints)
  PROVE  /\ p \in Points /\ p.id \in DOMAIN files /\ files[p.id] \in 1..Len(docs)
         /\ p.ops \in 0..Len(ctx.ops) /\ p.id # clock /\ p.recalc \in BOOLEAN
<1>1. PICK i \in DOMAIN ctx.checkpoints : p = ctx.checkpoints[i]
  BY DEF Entries
<1>2. /\ p \in Points /\ p.id \in DOMAIN files /\ files[p.id] \in 1..Len(docs) /\ p.ops \in 0..Len(ctx.ops)
      /\ p.recalc \in BOOLEAN
  BY <1>1, RestoredPoint
<1>3. p.id < clock
  BY DEF Lists, IdentifiersOnce
<1>4. p.id \in Nat /\ clock \in Nat
  BY <1>2 DEF Points, Shapes
<1> QED
  BY <1>2, <1>3, <1>4

LEMMA KeptPoint ==
  ASSUME Lists', ~gone', NEW fs, NEW ids, files' = Kept(fs, ids), NEW p \in Entries(ctx'.checkpoints)
  PROVE  files'[p.id] = fs[p.id]
<1>1. p.id \in DOMAIN files'
  BY DEF Lists, FilesListed, Entries
<1> QED
  BY <1>1 DEF Kept

\* The lists change, the work file and its history stay.
LEMMA ExplainedLists ==
  ASSUME Holds, ~gone, ctx'.ops = ctx.ops, UNCHANGED <<docs, work>>,
         \A p \in Entries(ctx'.checkpoints) : p \in Entries(ctx.checkpoints) /\ files'[p.id] = files[p.id]
  PROVE  WorkExplained' /\ PointsExplained'
<1>1. WorkExplained /\ PointsExplained
  BY ExplainedParts
<1>2. WorkExplained'
  BY <1>1 DEF WorkExplained
<1>3. ASSUME NEW p \in Entries(ctx'.checkpoints) PROVE docs'[files'[p.id]].edits = EditsOf(ctx'.ops, p.ops)
  BY <1>1, <1>3 DEF PointsExplained
<1> QED
  BY <1>2, <1>3 DEF PointsExplained, Entries

\* One more operation, and a work file with its edit.
LEMMA ExplainedPushed ==
  ASSUME Holds, ~gone, NEW o \in Operations, ctx'.ops = Append(ctx.ops, o), ctx'.checkpoints = ctx.checkpoints,
         NEW c \in Contents, Adds(c), work' = Len(docs) + 1, c.edits = docs[work].edits \cup ({o.edit} \ {0}),
         \A p \in Entries(ctx.checkpoints) : files'[p.id] = files[p.id]
  PROVE  WorkExplained' /\ PointsExplained'
<1>0. ctx.ops \in Seq(Operations)
  BY ContextParts DEF Holds, Shapes
<1>1. WorkExplained /\ PointsExplained
  BY ExplainedParts
<1>2. PICK more : more = ctx'.ops
  OBVIOUS
<1>3. /\ EditsOf(more, Len(more)) = EditsOf(ctx.ops, Len(ctx.ops)) \cup ({o.edit} \ {0})
      /\ \A n \in 0..Len(ctx.ops) : EditsOf(more, n) = EditsOf(ctx.ops, n)
  <2>1. OneMoreEdit(more, ctx.ops, o)
    BY <1>0, <1>2, EditsWithOne
  <2> QED
    BY <2>1, Zenon DEF OneMoreEdit
<1>4. docs'[work'] = c /\ \A i \in 1..Len(docs) : docs'[i] = docs[i]
  BY DEF Adds
<1>5. WorkExplained'
  <2>1. docs[work].edits = EditsOf(ctx.ops, Len(ctx.ops))
    BY <1>1 DEF WorkExplained
  <2>2. docs'[work'].edits = EditsOf(more, Len(more))
    BY <1>3, <1>4, <2>1, Zenon
  <2> QED
    BY <1>2, <2>2 DEF WorkExplained, EditsOf
<1>6. ASSUME NEW p \in Entries(ctx.checkpoints) PROVE docs'[files'[p.id]].edits = EditsOf(more, p.ops)
  <2>1. files[p.id] \in 1..Len(docs) /\ p.ops \in 0..Len(ctx.ops)
    BY PointFacts DEF Holds
  <2>2. docs[files[p.id]].edits = EditsOf(ctx.ops, p.ops)
    BY <1>1 DEF PointsExplained
  <2> QED
    BY <1>3, <1>4, <2>1, <2>2
<1> QED
  BY <1>2, <1>5, <1>6 DEF PointsExplained, Entries

LEMMA ExplainedCreated ==
  ASSUME Holds, ~gone, Lists', ~gone', AddsPoint, UNCHANGED <<docs, work>>
  PROVE  WorkExplained' /\ PointsExplained'
<1>1. WorkExplained /\ PointsExplained
  BY ExplainedParts
<1>2. PICK p \in Points, s \in Seq(Points), r \in Seq(Points) :
         /\ p.id = clock /\ p.ops = Len(ctx.ops)
         /\ s = Append(ctx.checkpoints, p) /\ Left(r, s, Ids(s) \ Ids(r))
         /\ Lists_ctx(ctx.staged, r) /\ files' = Kept(With(files, clock, work), Ids(s) \ Ids(r))
  BY DEF AddsPoint
<1>3. ctx'.ops = ctx.ops /\ ctx'.checkpoints = r
  BY <1>2 DEF Lists_ctx
<1>4. WorkExplained'
  BY <1>1, <1>3 DEF WorkExplained
<1>5. ctx.checkpoints \in Seq(Points)
  BY ContextParts DEF Holds, Shapes
<1>6. Entries(s) = Entries(ctx.checkpoints) \cup {p}
  BY <1>2, <1>5, AppendedList
<1>7. ASSUME NEW q \in Entries(ctx'.checkpoints) PROVE docs'[files'[q.id]].edits = EditsOf(ctx'.ops, q.ops)
  <2>1. files'[q.id] = With(files, clock, work)[q.id]
    BY <1>2, KeptPoint
  <2>2. q \in Entries(ctx.checkpoints) \cup {p}
    BY <1>2, <1>3, <1>6 DEF Left
  <2>3. CASE q = p
    <3>1. With(files, clock, work)[q.id] = work
      BY <1>2, <2>3 DEF With
    <3> QED
      BY <1>1, <1>2, <1>3, <2>1, <2>3, <3>1 DEF WorkExplained
  <2>4. CASE q \in Entries(ctx.checkpoints)
    <3>1. q.id # clock /\ q.id \in DOMAIN files
      BY <2>4, PointFacts DEF Holds
    <3>2. With(files, clock, work)[q.id] = files[q.id]
      BY <3>1 DEF With
    <3> QED
      BY <1>1, <1>3, <2>1, <2>4, <3>2 DEF PointsExplained
  <2> QED
    BY <2>2, <2>3, <2>4
<1> QED
  BY <1>4, <1>7 DEF PointsExplained, Entries

\* Back to a checkpoint: the history ends where it was made, and the later ones leave.
LEMMA ExplainedRestored ==
  ASSUME Holds, ~gone, Lists', ~gone', docs' = docs, NEW i \in DOMAIN ctx.checkpoints, NEW p, p = ctx.checkpoints[i],
         ctx'.checkpoints = Until(ctx.checkpoints, p.at), ctx'.ops = SubSeq(ctx.ops, 1, p.ops),
         work' = files[p.id], NEW ids, files' = Kept(files, ids)
  PROVE  WorkExplained' /\ PointsExplained'
<1>0. Shapes /\ Lists
  BY DEF Holds
<1>1. WorkExplained /\ PointsExplained
  BY ExplainedParts
<1>2. /\ p \in Entries(ctx.checkpoints) /\ p.at \in Nat /\ p.ops \in 0..Len(ctx.ops)
      /\ ctx.ops \in Seq(Operations)
  BY <1>0, RestoredPoint, ContextParts DEF Shapes
<1>3. PICK less : less = ctx'.ops
  OBVIOUS
<1>4. Len(less) = p.ops /\ \A j \in 1..p.ops : less[j] = ctx.ops[j]
  BY <1>2, <1>3
<1>5. ASSUME NEW n \in 0..p.ops PROVE EditsOf(less, n) = EditsOf(ctx.ops, n)
  <2>1. \A j \in 1..n : less[j] = ctx.ops[j]
    BY <1>2, <1>4
  <2> QED
    BY <2>1, EditsBefore
<1>6. WorkExplained'
  <2>1. EditsOf(less, p.ops) = EditsOf(ctx.ops, p.ops)
    BY <1>2, <1>5
  <2> QED
    BY <1>1, <1>2, <1>3, <1>4, <2>1 DEF WorkExplained, PointsExplained
<1>7. ASSUME NEW q \in Entries(ctx'.checkpoints) PROVE docs'[files'[q.id]].edits = EditsOf(less, q.ops)
  <2>1. files'[q.id] = files[q.id]
    BY KeptPoint
  <2>2. q \in Entries(ctx.checkpoints) /\ q.at <= p.at
    <3>1. /\ Left(Until(ctx.checkpoints, p.at), ctx.checkpoints, Since(ctx.checkpoints, p.at))
          /\ \A e \in Entries(ctx.checkpoints) : e.at <= p.at <=> e.id \notin Since(ctx.checkpoints, p.at)
      BY <1>0, <1>2, RestoredLists
    <3> QED
      BY <3>1 DEF Left
  <2>3. q.ops <= p.ops /\ q.ops \in Nat
    BY <1>0, <1>2, <2>2, PointFacts DEF Lists, PointsInOrder
  <2>4. q.ops \in 0..p.ops
    BY <1>2, <2>3
  <2>5. docs[files[q.id]].edits = EditsOf(ctx.ops, q.ops)
    BY <1>1, <2>2 DEF PointsExplained
  <2> QED
    BY <1>5, <2>1, <2>4, <2>5
<1> QED
  BY <1>3, <1>6, <1>7 DEF PointsExplained, Entries

\* A copy belongs to an older token than that of a new revision.
LEMMA CopiesRevised ==
  ASSUME Holds, Revises, NEW t \in Tasks, Others(t),
         task'[t].pc \notin {"permit", "evaluate"} \/ Same(task'[t], task[t])
  PROVE  CopiesCurrent'
<1>1. clock \in Nat /\ ctx'.state = Random(clock)
  BY DEF Holds, Shapes, Revises
<1>2. ASSUME NEW u \in Tasks, task'[u].pc \in {"permit", "evaluate"} PROVE task'[u].tok # ctx'.state
  <2>1. task'[u].tok = task[u].tok
    BY <1>2 DEF Others, Same
  <2>2. PICK tok : tok = task[u].tok
    OBVIOUS
  <2>3. Old(tok)
    BY <2>2, OwnTask
  <2>4. tok # Random(clock)
    BY <1>1, <2>3, RandomIsNew
  <2> QED
    BY <1>1, <2>1, <2>2, <2>4
<1> QED
  BY <1>2 DEF CopiesCurrent

LEMMA CopiesQuiet ==
  ASSUME Holds, Calm, ~gone, NEW t \in Tasks, Others(t),
         task'[t].pc \in {"permit", "evaluate"} /\ task'[t].tok = ctx.state => task'[t].doc = work
  PROVE  CopiesCurrent'
<1>1. CopiesCurrent
  BY ExplainedParts
<1>2. ctx' = ctx /\ work' = work
  BY DEF Calm
<1>3. ASSUME NEW u \in Tasks, task'[u].pc \in {"permit", "evaluate"}, task'[u].tok = ctx.state
      PROVE  task'[u].doc = work
  BY <1>1, <1>3 DEF CopiesCurrent, Others, Same
<1> QED
  BY <1>2, <1>3 DEF CopiesCurrent

LEMMA ExplainedSame ==
  ASSUME Holds, Quiet, ~gone
  PROVE  WorkExplained' /\ PointsExplained'
<1>1. WorkExplained /\ PointsExplained
  BY ExplainedParts
<1>2. ctx' = ctx /\ work' = work /\ docs' = docs /\ files' = files
  BY DEF Quiet, Calm
<1> QED
  BY <1>1, <1>2 DEF WorkExplained, PointsExplained, Entries

LEMMA CopiesOfTasks ==
  ASSUME Holds, ~gone, NEW t \in Tasks,
         \/ Observe(t) \/ RecalcBegin(t) \/ RecalcCopy(t) \/ Acquire(t) \/ Record(t) \/ Revoke(t) \/ Close(t)
         \/ ReadBegin(t) \/ Open(t) \/ Put(t) \/ Identify(t) \/ Answer(t)
  PROVE  CopiesCurrent'
<1>0. Shapes /\ Lists /\ Quiet /\ CopiesCurrent
  BY TaskClass, ExplainedParts DEF Holds
<1>1. CASE Observe(t)
  <2>1. Others(t) /\ Same(task'[t], task[t])
    BY <1>0, <1>1, ObserveEffect, InstantTasks
  <2> QED
    BY <1>0, <2>1, CopiesQuiet DEF Quiet, CopiesCurrent, Same
<1>2. CASE Others(t) /\ task'[t].pc \notin {"permit", "evaluate"}
  BY <1>0, <1>2, CopiesQuiet DEF Quiet
<1>3. CASE RecalcBegin(t)
  BY <1>0, <1>2, <1>3, RecalcBeginEffect DEF Entered, Next_task
<1>4. CASE RecalcCopy(t)
  <2>1. CASE Exits(t)
    BY <1>2, <2>1 DEF Exits, Next_task
  <2>2. CASE Goes(t, "permit", task[t].tok, work, task[t].id)
    <3>1. Others(t) /\ task'[t].doc = work
      BY <2>2 DEF Goes, Next_task
    <3> QED
      BY <1>0, <3>1, CopiesQuiet DEF Quiet
  <2> QED
    BY <1>0, <1>4, <2>1, <2>2, RecalcCopyEffect
<1>5. CASE Acquire(t)
  <2>1. task[t].pc = "permit" /\ Others(t) /\ task'[t].tok = task[t].tok /\ task'[t].doc = task[t].doc
    BY <1>0, <1>5, AcquireEffect DEF Goes, Next_task
  <2> QED
    BY <1>0, <2>1, CopiesQuiet DEF Quiet, CopiesCurrent
<1>6. CASE Record(t) \/ Revoke(t)
  BY <1>0, <1>2, <1>6, RecordEffect DEF Goes, Next_task
<1>7. CASE Close(t)
  BY <1>0, <1>2, <1>7, CloseEffect DEF Exits, Next_task
<1>8. CASE ReadBegin(t)
  BY <1>0, <1>2, <1>8, ReadBeginEffect DEF Entered, Next_task
<1>9. CASE Open(t)
  <2>1. task[t].pc \in {"open1", "open2", "open3"}
    BY <1>0, <1>9, OpenEffect, OwnTask DEF Opening, CanonicalPlaces
  <2>2. Then(task[t].pc) \in {"identify", "open3", "answer"} /\ PutFor(task[t].pc) \in {"put1", "put2", "put3"}
    BY <2>1 DEF Then, PutFor
  <2>3. Others(t) /\ task'[t].pc \in {Then(task[t].pc), PutFor(task[t].pc), "idle"}
    BY <1>0, <1>9, OpenEffect DEF Goes, Exits, Next_task
  <2> QED
    BY <1>2, <2>2, <2>3
<1>10. CASE Put(t)
  <2>1. task[t].pc \in {"put1", "put2", "put3"}
    BY <1>0, <1>10, PutEffect, OwnTask DEF Putting, CanonicalPlaces
  <2>2. Then(OpenFor(task[t].pc)) \in {"identify", "open3", "answer"}
    BY <2>1 DEF Then, OpenFor
  <2>3. Others(t) /\ task'[t].pc = Then(OpenFor(task[t].pc))
    BY <1>0, <1>10, PutEffect DEF Goes, Next_task
  <2> QED
    BY <1>2, <2>2, <2>3
<1>11. CASE Identify(t)
  BY <1>0, <1>2, <1>11, IdentifyEffect DEF Goes, Next_task
<1>12. CASE Answer(t)
  BY <1>0, <1>2, <1>12, AnswerEffect DEF Exits, Next_task
<1> QED
  BY <1>1, <1>3, <1>4, <1>5, <1>6, <1>7, <1>8, <1>9, <1>10, <1>11, <1>12

LEMMA CopiesOfSections ==
  ASSUME Holds, NEW t \in Tasks,
         \/ Write(t) \/ Stage(t) \/ StagedApply(t) \/ StagedDiscard(t) \/ CheckpointCreate(t)
         \/ CheckpointDelete(t) \/ CheckpointRestore(t) \/ Export(t)
  PROVE  CopiesCurrent'
<1>0. Shapes /\ Lists /\ Revises
  BY SectionClass DEF Holds
<1>1. CASE Write(t)
  BY <1>0, <1>1, WriteEnters, CopiesRevised DEF Entered, Next_task
<1>2. CASE Instant(t)
  BY <1>0, <1>2, InstantTasks, CopiesRevised
<1> QED
  BY <1>1, <1>2 DEF Stage, StagedApply, StagedDiscard, CheckpointCreate, CheckpointDelete, CheckpointRestore, Export

LEMMA ExplainedSections ==
  ASSUME Holds, Lists', NEW t \in Tasks,
         \/ Write(t) \/ Stage(t) \/ StagedApply(t) \/ StagedDiscard(t) \/ CheckpointCreate(t)
         \/ CheckpointDelete(t) \/ CheckpointRestore(t) \/ Export(t)
  PROVE  WorkExplained' /\ PointsExplained'
<1>0. Shapes /\ Lists /\ ~gone /\ ~gone' /\ clock \in Nat \ {0} /\ work \in 1..Len(docs)
  BY SectionClass, PresentFork DEF Holds, Revises, Shapes
<1>1. ASSUME docs' = NewDoc(work, {clock}, TRUE), work' = Len(docs) + 1, NEW o \in Operations, o.edit = clock,
             ctx'.ops = Append(ctx.ops, o), ctx'.checkpoints = ctx.checkpoints,
             \A p \in Entries(ctx.checkpoints) : files'[p.id] = files[p.id]
      PROVE  WorkExplained' /\ PointsExplained'
  <2>1. PICK c \in Contents : Adds(c) /\ c.edits = docs[work].edits \cup {clock}
    <3>1. PICK n \in Nat, base \in 1..Len(docs) : n = clock /\ base = work
      BY <1>0
    <3>2. TRUE \in BOOLEAN /\ docs' = NewDoc(base, {n}, TRUE)
      BY <1>1, <3>1
    <3>3. \E c \in Contents : Adds(c) /\ c.edits = docs[base].edits \cup {n}
      BY <1>0, <3>2, NewDocIsOne
    <3> QED
      BY <3>1, <3>3
  <2>2. {o.edit} \ {0} = {clock}
    BY <1>0, <1>1
  <2>3. c.edits = docs[work].edits \cup ({o.edit} \ {0})
    BY <2>1, <2>2, Zenon
  <2> QED
    BY <1>0, <1>1, <2>1, <2>3, ExplainedPushed
<1>2. CASE Write(t)
  <2>1. /\ docs' = NewDoc(work, {clock}, TRUE) /\ work' = Len(docs) + 1 /\ files' = files
        /\ \E o \in Operations : /\ o.edit = clock /\ ctx'.ops = Append(ctx.ops, o)
                                 /\ ctx'.checkpoints = ctx.checkpoints
    BY <1>0, <1>2, WriteEffect DEF Next_ctx
  <2> QED
    BY <1>1, <2>1
<1>3. CASE StagedApply(t)
  <2>1. /\ docs' = NewDoc(work, {clock}, TRUE) /\ work' = Len(docs) + 1 /\ \E ids : files' = Kept(files, ids)
        /\ \E o \in Operations : /\ o.edit = clock /\ ctx'.ops = Append(ctx.ops, o)
                                 /\ ctx'.checkpoints = ctx.checkpoints
    BY <1>0, <1>3, StagedApplyEffect DEF Next_ctx
  <2>2. \A p \in Entries(ctx.checkpoints) : files'[p.id] = files[p.id]
    BY <1>0, <2>1, KeptPoint
  <2> QED
    BY <1>1, <2>1, <2>2
<1>4. CASE Stage(t)
  <2>1. /\ ctx'.ops = ctx.ops /\ ctx'.checkpoints = ctx.checkpoints /\ UNCHANGED <<docs, work>>
        /\ \E ids : files' = Kept(files, ids)
    BY <1>0, <1>4, StageEffect DEF Next_ctx
  <2>2. \A p \in Entries(ctx'.checkpoints) : p \in Entries(ctx.checkpoints) /\ files'[p.id] = files[p.id]
    BY <1>0, <2>1, KeptPoint
  <2> QED
    BY <1>0, <2>1, <2>2, ExplainedLists
<1>5. CASE StagedDiscard(t)
  <2>1. /\ ctx'.ops = ctx.ops /\ ctx'.checkpoints = ctx.checkpoints /\ UNCHANGED <<docs, work>>
        /\ \E ids : files' = Kept(files, ids)
    BY <1>0, <1>5, StagedDiscardEffect DEF DropsChange, Lists_ctx
  <2>2. \A p \in Entries(ctx'.checkpoints) : p \in Entries(ctx.checkpoints) /\ files'[p.id] = files[p.id]
    BY <1>0, <2>1, KeptPoint
  <2> QED
    BY <1>0, <2>1, <2>2, ExplainedLists
<1>6. CASE CheckpointDelete(t)
  <2>1. /\ ctx'.ops = ctx.ops /\ UNCHANGED <<docs, work>> /\ \E ids : files' = Kept(files, ids)
        /\ \E ids : Left(ctx'.checkpoints, ctx.checkpoints, ids)
    BY <1>0, <1>6, CheckpointDeleteEffect DEF DropsPoint, Lists_ctx
  <2>2. \A p \in Entries(ctx'.checkpoints) : p \in Entries(ctx.checkpoints) /\ files'[p.id] = files[p.id]
    BY <1>0, <2>1, KeptPoint DEF Left
  <2> QED
    BY <1>0, <2>1, <2>2, ExplainedLists
<1>7. CASE CheckpointCreate(t)
  BY <1>0, <1>7, CheckpointCreateEffect, ExplainedCreated
<1>8. CASE CheckpointRestore(t)
  <2>1. PICK i \in DOMAIN ctx.checkpoints :
           /\ ctx'.checkpoints = Until(ctx.checkpoints, ctx.checkpoints[i].at)
           /\ ctx'.ops = SubSeq(ctx.ops, 1, ctx.checkpoints[i].ops) /\ work' = files[ctx.checkpoints[i].id]
           /\ \E ids : files' = Kept(files, ids)
    BY <1>0, <1>8, CheckpointRestoreEffect DEF Next_ctx
  <2>2. docs' = docs
    BY <1>0, <1>8, CheckpointRestoreEffect
  <2> QED
    BY <1>0, <2>1, <2>2, ExplainedRestored
<1>9. CASE Export(t)
  <2>1. ctx'.ops = ctx.ops /\ ctx'.checkpoints = ctx.checkpoints /\ UNCHANGED <<docs, work, files>>
    BY <1>0, <1>9, ExportEffect DEF Next_ctx
  <2> QED
    BY <1>0, <2>1, ExplainedLists
<1> QED
  BY <1>2, <1>3, <1>4, <1>5, <1>6, <1>7, <1>8, <1>9

\* The copy that is committed is a copy of what the work file holds.
LEMMA ExplainedCommit ==
  ASSUME Holds, Lists', NEW t \in Tasks, RecalcCommit(t)
  PROVE  Explained'
<1>0. Shapes /\ Lists
  BY DEF Holds
<1>1. CASE gone
  BY <1>0, <1>1, RecalcCommitEffect, ExplainedParts
<1>2. CASE ~gone /\ Quiet /\ Exits(t)
  <2>1. Others(t) /\ task'[t].pc \notin {"permit", "evaluate"}
    BY <1>2 DEF Exits, Next_task
  <2>2. CopiesCurrent'
    BY <1>2, <2>1, CopiesQuiet DEF Quiet
  <2> QED
    BY <1>2, <2>2, ExplainedSame, ExplainedParts
<1>3. CASE ~gone /\ Revises
  <2>1. PICK complete \in BOOLEAN, o \in Operations, n \in Nat :
           /\ o.edit = 0
           /\ Next_ctx(Random(clock), Len(docs) + 1, ctx.staged, ctx.checkpoints, Append(ctx.ops, o), ~complete)
           /\ docs' = Append(docs, [docs[task[t].doc] EXCEPT !.fresh = complete])
           /\ Goes(t, "record", Random(clock), task[t].doc, n)
    <3>1. clock' # clock
      BY <1>0, <1>3 DEF Revises, Shapes
    <3> QED
      BY <1>0, <1>3, <3>1, RecalcCommitEffect, Zenon
  <2>2. /\ task[t].pc = "evaluate" /\ Synced.state = task[t].tok /\ files' = files /\ work' = Len(docs) + 1
    <3>1. clock' # clock
      BY <1>0, <1>3 DEF Revises, Shapes
    <3> QED
      BY <1>0, <1>3, <3>1, RecalcCommitEffect
  <2>3. task[t].doc = work
    BY <1>3, <2>2, SyncedIsCurrent, ExplainedParts DEF CopiesCurrent
  <2>4. work \in 1..Len(docs)
    BY <1>0, <1>3, PresentFork
  <2>5. PICK c \in Contents : Adds(c) /\ c.edits = docs[work].edits
    BY <1>0, <2>1, <2>3, <2>4, EvaluatedDoc
  <2>6. c.edits = docs[work].edits \cup ({o.edit} \ {0})
    BY <2>1, <2>5
  <2>7. ctx'.ops = Append(ctx.ops, o) /\ ctx'.checkpoints = ctx.checkpoints
    BY <2>1 DEF Next_ctx
  <2>8. WorkExplained' /\ PointsExplained'
    BY <1>3, <2>2, <2>5, <2>6, <2>7, ExplainedPushed
  <2>9. Others(t) /\ task'[t].pc = "record"
    BY <2>1 DEF Goes, Next_task
  <2>10. CopiesCurrent'
    BY <1>3, <2>9, CopiesRevised
  <2> QED
    BY <2>8, <2>10, ExplainedParts
<1> QED
  BY <1>1, <1>2, <1>3, CommitClass

LEMMA ExplainedStep ==
  ASSUME Holds, Lists', NEW t \in Tasks, CanonicalStep(t)
  PROVE  Explained'
<1>1. CASE gone'
  BY <1>1, ExplainedParts
<1>2. CASE \/ Write(t) \/ Stage(t) \/ StagedApply(t) \/ StagedDiscard(t) \/ CheckpointCreate(t)
           \/ CheckpointDelete(t) \/ CheckpointRestore(t) \/ Export(t)
  BY <1>2, ExplainedSections, CopiesOfSections, ExplainedParts
<1>3. CASE RecalcCommit(t)
  BY <1>3, ExplainedCommit
<1>4. CASE /\ ~gone'
           /\ \/ Observe(t) \/ RecalcBegin(t) \/ RecalcCopy(t) \/ Acquire(t) \/ Record(t) \/ Revoke(t) \/ Close(t)
              \/ ReadBegin(t) \/ Open(t) \/ Put(t) \/ Identify(t) \/ Answer(t)
  <2>1. Quiet
    BY <1>4, TaskClass
  <2>2. ~gone
    BY <1>4, <2>1 DEF Quiet, Calm
  <2> QED
    BY <1>4, <2>1, <2>2, CopiesOfTasks, ExplainedSame, ExplainedParts
<1>5. CASE Discard(t)
  BY <1>5, DiscardClass, ExplainedParts DEF Drops
<1> QED
  BY <1>1, <1>2, <1>3, <1>4, <1>5 DEF CanonicalStep

\* What LoneTasks says of one read, of the reads in progress and of the answers.
LoneRead(t) ==
    /\ task[t].pc \in {"put1", "put2", "put3"} => task[t].doc = work
    /\ task[t].pc = "identify" => cache = task[t].doc
    /\ task[t].pc = "open2" => cache = None
    /\ task[t].pc = "open3" => cache = work
    /\ task[t].pc = "answer" => task[t].doc = work
    /\ task[t].pc \in {"open2", "put2", "open3", "put3", "answer"} => Told(task[t].tok, work)
    /\ task[t].pc # "idle" => ~gone
ReadPlaces == {"put1", "put2", "put3", "identify", "open1", "open2", "open3", "answer"}

LEMMA LoneParts ==
  LoneTasks <=>
    /\ \A t, u \in Tasks : task[t].alone /\ task[t].pc # "idle" /\ task[u].pc # "idle" => t = u
    /\ \A t \in Tasks : task[t].alone /\ task[t].op = "read" => LoneRead(t)
    /\ \A t \in Tasks : task[t].pc \in ReadPlaces => task[t].op = "read"
    /\ \A r \in reads : r.alone => Told(r.tok, r.doc)
BY Zenon DEF LoneTasks, LoneRead, ReadPlaces

LEMMA LonePartsNext ==
  ASSUME \A t, u \in Tasks : task'[t].alone /\ task'[t].pc # "idle" /\ task'[u].pc # "idle" => t = u,
         \A t \in Tasks : task'[t].alone /\ task'[t].op = "read" => LoneRead(t)',
         \A t \in Tasks : task'[t].pc \in ReadPlaces => task'[t].op = "read",
         \A r \in reads' : r.alone => Told(r.tok, r.doc)'
  PROVE  LoneTasks'
BY Zenon DEF LoneTasks, LoneRead, ReadPlaces

LEMMA StillTold ==
  ASSUME named \subseteq named', NEW tok, NEW content, Told(tok, content)
  PROVE  Told(tok, content)'
BY DEF Told

LEMMA LoneStep ==
  ASSUME Holds, NEW t \in Tasks, Others(t), named \subseteq named',
         task[t].pc # "idle" \/ \A u \in Tasks \ {t} : ~task'[u].alone,
         task'[t].alone /\ task'[t].pc # "idle" => ~Busy(t),
         task'[t].alone /\ task'[t].op = "read" => LoneRead(t)',
         task'[t].pc \in ReadPlaces => task'[t].op = "read",
         \A r \in reads' : r.alone => r \in reads \/ Told(r.tok, r.doc)'
  PROVE  LoneTasks'
<1>1. /\ \A a, b \in Tasks : task[a].alone /\ task[a].pc # "idle" /\ task[b].pc # "idle" => a = b
      /\ \A a \in Tasks : task[a].pc \in ReadPlaces => task[a].op = "read"
      /\ \A r \in reads : r.alone => Told(r.tok, r.doc)
  BY LoneParts DEF Holds
<1>2. \A u \in Tasks \ {t} : /\ task'[u].pc = task[u].pc /\ task'[u].op = task[u].op
                             /\ (task'[u].alone => task[u].alone)
  BY DEF Others, Same
<1>3. \A u \in Tasks \ {t} : task'[u].alone => task'[u].pc = "idle" \/ task[t].pc = "idle"
  BY <1>1, <1>2
<1>4. \A u \in Tasks \ {t} : task'[u].alone => task'[u].pc = "idle"
  BY <1>3
<1>5. ASSUME NEW a \in Tasks, NEW b \in Tasks, task'[a].alone, task'[a].pc # "idle", task'[b].pc # "idle"
      PROVE  a = b
  <2>1. a = t
    BY <1>4, <1>5
  <2>2. ~Busy(t)
    BY <1>5, <2>1
  <2> QED
    BY <1>2, <1>5, <2>1, <2>2 DEF Busy
<1>6. ASSUME NEW a \in Tasks, task'[a].alone, task'[a].op = "read" PROVE LoneRead(a)'
  <2>1. CASE a = t
    BY <1>6, <2>1
  <2>2. CASE a # t
    <3>1. task'[a].pc = "idle"
      BY <1>4, <1>6, <2>2
    <3> QED
      BY <3>1 DEF LoneRead
  <2> QED
    BY <2>1, <2>2
<1>7. \A a \in Tasks : task'[a].pc \in ReadPlaces => task'[a].op = "read"
  BY <1>1, <1>2
<1>8. ASSUME NEW r \in reads', r.alone PROVE Told(r.tok, r.doc)'
  BY <1>1, <1>8, StillTold
<1> QED
  BY <1>5, <1>6, <1>7, <1>8, LonePartsNext

LEMMA LoneInstant ==
  ASSUME Holds, NEW t \in Tasks, Instant(t), named \subseteq named', reads' = reads
  PROVE  LoneTasks'
<1>1. Others(t) /\ Same(task'[t], task[t]) /\ \A u \in Tasks : ~task'[u].alone
  BY InstantTasks DEF Holds
<1>2. task'[t].pc \in ReadPlaces => task'[t].op = "read"
  BY <1>1, LoneParts DEF Holds, Same
<1> QED
  BY <1>1, <1>2, LoneStep

LEMMA LoneExit ==
  ASSUME Holds, NEW t \in Tasks, Exits(t), task[t].pc # "idle", named \subseteq named',
         \A r \in reads' : r.alone => r \in reads \/ Told(r.tok, r.doc)'
  PROVE  LoneTasks'
<1>1. Others(t) /\ task'[t].pc = "idle" /\ ~task'[t].alone /\ task'[t].pc \notin ReadPlaces
  BY DEF Exits, Next_task, ReadPlaces
<1> QED
  BY <1>1, LoneStep

LEMMA LoneEnter ==
  ASSUME Holds, NEW t \in Tasks, NEW pc, NEW op, NEW tok, NEW id, Entered(t, pc, op, "none", tok, id),
         named \subseteq named', reads' = reads, ~gone',
         op = "read" => pc = "open1", pc \in ReadPlaces => op = "read"
  PROVE  LoneTasks'
<1>1. /\ Others(t) /\ task'[t].pc = pc /\ task'[t].op = op /\ (task'[t].alone <=> ~Busy(t))
      /\ \A u \in Tasks \ {t} : ~task'[u].alone
  BY DEF Entered, Next_task
<1>2. op = "read" => LoneRead(t)'
  BY <1>1 DEF LoneRead
<1> QED
  BY <1>1, <1>2, LoneStep

\* A task in progress goes on; when it is alone nobody else is in progress.
LEMMA LoneGo ==
  ASSUME Holds, NEW t \in Tasks, NEW pc, NEW tok, NEW doc, NEW id, Goes(t, pc, tok, doc, id),
         task[t].pc # "idle", named \subseteq named', reads' = reads,
         task[t].alone /\ task[t].op = "read" => LoneRead(t)',
         pc \in ReadPlaces => task[t].op = "read"
  PROVE  LoneTasks'
<1>1. /\ Others(t) /\ task'[t].pc = pc /\ task'[t].op = task[t].op /\ task'[t].alone = task[t].alone
  BY DEF Goes, Next_task
<1>2. task[t].alone => ~Busy(t)
  BY LoneParts DEF Holds, Busy
<1> QED
  BY <1>1, <1>2, LoneStep

\* A task that is no read, or a read that goes elsewhere.
LEMMA LoneGoAway ==
  ASSUME Holds, NEW t \in Tasks, NEW pc, NEW tok, NEW doc, NEW id, Goes(t, pc, tok, doc, id),
         task[t].pc # "idle", named \subseteq named', reads' = reads, gone' = gone, pc \notin ReadPlaces
  PROVE  LoneTasks'
<1>1. task[t].alone /\ task[t].op = "read" => LoneRead(t)
  BY LoneParts DEF Holds
<1>2. task'[t].pc = pc
  BY DEF Goes, Next_task
<1>3. task[t].alone /\ task[t].op = "read" => LoneRead(t)'
  BY <1>1, <1>2 DEF LoneRead, ReadPlaces
<1> QED
  BY <1>3, LoneGo

LEMMA LoneOpen ==
  ASSUME Holds, NEW t \in Tasks, Open(t)
  PROVE  LoneTasks'
<1>0. Shapes /\ Lists /\ Quiet /\ named' = named /\ reads' = reads /\ cache' = cache /\ work' = work /\ gone' = gone
  BY TaskClass, OpenEffect DEF Holds
<1>1. task[t].pc \in {"open1", "open2", "open3"} /\ task[t].pc # "idle"
  BY <1>0, OpenEffect, OwnTask DEF Opening, CanonicalPlaces
<1>2. CASE gone
  BY <1>0, <1>1, <1>2, OpenEffect, LoneExit
<1>3. CASE ~gone
  <2>1. work # 0 /\ task[t].op = "read"
    BY <1>0, <1>1, <1>3, LoneParts DEF Holds, Shapes, None, ReadPlaces
  <2>2. PICK tok : tok = task[t].tok
    OBVIOUS
  <2>3. /\ task[t].alone /\ task[t].pc = "open2" => cache = 0 /\ Told(tok, work)
        /\ task[t].alone /\ task[t].pc = "open3" => cache = work /\ Told(tok, work)
    BY <2>1, <2>2, LoneParts DEF Holds, LoneRead, None
  <2>4. Told(tok, work) => Told(tok, work)'
    BY <1>0 DEF Told
  <2>5. CASE cache # 0
    <3>1. Goes(t, Then(task[t].pc), tok, cache, task[t].id)
      BY <1>0, <1>3, <2>2, <2>5, OpenEffect
    <3>2. /\ task[t].pc = "open1" => Then(task[t].pc) = "identify"
          /\ task[t].pc = "open2" => Then(task[t].pc) = "open3"
          /\ task[t].pc = "open3" => Then(task[t].pc) = "answer"
      BY DEF Then
    <3>3. task'[t].pc = Then(task[t].pc) /\ task'[t].tok = tok /\ task'[t].doc = cache
      BY <3>1 DEF Goes, Next_task
    <3>4. task[t].alone => LoneRead(t)'
      <4>1. CASE task[t].pc = "open1"
        BY <1>0, <1>3, <3>2, <3>3, <4>1 DEF LoneRead
      <4>2. CASE task[t].pc = "open2"
        BY <2>3, <2>5, <4>2
      <4>3. ASSUME task[t].pc = "open3", task[t].alone PROVE LoneRead(t)'
        <5>1. task'[t].pc = "answer" /\ task'[t].doc = work' /\ Told(tok, work)' /\ ~gone'
          BY <1>0, <1>3, <2>3, <2>4, <3>2, <3>3, <4>3
        <5>2. Told(task[t].tok, work)'
          BY <3>3, <5>1 DEF Told
        <5> QED
          BY <5>1, <5>2 DEF LoneRead
      <4> QED
        BY <1>1, <4>1, <4>2, <4>3
    <3> QED
      BY <1>0, <1>1, <2>1, <3>1, <3>4, LoneGo
  <2>6. CASE cache = 0
    <3>1. Goes(t, PutFor(task[t].pc), tok, work, task[t].id)
      BY <1>0, <1>3, <2>2, <2>6, OpenEffect
    <3>2. /\ task[t].pc = "open1" => PutFor(task[t].pc) = "put1"
          /\ task[t].pc = "open2" => PutFor(task[t].pc) = "put2"
          /\ task[t].pc = "open3" => PutFor(task[t].pc) = "put3"
      BY DEF PutFor
    <3>3. task'[t].pc = PutFor(task[t].pc) /\ task'[t].tok = tok /\ task'[t].doc = work
      BY <3>1 DEF Goes, Next_task
    <3>4. task[t].alone => LoneRead(t)'
      <4>1. CASE task[t].pc = "open1"
        BY <1>0, <1>3, <3>2, <3>3, <4>1 DEF LoneRead
      <4>2. ASSUME task[t].pc \in {"open2", "open3"}, task[t].alone PROVE LoneRead(t)'
        <5>1. task'[t].pc \in {"put2", "put3"} /\ task'[t].doc = work' /\ Told(tok, work)' /\ ~gone'
          BY <1>0, <1>3, <2>3, <2>4, <3>2, <3>3, <4>2
        <5>2. Told(task[t].tok, work)'
          BY <3>3, <5>1 DEF Told
        <5> QED
          BY <5>1, <5>2 DEF LoneRead
      <4> QED
        BY <1>1, <4>1, <4>2
    <3> QED
      BY <1>0, <1>1, <2>1, <3>1, <3>4, LoneGo
  <2> QED
    BY <2>5, <2>6
<1> QED
  BY <1>2, <1>3

LEMMA LonePut ==
  ASSUME Holds, NEW t \in Tasks, Put(t)
  PROVE  LoneTasks'
<1>0. /\ Shapes /\ Lists /\ named' = named /\ reads' = reads /\ cache' = task[t].doc /\ work' = work /\ gone' = gone
      /\ Goes(t, Then(OpenFor(task[t].pc)), task[t].tok, task[t].doc, task[t].id)
  BY PutEffect DEF Holds
<1>1. task[t].pc \in {"put1", "put2", "put3"} /\ task[t].pc # "idle"
  BY <1>0, PutEffect, OwnTask DEF Putting, CanonicalPlaces
<1>2. task[t].op = "read"
  BY <1>1, LoneParts DEF Holds, ReadPlaces
<1>3. PICK tok : tok = task[t].tok
  OBVIOUS
<1>4. /\ task[t].pc = "put1" => Then(OpenFor(task[t].pc)) = "identify"
      /\ task[t].pc = "put2" => Then(OpenFor(task[t].pc)) = "open3"
      /\ task[t].pc = "put3" => Then(OpenFor(task[t].pc)) = "answer"
  BY DEF Then, OpenFor
<1>5. task'[t].pc = Then(OpenFor(task[t].pc)) /\ task'[t].tok = tok /\ task'[t].doc = task[t].doc
  BY <1>0, <1>3 DEF Goes, Next_task
<1>6. ASSUME task[t].alone PROVE LoneRead(t)'
  <2>1. /\ task[t].doc = work /\ ~gone /\ (task[t].pc \in {"put2", "put3"} => Told(tok, work))
    BY <1>1, <1>2, <1>3, <1>6, LoneParts DEF Holds, LoneRead
  <2>2. CASE task[t].pc = "put1"
    BY <1>0, <1>4, <1>5, <2>1, <2>2 DEF LoneRead
  <2>3. CASE task[t].pc \in {"put2", "put3"}
    <3>1. /\ task'[t].pc \in {"open3", "answer"} /\ task'[t].doc = work' /\ cache' = work' /\ Told(tok, work)' /\ ~gone'
      BY <1>0, <1>4, <1>5, <2>1, <2>3 DEF Told
    <3>2. Told(task[t].tok, work)'
      BY <1>5, <3>1 DEF Told
    <3> QED
      BY <3>1, <3>2 DEF LoneRead
  <2> QED
    BY <1>1, <2>2, <2>3
<1> QED
  BY <1>0, <1>1, <1>2, <1>6, LoneGo

LEMMA LoneIdentify ==
  ASSUME Holds, NEW t \in Tasks, Identify(t)
  PROVE  LoneTasks'
<1>0. /\ Shapes /\ Lists /\ Quiet /\ reads' = reads /\ work' = work /\ gone' = gone
      /\ task[t].pc = "identify" /\ task[t].pc # "idle"
  BY TaskClass, IdentifyEffect DEF Holds
<1>1. CASE gone
  BY <1>0, <1>1, IdentifyEffect, LoneExit
<1>2. CASE ~gone
  <2>1. /\ ctx' = ctx /\ Synced = ctx /\ Responds
    BY <1>0, <1>2, IdentifyEffect, SyncedIsCurrent DEF Quiet, Calm
  <2>2. PICK tok : tok = ctx.state
    OBVIOUS
  <2>3. named \subseteq named' /\ Told(tok, work)'
    <3>1. View(ctx', work').content = work
      BY <1>0 DEF View
    <3>2. <<ctx'.state, View(ctx', work')>> \in named'
      BY <2>1 DEF Responds
    <3> QED
      BY <1>0, <2>1, <2>2, <3>1, <3>2 DEF Responds, Told
  <2>4. task[t].op = "read" /\ (task[t].alone => cache = task[t].doc)
    BY <1>0, LoneParts DEF Holds, ReadPlaces, LoneRead
  <2>5. PICK pc \in {"open2", "open3"} :
           /\ Goes(t, pc, tok, task[t].doc, task[t].id)
           /\ pc = "open2" => cache' = 0
           /\ pc = "open3" => cache' = cache /\ task[t].doc = work
    BY <1>0, <1>2, <2>1, <2>2, IdentifyEffect
  <2>6. task'[t].pc = pc /\ task'[t].tok = tok
    BY <2>5 DEF Goes, Next_task
  <2>7. Told(task[t].tok, work)'
    BY <2>3, <2>6 DEF Told
  <2>8. task[t].alone => LoneRead(t)'
    BY <1>0, <1>2, <2>4, <2>5, <2>6, <2>7 DEF LoneRead, None
  <2> QED
    BY <1>0, <2>3, <2>4, <2>5, <2>8, LoneGo
<1> QED
  BY <1>1, <1>2

LEMMA LoneAnswer ==
  ASSUME Holds, NEW t \in Tasks, Answer(t)
  PROVE  LoneTasks'
<1>0. /\ named' = named /\ work' = work /\ task[t].pc = "answer" /\ Exits(t)
      /\ reads' = reads \cup {[tok |-> task[t].tok, doc |-> task[t].doc, alone |-> task[t].alone]}
  BY AnswerEffect DEF Holds
<1>1. PICK tok : tok = task[t].tok
  OBVIOUS
<1>2. task[t].alone => task[t].doc = work /\ Told(tok, work)
  BY <1>0, <1>1, LoneParts DEF Holds, ReadPlaces, LoneRead
<1>3. ASSUME NEW r \in reads', r.alone PROVE r \in reads \/ Told(r.tok, r.doc)'
  <2>1. CASE r = [tok |-> task[t].tok, doc |-> task[t].doc, alone |-> task[t].alone]
    <3>1. r.tok = tok /\ r.doc = task[t].doc /\ r.alone = task[t].alone
      BY <1>1, <2>1
    <3>2. r.doc = work /\ Told(tok, work)
      BY <1>2, <1>3, <3>1
    <3> QED
      BY <1>0, <3>1, <3>2 DEF Told
  <2> QED
    BY <1>0, <2>1
<1> QED
  BY <1>0, <1>3, LoneExit

LEMMA LoneTasksStep ==
  ASSUME Holds, NEW t \in Tasks, CanonicalStep(t)
  PROVE  LoneTasks'
<1>0. Shapes /\ Lists
  BY DEF Holds
<1>1. named \subseteq named'
  BY StepClass DEF Quiet, Calm, Revises, Drops, Responds
<1>2. CASE \/ Observe(t) \/ Stage(t) \/ StagedApply(t) \/ StagedDiscard(t) \/ CheckpointCreate(t)
           \/ CheckpointDelete(t) \/ CheckpointRestore(t) \/ Export(t) \/ Discard(t)
  <2>1. Instant(t) /\ reads' = reads
    BY <1>2 DEF Observe, Stage, StagedApply, StagedDiscard, CheckpointCreate, CheckpointDelete, CheckpointRestore,
                Export, Discard
  <2> QED
    BY <1>1, <2>1, LoneInstant
<1>3. CASE Write(t)
  <2>1. Entered(t, "revoke", "write", "none", Hash(0), 0) /\ ~gone' /\ reads' = reads
    BY <1>0, <1>3, WriteEnters, WriteEffect
  <2> QED
    BY <1>1, <2>1, LoneEnter DEF ReadPlaces
<1>4. CASE ReadBegin(t)
  <2>1. Entered(t, "open1", "read", "none", Hash(0), 0) /\ ~gone' /\ reads' = reads
    BY <1>0, <1>4, ReadBeginEffect
  <2> QED
    BY <1>1, <2>1, LoneEnter
<1>5. CASE RecalcBegin(t)
  <2>1. Entered(t, "copy", "recalculate", "none", Synced.state, 0) /\ ~gone' /\ reads' = reads
    BY <1>0, <1>5, RecalcBeginEffect
  <2> QED
    BY <1>1, <2>1, LoneEnter DEF ReadPlaces
<1>6. CASE RecalcCopy(t)
  <2>1. task[t].pc = "copy" /\ reads' = reads /\ gone' = gone
    BY <1>0, <1>6, RecalcCopyEffect
  <2>2. Exits(t) \/ Goes(t, "permit", task[t].tok, work, task[t].id)
    BY <1>0, <1>6, RecalcCopyEffect
  <2> QED
    BY <1>1, <2>1, <2>2, LoneExit, LoneGoAway DEF ReadPlaces
<1>7. CASE Acquire(t)
  <2>1. /\ task[t].pc = "permit" /\ reads' = reads /\ gone' = gone
        /\ \E pc \in {"evaluate", "evaluate_work"} : Goes(t, pc, task[t].tok, task[t].doc, task[t].id)
    BY <1>0, <1>7, AcquireEffect
  <2> QED
    BY <1>1, <2>1, LoneGoAway DEF ReadPlaces
<1>8. CASE RecalcCommit(t)
  <2>1. task[t].pc = "evaluate" /\ reads' = reads /\ gone' = gone
    BY <1>0, <1>8, RecalcCommitEffect
  <2>2. Exits(t) \/ \E n \in Nat : Goes(t, "record", Random(clock), task[t].doc, n)
    BY <1>0, <1>8, RecalcCommitEffect
  <2> QED
    BY <1>1, <2>1, <2>2, LoneExit, LoneGoAway DEF ReadPlaces
<1>9. CASE Record(t) \/ Revoke(t)
  <2>1. /\ task[t].pc # "idle" /\ Goes(t, "close", task[t].tok, task[t].doc, task[t].id)
        /\ reads' = reads /\ gone' = gone
    BY <1>0, <1>9, RecordEffect
  <2> QED
    BY <1>1, <2>1, LoneGoAway DEF ReadPlaces
<1>10. CASE Close(t)
  <2>1. task[t].pc # "idle" /\ Exits(t) /\ reads' = reads
    BY <1>0, <1>10, CloseEffect
  <2> QED
    BY <1>1, <2>1, LoneExit
<1> QED
  BY <1>2, <1>3, <1>4, <1>5, <1>6, <1>7, <1>8, <1>9, <1>10, LoneOpen, LonePut, LoneIdentify, LoneAnswer
     DEF CanonicalStep

\* The canonical part of the invariant, by one step.
LEMMA SurfacePreserved ==
  ASSUME Shapes, Lists, OnTheCanonicalSurface, Lists', load' = load, NEW t \in Tasks, CanonicalStep(t) \/ ToolStep(t)
  PROVE  OnTheCanonicalSurface'
<1>1. CanonicalOnly' <=> CanonicalOnly
  BY DEF CanonicalOnly, Batches, Lifecycle
<1>2. ASSUME CanonicalOnly PROVE (CanonicalTasks /\ NamedOnce /\ Explained /\ LoneTasks)'
  <2>1. Holds
    BY <1>2 DEF Holds, OnTheCanonicalSurface
  <2>2. CanonicalStep(t)
    BY <2>1, NoToolSteps
  <2>3. NamedOnce'
    BY <2>1, <2>2, StepClass, NamedQuiet, NamedRevised, NamedDropped DEF Quiet
  <2> QED
    BY <2>1, <2>2, <2>3, CanonicalTasksStep, ExplainedStep, LoneTasksStep
<1> QED
  BY <1>1, <1>2 DEF OnTheCanonicalSurface

-----------------------------------------------------------------------------
(* The flag.  A lowered recalc_needed, of the fork or of a checkpoint, has  *)
(* results behind it that belong to the edits.                              *)

NowTrue == FlagIsTrue(ctx.recalc, work)
PointsTrue == \A p \in Entries(ctx.checkpoints) : FlagIsTrue(p.recalc, files[p.id])
Pending == \E t \in Tasks : task[t].pc \in {"flag", "settle"}

\* Nobody but t is about to settle the flag.
Undisturbed(t) == \A u \in Tasks \ {t} : task[u].pc \notin {"flag", "settle"}

LEMMA FlagParts ==
  /\ FlagsAreTrue /\ ~gone => (Pending \/ NowTrue) /\ PointsTrue
  /\ (gone' \/ ((Pending' \/ NowTrue') /\ PointsTrue')) => FlagsAreTrue'
BY Zenon DEF FlagsAreTrue, NowTrue, PointsTrue, Pending

LEMMA FlagNow ==
  ASSUME FlagsAreTrue, ~gone, NEW t \in Tasks, Undisturbed(t), task[t].pc \notin {"flag", "settle"}
  PROVE  NowTrue
<1>1. ~Pending
  BY DEF Undisturbed, Pending
<1> QED
  BY <1>1, FlagParts

LEMMA PendingNext ==
  ASSUME NEW t \in Tasks, task'[t].pc \in {"flag", "settle"}
  PROVE  Pending'
BY DEF Pending

DocsStay == docs' = docs \/ \E c : Adds(c)

LEMMA FreshStays ==
  ASSUME DocsStay, NEW i \in 1..Len(docs)
  PROVE  docs'[i] = docs[i]
BY DEF DocsStay, Adds

Fewer == \A p \in Entries(ctx'.checkpoints) : p \in Entries(ctx.checkpoints)

LEMMA PointsSame ==
  ASSUME Shapes, Lists, FlagsAreTrue, ~gone, DocsStay, Fewer,
         \A p \in Entries(ctx'.checkpoints) : files'[p.id] = files[p.id]
  PROVE  PointsTrue'
<1>1. ASSUME NEW p \in Entries(ctx'.checkpoints) PROVE FlagIsTrue(p.recalc, files[p.id])'
  <2>1. p \in Entries(ctx.checkpoints) /\ files'[p.id] = files[p.id]
    BY DEF Fewer
  <2>2. FlagIsTrue(p.recalc, files[p.id])
    BY <2>1, FlagParts DEF PointsTrue
  <2>3. files[p.id] \in 1..Len(docs)
    BY <2>1, PointFacts
  <2>4. docs'[files'[p.id]] = docs[files[p.id]]
    BY <2>1, <2>3, FreshStays
  <2> QED
    BY <2>2, <2>4, Zenon DEF FlagIsTrue
<1> QED
  BY <1>1 DEF PointsTrue, Entries

LEMMA PointsStill ==
  ASSUME Shapes, Lists, Lists', FlagsAreTrue, ~gone, ~gone', DocsStay, Fewer, SameFiles
  PROVE  PointsTrue'
<1>1. \A p \in Entries(ctx'.checkpoints) : files'[p.id] = files[p.id]
  BY KeptPoint DEF SameFiles
<1> QED
  BY <1>1, PointsSame

\* A new checkpoint has the flag and the content of the work file.
LEMMA PointsCreated ==
  ASSUME Shapes, Lists, Lists', FlagsAreTrue, NowTrue, ~gone, ~gone', AddsPoint, UNCHANGED <<docs, work>>
  PROVE  PointsTrue' /\ NowTrue'
<1>1. PICK p \in Points, s \in Seq(Points), r \in Seq(Points) :
         /\ p.id = clock /\ p.recalc = ctx.recalc
         /\ s = Append(ctx.checkpoints, p) /\ Left(r, s, Ids(s) \ Ids(r))
         /\ Lists_ctx(ctx.staged, r) /\ files' = Kept(With(files, clock, work), Ids(s) \ Ids(r))
  BY DEF AddsPoint
<1>2. ctx'.recalc = ctx.recalc /\ ctx'.checkpoints = r
  BY <1>1 DEF Lists_ctx
<1>3. ctx.checkpoints \in Seq(Points)
  BY ContextParts DEF Shapes
<1>4. Entries(s) = Entries(ctx.checkpoints) \cup {p}
  BY <1>1, <1>3, AppendedList
<1>5. ASSUME NEW q \in Entries(ctx'.checkpoints) PROVE FlagIsTrue(q.recalc, files[q.id])'
  <2>1. files'[q.id] = With(files, clock, work)[q.id]
    BY <1>1, KeptPoint
  <2>2. q \in Entries(ctx.checkpoints) \cup {p}
    BY <1>1, <1>2, <1>4 DEF Left
  <2>3. CASE q = p
    <3>1. With(files, clock, work)[q.id] = work
      BY <1>1, <2>3 DEF With
    <3>2. docs'[files'[q.id]] = docs[work] /\ q.recalc = ctx.recalc
      BY <1>1, <2>1, <2>3, <3>1
    <3> QED
      BY <3>2, Zenon DEF NowTrue, FlagIsTrue
  <2>4. CASE q \in Entries(ctx.checkpoints)
    <3>1. q.id # clock /\ q.id \in DOMAIN files
      BY <2>4, PointFacts
    <3>2. With(files, clock, work)[q.id] = files[q.id]
      BY <3>1 DEF With
    <3>3. docs'[files'[q.id]] = docs[files[q.id]]
      BY <2>1, <3>2
    <3>4. FlagIsTrue(q.recalc, files[q.id])
      BY <2>4, FlagParts DEF PointsTrue
    <3> QED
      BY <3>3, <3>4, Zenon DEF FlagIsTrue
  <2> QED
    BY <2>2, <2>3, <2>4
<1>6. NowTrue'
  BY <1>2, Zenon DEF NowTrue, FlagIsTrue
<1> QED
  BY <1>5, <1>6 DEF PointsTrue, Entries

\* The fork takes the flag and the content of a checkpoint.
LEMMA NowRestored ==
  ASSUME Shapes, Lists, FlagsAreTrue, ~gone, docs' = docs, NEW i \in DOMAIN ctx.checkpoints,
         ctx'.recalc = ctx.checkpoints[i].recalc, work' = files[ctx.checkpoints[i].id]
  PROVE  NowTrue'
<1>1. ctx.checkpoints[i] \in Entries(ctx.checkpoints)
  BY DEF Entries
<1>2. FlagIsTrue(ctx.checkpoints[i].recalc, files[ctx.checkpoints[i].id])
  BY <1>1, FlagParts DEF PointsTrue
<1> QED
  BY <1>2, Zenon DEF NowTrue, FlagIsTrue

LEMMA FlagsStill ==
  ASSUME Shapes, Lists, Lists', FlagsAreTrue, ~gone, NEW t \in Tasks, Undisturbed(t),
         task[t].pc \notin {"flag", "settle"}, ctx'.recalc = ctx.recalc, UNCHANGED <<docs, work>>, Fewer, SameFiles
  PROVE  FlagsAreTrue'
<1>1. CASE gone'
  BY <1>1, FlagParts
<1>2. CASE ~gone'
  <2>1. PointsTrue'
    BY <1>2, PointsStill DEF DocsStay
  <2>2. NowTrue
    BY FlagNow
  <2>3. NowTrue'
    BY <2>2, Zenon DEF NowTrue, FlagIsTrue
  <2> QED
    BY <2>1, <2>3, FlagParts
<1> QED
  BY <1>1, <1>2

LEMMA FlagsRaised ==
  ASSUME Shapes, Lists, Lists', FlagsAreTrue, ~gone, ctx'.recalc = TRUE, DocsStay, Fewer, SameFiles
  PROVE  FlagsAreTrue'
<1>1. CASE gone'
  BY <1>1, FlagParts
<1>2. CASE ~gone'
  <2>1. PointsTrue'
    BY <1>2, PointsStill
  <2>2. NowTrue'
    BY Zenon DEF NowTrue, FlagIsTrue
  <2> QED
    BY <2>1, <2>2, FlagParts
<1> QED
  BY <1>1, <1>2

LEMMA SyncedFlag ==
  ASSUME Shapes, ctx' \in {ctx, Synced}
  PROVE  ctx'.recalc = ctx.recalc /\ Fewer
<1>1. Synced.checkpoints = ctx.checkpoints /\ Synced.recalc = ctx.recalc
  BY SyncedContext
<1> QED
  BY <1>1 DEF Fewer

LEMMA NewDocStays ==
  ASSUME Shapes, NEW base \in 1..Len(docs), NEW n \in Nat, NEW stale \in BOOLEAN, docs' = NewDoc(base, {n}, stale)
  PROVE  DocsStay
<1>1. \E c \in Contents : Adds(c) /\ c.edits = docs[base].edits \cup {n} /\ c.fresh = (docs[base].fresh /\ ~stale)
  BY NewDocIsOne
<1> QED
  BY <1>1, Zenon DEF DocsStay

LEMMA CanonicalSectionFlags ==
  ASSUME Shapes, Lists, Lists', FlagsAreTrue, ~gone', NEW t \in Tasks, Undisturbed(t),
         \/ Write(t) \/ Stage(t) \/ StagedApply(t) \/ StagedDiscard(t) \/ CheckpointCreate(t)
         \/ CheckpointDelete(t) \/ CheckpointRestore(t) \/ Export(t)
  PROVE  FlagsAreTrue'
<1>0. clock \in Nat /\ (~gone => work \in 1..Len(docs))
  BY PresentFork
<1>1. CASE Write(t)
  <2>1. /\ ~gone /\ ctx'.recalc = TRUE /\ ctx'.checkpoints = ctx.checkpoints /\ docs' = NewDoc(work, {clock}, TRUE)
        /\ UNCHANGED files
    BY <1>1, WriteEffect DEF Next_ctx
  <2>2. DocsStay
    BY <1>0, <2>1, NewDocStays
  <2> QED
    BY <2>1, <2>2, FlagsRaised DEF Fewer, SameFiles
<1>2. CASE StagedApply(t)
  <2>1. /\ ~gone /\ ctx'.recalc = TRUE /\ ctx'.checkpoints = ctx.checkpoints /\ docs' = NewDoc(work, {clock}, TRUE)
        /\ SameFiles
    BY <1>2, StagedApplyEffect DEF Next_ctx, SameFiles
  <2>2. DocsStay
    BY <1>0, <2>1, NewDocStays
  <2> QED
    BY <2>1, <2>2, FlagsRaised DEF Fewer
<1>3. CASE Stage(t)
  <2>1. /\ ~gone /\ ctx'.recalc = ctx.recalc /\ ctx'.checkpoints = ctx.checkpoints /\ UNCHANGED <<docs, work>>
        /\ task[t].pc = "idle" /\ SameFiles
    BY <1>3, StageEffect DEF Next_ctx, SameFiles
  <2> QED
    BY <2>1, FlagsStill DEF Fewer
<1>4. CASE StagedDiscard(t)
  <2>1. /\ ~gone /\ ctx'.recalc = ctx.recalc /\ ctx'.checkpoints = ctx.checkpoints /\ UNCHANGED <<docs, work>>
        /\ task[t].pc = "idle" /\ SameFiles
    BY <1>4, StagedDiscardEffect DEF Lists_ctx, DropsChange, SameFiles
  <2> QED
    BY <2>1, FlagsStill DEF Fewer
<1>5. CASE CheckpointDelete(t)
  <2>1. /\ ~gone /\ ctx'.recalc = ctx.recalc /\ UNCHANGED <<docs, work>> /\ task[t].pc = "idle" /\ SameFiles
        /\ \E ids : Left(ctx'.checkpoints, ctx.checkpoints, ids)
    BY <1>5, CheckpointDeleteEffect DEF Lists_ctx, DropsPoint, SameFiles
  <2> QED
    BY <2>1, FlagsStill DEF Fewer, Left
<1>6. CASE CheckpointCreate(t)
  <2>1. ~gone /\ task[t].pc = "idle" /\ AddsPoint /\ UNCHANGED <<docs, work>>
    BY <1>6, CheckpointCreateEffect
  <2> QED
    BY <2>1, FlagNow, PointsCreated, FlagParts
<1>7. CASE CheckpointRestore(t)
  <2>1. ~gone /\ docs' = docs
    BY <1>7, CheckpointRestoreEffect
  <2>2. PICK i \in DOMAIN ctx.checkpoints :
           /\ ctx'.recalc = ctx.checkpoints[i].recalc /\ work' = files[ctx.checkpoints[i].id] /\ SameFiles
           /\ ctx'.checkpoints = Until(ctx.checkpoints, ctx.checkpoints[i].at)
    BY <1>7, CheckpointRestoreEffect DEF Next_ctx, SameFiles
  <2>3. Fewer
    <3>1. ctx.checkpoints[i].at \in Nat
      BY <2>1, RestoredPoint
    <3>2. Left(ctx'.checkpoints, ctx.checkpoints, Since(ctx.checkpoints, ctx.checkpoints[i].at))
      BY <2>1, <2>2, <3>1, RestoredLists
    <3> QED
      BY <3>2 DEF Fewer, Left
  <2>4. NowTrue'
    BY <2>1, <2>2, NowRestored
  <2>5. PointsTrue'
    BY <2>1, <2>2, <2>3, PointsStill DEF DocsStay
  <2> QED
    BY <2>4, <2>5, FlagParts
<1>8. CASE Export(t)
  <2>1. /\ ~gone /\ ctx'.recalc = ctx.recalc /\ ctx'.checkpoints = ctx.checkpoints /\ UNCHANGED <<docs, work, files>>
        /\ task[t].pc = "idle"
    BY <1>8, ExportEffect DEF Next_ctx
  <2> QED
    BY <2>1, FlagsStill DEF Fewer, SameFiles
<1> QED
  BY <1>1, <1>2, <1>3, <1>4, <1>5, <1>6, <1>7, <1>8

\* Steps that leave the flag, the work file and the snapshots.
LEMMA CanonicalTaskFlags ==
  ASSUME Shapes, Lists, Lists', FlagsAreTrue, ~gone', NEW t \in Tasks, Undisturbed(t),
         \/ Observe(t) \/ RecalcBegin(t) \/ RecalcCopy(t) \/ Acquire(t) \/ Record(t) \/ Revoke(t) \/ Close(t)
         \/ ReadBegin(t) \/ Open(t) \/ Put(t) \/ Identify(t) \/ Answer(t)
  PROVE  FlagsAreTrue'
<1>1. ASSUME gone' = gone, docs' = docs, work' = work, files' = files, ctx' \in {ctx, Synced},
             task[t].pc \notin {"flag", "settle"}
      PROVE  FlagsAreTrue'
  BY <1>1, SyncedFlag, FlagsStill DEF SameFiles
<1>2. CASE Observe(t)
  <2>1. task[t].pc = "idle"
    BY <1>2, FreeTask DEF Observe
  <2> QED
    BY <1>1, <1>2, <2>1, ObserveEffect
<1>3. CASE RecalcBegin(t)
  <2>1. task[t].pc = "idle"
    BY <1>3, FreeTask DEF RecalcBegin
  <2> QED
    BY <1>1, <1>3, <2>1, RecalcBeginEffect
<1>4. CASE RecalcCopy(t)
  BY <1>1, <1>4, RecalcCopyEffect
<1>5. CASE Acquire(t)
  BY <1>1, <1>5, AcquireEffect
<1>6. CASE Record(t) \/ Revoke(t)
  BY <1>1, <1>6, RecordEffect
<1>7. CASE Close(t)
  BY <1>1, <1>7, CloseEffect
<1>8. CASE ReadBegin(t)
  <2>1. task[t].pc = "idle"
    BY <1>8, FreeTask DEF ReadBegin
  <2> QED
    BY <1>1, <1>8, <2>1, ReadBeginEffect
<1>9. CASE Open(t)
  <2>1. task[t].pc \in Opening /\ UNCHANGED <<docs, work, files, ctx, gone>>
    BY <1>9, OpenEffect
  <2> QED
    BY <1>1, <2>1 DEF Opening
<1>10. CASE Put(t)
  <2>1. task[t].pc \in Putting /\ UNCHANGED <<docs, work, files, ctx, gone>>
    BY <1>10, PutEffect
  <2> QED
    BY <1>1, <2>1 DEF Putting
<1>11. CASE Identify(t)
  BY <1>1, <1>11, IdentifyEffect
<1>12. CASE Answer(t)
  BY <1>1, <1>12, AnswerEffect
<1> QED
  BY <1>2, <1>3, <1>4, <1>5, <1>6, <1>7, <1>8, <1>9, <1>10, <1>11, <1>12

LEMMA CommitFlags ==
  ASSUME Shapes, Lists, Lists', FlagsAreTrue, ~gone', NEW t \in Tasks, Undisturbed(t), RecalcCommit(t)
  PROVE  FlagsAreTrue'
<1>1. task[t].pc = "evaluate" /\ ~gone /\ UNCHANGED files
  BY RecalcCommitEffect
<1>2. CASE ctx' = Synced /\ UNCHANGED <<docs, work>>
  BY <1>1, <1>2, SyncedFlag, FlagsStill DEF SameFiles
<1>3. ASSUME NEW complete \in BOOLEAN, NEW o \in Operations,
             Next_ctx(Random(clock), Len(docs) + 1, ctx.staged, ctx.checkpoints, Append(ctx.ops, o), ~complete),
             docs' = Append(docs, [docs[task[t].doc] EXCEPT !.fresh = complete]), work' = Len(docs) + 1
      PROVE  FlagsAreTrue'
  <2>1. task[t].doc \in 1..Len(docs)
    BY <1>1, RequestParts DEF Shapes, None
  <2>2. PICK c \in Contents : Adds(c) /\ c.fresh = complete
    BY <1>3, <2>1, EvaluatedDoc
  <2>3. DocsStay /\ docs'[work'] = c
    BY <1>3, <2>2 DEF DocsStay, Adds
  <2>4. ctx'.recalc = ~complete /\ ctx'.checkpoints = ctx.checkpoints
    BY <1>3, Zenon DEF Next_ctx
  <2>5. NowTrue'
    BY <2>2, <2>3, <2>4, Zenon DEF NowTrue, FlagIsTrue
  <2>6. PointsTrue'
    BY <1>1, <2>3, <2>4, PointsStill DEF Fewer, SameFiles
  <2> QED
    BY <2>5, <2>6, FlagParts
<1> QED
  BY <1>1, <1>2, <1>3, RecalcCommitEffect

LEMMA CanonicalFlags ==
  ASSUME Shapes, Lists, Lists', FlagsAreTrue, NEW t \in Tasks, Undisturbed(t), CanonicalStep(t)
  PROVE  FlagsAreTrue'
<1>1. CASE gone'
  BY <1>1, FlagParts
<1>2. CASE ~gone'
  BY <1>2, CanonicalSectionFlags, CanonicalTaskFlags, CommitFlags, DiscardEffect DEF CanonicalStep
<1> QED
  BY <1>1, <1>2

\* A saved content that is stale is followed by the flag.
LEMMA SaveFlags ==
  ASSUME Shapes, Lists, Lists', FlagsAreTrue, ~gone', NEW t \in Tasks, Undisturbed(t), Save(t),
         task[t].doc = work, task[t].kind \notin {"move_values", "grid_import"}
  PROVE  FlagsAreTrue'
<1>1. /\ task[t].pc = "save" /\ docs' = NewDoc(task[t].doc, {task[t].id}, Kind(t).stales)
      /\ work' = Len(docs) + 1 /\ UNCHANGED <<files, ctx, gone>>
  BY SaveEffect
<1>2. /\ task[t].kind \in BatchTools /\ Kind(t).stales \in BOOLEAN /\ Kind(t).flags \in BOOLEAN
      /\ (Kind(t).stales => Kind(t).flags)
  <2>1. task[t].kind \in BatchTools
    BY <1>1, SavedKind
  <2>2. PICK k \in BatchTools : k = task[t].kind
    BY <2>1
  <2>3. Handler(k).stales \in BOOLEAN /\ Handler(k).flags \in BOOLEAN /\ (Handler(k).stales => Handler(k).flags)
    BY <2>2, ToolOf, Zenon
  <2> QED
    BY <2>2, <2>3, Zenon DEF Kind
<1>3. PICK stale \in BOOLEAN : stale = Kind(t).stales
  BY <1>2
<1>4. ~gone /\ work \in 1..Len(docs) /\ task[t].id \in Nat
  BY <1>1, PresentFork, RequestParts
<1>5. PICK c \in Contents : Adds(c) /\ c.fresh = (docs[work].fresh /\ ~stale)
  <2>1. PICK base \in 1..Len(docs), n \in Nat : base = work /\ n = task[t].id
    BY <1>4
  <2>2. docs' = NewDoc(base, {n}, stale)
    BY <1>1, <1>3, <2>1
  <2>3. \E c \in Contents : Adds(c) /\ c.edits = docs[base].edits \cup {n} /\ c.fresh = (docs[base].fresh /\ ~stale)
    BY <2>2, NewDocIsOne
  <2> QED
    BY <2>1, <2>3, Zenon
<1>6. DocsStay /\ docs'[work'] = c
  BY <1>1, <1>5 DEF DocsStay, Adds
<1>7. PointsTrue'
  BY <1>1, <1>4, <1>6, PointsStill DEF Fewer, SameFiles
<1>8. CASE Kind(t).flags \/ task[t].raise
  <2>1. Goes(t, "flag", task[t].tok, task[t].doc, task[t].id)
    BY <1>8, SaveEffect, Zenon
  <2>2. task'[t].pc = "flag"
    BY <2>1 DEF Goes, Next_task
  <2> QED
    BY <1>7, <2>2, PendingNext, FlagParts
<1>9. CASE ~(Kind(t).flags \/ task[t].raise)
  <2>1. ~stale
    BY <1>2, <1>3, <1>9, Zenon
  <2>2. NowTrue
    BY <1>1, <1>4, FlagNow
  <2>3. c.fresh = docs[work].fresh
    <3>1. docs[work] \in Contents
      BY <1>4 DEF Shapes
    <3>2. docs[work].fresh \in BOOLEAN
      BY <3>1 DEF Contents
    <3> QED
      BY <1>5, <2>1, <3>2
  <2>4. NowTrue'
    BY <1>1, <1>6, <2>2, <2>3, Zenon DEF NowTrue, FlagIsTrue
  <2> QED
    BY <1>7, <2>4, FlagParts
<1> QED
  BY <1>8, <1>9

\* A preview copies the work file; the snapshots of the checkpoints stay.
LEMMA LoadFlags ==
  ASSUME Shapes, Lists, Lists', FlagsAreTrue, ~gone', NEW t \in Tasks, Undisturbed(t), Load(t)
  PROVE  FlagsAreTrue'
<1>1. task[t].pc = "load" /\ UNCHANGED <<docs, work, ctx, gone>> /\ ~gone
  BY LoadEffect
<1>2. CASE UNCHANGED files
  BY <1>1, <1>2, FlagsStill DEF Fewer, SameFiles
<1>3. CASE task[t].op = "preview" /\ files' = With(files, task[t].id, work)
  <2>1. ASSUME NEW p \in Entries(ctx'.checkpoints) PROVE files'[p.id] = files[p.id]
    <3>1. p \in Entries(ctx.checkpoints) /\ p.id \in DOMAIN files
      BY <1>1, PointFacts
    <3>2. p.id # task[t].id
      BY <1>1, <1>3, <3>1 DEF Lists, IdentifiersOnce
    <3> QED
      BY <1>3, <3>1, <3>2 DEF With
  <2>2. PointsTrue'
    BY <1>1, <2>1, PointsSame DEF DocsStay, Fewer
  <2>3. NowTrue
    BY <1>1, FlagNow
  <2>4. NowTrue'
    BY <1>1, <2>3, Zenon DEF NowTrue, FlagIsTrue
  <2> QED
    BY <2>2, <2>4, FlagParts
<1> QED
  BY <1>2, <1>3, LoadEffect

LEMMA EvaluateFlags ==
  ASSUME Shapes, Lists, Lists', FlagsAreTrue, ~gone', NEW t \in Tasks, Undisturbed(t),
         EvaluateWork(t) \/ EvaluateFlag(t),
         task[t].pc = "settle" /\ task[t].id # 0 => docs[work].fresh
  PROVE  FlagsAreTrue'
<1>1. CASE EvaluateWork(t)
  <2>1. task[t].pc = "evaluate_work" /\ UNCHANGED <<files, ctx, gone>> /\ ~gone
    BY <1>1, EvaluateWorkEffect
  <2>2. CASE UNCHANGED <<docs, work>>
    BY <2>1, <2>2, FlagsStill DEF Fewer, SameFiles
  <2>3. ASSUME NEW complete \in BOOLEAN, NEW n \in Nat,
               docs' = Append(docs, [docs[work] EXCEPT !.fresh = complete]),
               Goes(t, "settle", task[t].tok, task[t].doc, n)
        PROVE  FlagsAreTrue'
    <3>1. work \in 1..Len(docs)
      BY <2>1, PresentFork
    <3>2. \E c \in Contents : Adds(c) /\ c.edits = docs[work].edits /\ c.fresh = complete
      BY <2>3, <3>1, EvaluatedDoc
    <3>3. DocsStay
      BY <3>2, Zenon DEF DocsStay
    <3>4. PointsTrue'
      BY <2>1, <3>3, PointsStill DEF Fewer, SameFiles
    <3>5. task'[t].pc = "settle"
      BY <2>3 DEF Goes, Next_task
    <3> QED
      BY <3>4, <3>5, PendingNext, FlagParts
  <2> QED
    BY <1>1, <2>2, <2>3, EvaluateWorkEffect
<1>2. CASE EvaluateFlag(t)
  <2>1. task[t].pc = "settle" /\ UNCHANGED <<docs, work, files, gone>> /\ ~gone
    BY <1>2, EvaluateFlagEffect
  <2>2. PICK b \in BOOLEAN :
           /\ b \/ task[t].id # 0
           /\ Next_ctx(ctx.state, ctx.content, ctx.staged, ctx.checkpoints, ctx.ops, b)
    BY <1>2, <2>1, EvaluateFlagEffect
  <2>3. ctx'.recalc = b /\ ctx'.checkpoints = ctx.checkpoints
    BY <2>2 DEF Next_ctx
  <2>4. PointsTrue'
    BY <2>1, <2>3, PointsStill DEF DocsStay, Fewer, SameFiles
  <2>5. b \/ docs[work].fresh
    BY <2>1, <2>2, Zenon
  <2>6. NowTrue'
    BY <2>1, <2>3, <2>5, Zenon DEF NowTrue, FlagIsTrue
  <2> QED
    BY <2>4, <2>6, FlagParts
<1> QED
  BY <1>1, <1>2

LEMMA ToolFlags ==
  ASSUME Shapes, Lists, Lists', FlagsAreTrue, NEW t \in Tasks, Undisturbed(t), ToolStep(t),
         task[t].pc = "save" => task[t].doc = work /\ task[t].kind \notin {"move_values", "grid_import"},
         task[t].pc = "settle" /\ task[t].id # 0 => gone \/ docs[work].fresh
  PROVE  FlagsAreTrue'
<1>1. CASE gone'
  BY <1>1, FlagParts
<1>2. CASE ~gone'
  <2>1. ASSUME ~gone, docs' = docs, work' = work, files' = files, ctx' = ctx, task[t].pc \notin {"flag", "settle"}
        PROVE  FlagsAreTrue'
    BY <2>1, FlagsStill DEF SameFiles, Fewer
  <2>2. CASE BatchBegin(t)
    <3>1. task[t].pc = "idle"
      BY <2>2, FreeTask DEF BatchBegin
    <3> QED
      BY <2>1, <2>2, <3>1, BatchBeginEffect
  <2>3. CASE Load(t)
    BY <1>2, <2>3, LoadFlags
  <2>4. CASE AddStaged(t)
    <3>1. task[t].pc = "stage" /\ UNCHANGED <<docs, work, gone>> /\ ~gone
      BY <1>2, <2>4, AddStagedEffect
    <3>2. ctx'.recalc = ctx.recalc /\ ctx'.checkpoints = ctx.checkpoints /\ SameFiles
      BY <2>4, <3>1, AddStagedEffect DEF Lists_ctx, SameFiles
    <3> QED
      BY <3>1, <3>2, FlagsStill DEF Fewer
  <2>5. CASE Save(t)
    <3>1. task[t].pc = "save"
      BY <2>5, SaveEffect
    <3> QED
      BY <1>2, <2>5, <3>1, SaveFlags
  <2>6. CASE Flag(t)
    <3>0. UNCHANGED <<docs, files, gone>>
      BY <2>6, FlagEffect
    <3>1. ~gone
      BY <1>2, <3>0
    <3>2. ctx'.recalc = TRUE /\ ctx'.checkpoints = ctx.checkpoints
      BY <2>6, <3>1, FlagEffect DEF Next_ctx
    <3> QED
      BY <3>0, <3>1, <3>2, FlagsRaised DEF DocsStay, Fewer, SameFiles
  <2>7. CASE ApplyStaged(t)
    <3>1. task[t].pc = "idle"
      BY <2>7, FreeTask DEF ApplyStaged
    <3> QED
      BY <2>1, <2>7, <3>1, ApplyStagedEffect
  <2>8. CASE ApplyBundle(t)
    <3>1. /\ ~gone /\ ctx'.recalc = TRUE /\ ctx'.checkpoints = ctx.checkpoints /\ UNCHANGED files
          /\ docs' = NewDoc(work, {clock}, TRUE)
      BY <2>8, ApplyBundleEffect DEF Next_ctx
    <3>2. clock \in Nat /\ work \in 1..Len(docs)
      BY <3>1, PresentFork
    <3>3. DocsStay
      BY <3>1, <3>2, NewDocStays
    <3> QED
      BY <3>1, <3>3, FlagsRaised DEF Fewer, SameFiles
  <2>9. CASE Consume(t)
    <3>1. task[t].pc = "consume" /\ UNCHANGED <<docs, work, gone>> /\ ~gone
      BY <1>2, <2>9, ConsumeEffect
    <3>2. CASE UNCHANGED <<ctx, files>>
      BY <2>1, <3>1, <3>2
    <3>3. CASE DropsChange
      <4>1. ctx'.recalc = ctx.recalc /\ ctx'.checkpoints = ctx.checkpoints /\ SameFiles
        BY <3>3 DEF DropsChange, Lists_ctx, SameFiles
      <4> QED
        BY <3>1, <4>1, FlagsStill DEF Fewer
    <3> QED
      BY <2>9, <3>2, <3>3, ConsumeEffect
  <2>10. CASE EvaluateBegin(t)
    <3>1. task[t].pc = "idle"
      BY <2>10, FreeTask DEF EvaluateBegin
    <3> QED
      BY <2>1, <2>10, <3>1, EvaluateBeginEffect
  <2>11. CASE EvaluateWork(t) \/ EvaluateFlag(t)
    <3>1. ~gone
      BY <1>2, <2>11, EvaluateWorkEffect, EvaluateFlagEffect
    <3> QED
      BY <1>2, <2>11, <3>1, EvaluateFlags
  <2>12. CASE RestoreCheckpoint(t)
    <3>1. ~gone /\ docs' = docs
      BY <2>12, RestoreCheckpointEffect
    <3>2. PICK i \in DOMAIN ctx.checkpoints :
             /\ ctx'.recalc = ctx.checkpoints[i].recalc /\ work' = files[ctx.checkpoints[i].id] /\ SameFiles
             /\ ctx'.checkpoints = ctx.checkpoints
      BY <2>12, RestoreCheckpointEffect DEF Next_ctx, SameFiles
    <3>3. NowTrue'
      BY <3>1, <3>2, NowRestored
    <3>4. PointsTrue'
      BY <1>2, <3>1, <3>2, PointsStill DEF DocsStay, Fewer
    <3> QED
      BY <3>3, <3>4, FlagParts
  <2>13. CASE CheckpointFork(t)
    <3>1. ~gone /\ task[t].pc = "idle" /\ AddsPoint /\ UNCHANGED <<docs, work>>
      BY <2>13, CheckpointForkEffect
    <3> QED
      BY <1>2, <3>1, FlagNow, PointsCreated, FlagParts
  <2>14. CASE DeleteCheckpoint(t)
    <3>1. /\ ~gone /\ ctx'.recalc = ctx.recalc /\ UNCHANGED <<docs, work>> /\ task[t].pc = "idle" /\ SameFiles
          /\ \E ids : Left(ctx'.checkpoints, ctx.checkpoints, ids)
      BY <2>14, DeleteCheckpointEffect DEF Lists_ctx, DropsPoint, SameFiles
    <3> QED
      BY <3>1, FlagsStill DEF Fewer, Left
  <2>15. CASE DiscardStaged(t)
    <3>1. /\ ~gone /\ ctx'.recalc = ctx.recalc /\ ctx'.checkpoints = ctx.checkpoints /\ UNCHANGED <<docs, work>>
          /\ task[t].pc = "idle" /\ SameFiles
      BY <2>15, DiscardStagedEffect DEF Lists_ctx, DropsChange, SameFiles
    <3> QED
      BY <3>1, FlagsStill DEF Fewer
  <2>16. CASE SaveFork(t)
    BY <1>2, <2>16, SaveForkEffect
  <2> QED
    BY <2>2, <2>3, <2>4, <2>5, <2>6, <2>7, <2>8, <2>9, <2>10, <2>11, <2>12, <2>13, <2>14, <2>15, <2>16 DEF ToolStep
<1> QED
  BY <1>1, <1>2

-----------------------------------------------------------------------------
(* One request at a time.                                                   *)

\* A request starts when its task is free, and a step of another is its next one.
LEMMA CanonicalStarts ==
  ASSUME NEW t \in Tasks, CanonicalStep(t)
  PROVE  Free(t) \/ task[t].pc # "idle"
<1>1. CASE \/ Observe(t) \/ Write(t) \/ Stage(t) \/ StagedApply(t) \/ StagedDiscard(t)
           \/ CheckpointCreate(t) \/ CheckpointDelete(t) \/ CheckpointRestore(t)
           \/ Export(t) \/ Discard(t) \/ RecalcBegin(t) \/ ReadBegin(t)
  BY <1>1 DEF Observe, Write, Stage, StagedApply, StagedDiscard, CheckpointCreate, CheckpointDelete,
              CheckpointRestore, Export, Discard, RecalcBegin, ReadBegin
<1>2. CASE \/ RecalcCopy(t) \/ Acquire(t) \/ RecalcCommit(t) \/ Record(t) \/ Revoke(t) \/ Close(t)
           \/ Open(t) \/ Put(t) \/ Identify(t) \/ Answer(t)
  BY <1>2 DEF RecalcCopy, Acquire, RecalcCommit, Record, Revoke, Close, Open, Put, Identify, Answer, Opening, Putting
<1> QED
  BY <1>1, <1>2 DEF CanonicalStep

LEMMA ToolStarts ==
  ASSUME NEW t \in Tasks, ToolStep(t)
  PROVE  Free(t) \/ task[t].pc # "idle"
<1>1. CASE \/ BatchBegin(t) \/ ApplyStaged(t) \/ ApplyBundle(t) \/ EvaluateBegin(t) \/ RestoreCheckpoint(t)
           \/ CheckpointFork(t) \/ DeleteCheckpoint(t) \/ DiscardStaged(t) \/ SaveFork(t)
  BY <1>1 DEF BatchBegin, ApplyStaged, ApplyBundle, EvaluateBegin, RestoreCheckpoint, CheckpointFork,
              DeleteCheckpoint, DiscardStaged, SaveFork
<1>2. CASE \/ Load(t) \/ AddStaged(t) \/ Save(t) \/ Flag(t) \/ Consume(t) \/ EvaluateWork(t) \/ EvaluateFlag(t)
  BY <1>2 DEF Load, AddStaged, Save, Flag, Consume, EvaluateWork, EvaluateFlag
<1> QED
  BY <1>1, <1>2 DEF ToolStep

Alone(t) == \A u \in Tasks \ {t} : task[u].pc = "idle"

LEMMA OnlyOne ==
  ASSUME OneAtATime, OneRequest, NEW t \in Tasks, Free(t) \/ task[t].pc # "idle"
  PROVE  Alone(t)
<1>1. CASE task[t].pc # "idle"
  BY <1>1 DEF OneRequest, Alone
<1>2. CASE Free(t)
  <2>1. IsFiniteSet(Active)
    BY ForkLifecycleAssumption, FS_Subset DEF Active
  <2>2. Cardinality(Active) \in Nat /\ Cardinality(Active) < 1
    BY <1>2, <2>1, FS_CardinalityType DEF Free, OneAtATime
  <2>3. Active = {}
    BY <2>1, <2>2, FS_EmptySet
  <2> QED
    BY <2>3 DEF Active, Alone
<1> QED
  BY <1>1, <1>2

Kinds == \A e \in Entries(ctx.staged) : Bundle(e) \/ e.kind \in Batches
Sane(t) ==
    /\ task[t].pc = "save" => task[t].doc = work
    /\ task[t].pc \in {"open", "put", "load", "stage", "save"} => task[t].kind \in Batches
    /\ task[t].pc = "settle" /\ task[t].id # None => gone \/ docs[work].fresh

LEMMA OneParts ==
  OneRequest <=> /\ \A t, u \in Tasks : task[t].pc # "idle" /\ task[u].pc # "idle" => t = u
                 /\ \A t \in Tasks : Sane(t)
                 /\ Kinds
BY Zenon DEF OneRequest, Sane, Kinds

LEMMA OneStep ==
  ASSUME NEW t \in Tasks, Alone(t), Others(t), Sane(t)', Kinds'
  PROVE  OneRequest'
<1>1. \A u \in Tasks \ {t} : task'[u].pc = "idle"
  BY DEF Alone, Others, Same
<1>2. \A u \in Tasks : Sane(u)'
  BY <1>1 DEF Sane
<1>3. \A a, b \in Tasks : task'[a].pc # "idle" /\ task'[b].pc # "idle" => a = b
  BY <1>1
<1> QED
  BY <1>2, <1>3, Zenon DEF OneRequest, Sane, Kinds

LEMMA KindsSame ==
  ASSUME Kinds, load' = load, \A e \in Entries(ctx'.staged) : e \in Entries(ctx.staged)
  PROVE  Kinds'
BY DEF Kinds, Batches, Entries, Bundle

LEMMA KindsFewer ==
  ASSUME Kinds, load' = load, NEW ids, Left(ctx'.staged, ctx.staged, ids)
  PROVE  Kinds'
BY KindsSame DEF Left

LEMMA KindsMore ==
  ASSUME Shapes, Kinds, load' = load, NEW e \in Changes, NEW s \in Seq(Changes), s = Append(ctx.staged, e),
         NEW ids, Left(ctx'.staged, s, ids), Bundle(e) \/ e.kind \in Batches
  PROVE  Kinds'
<1>1. ctx.staged \in Seq(Changes)
  BY ContextParts DEF Shapes
<1>2. Entries(s) = Entries(ctx.staged) \cup {e}
  BY <1>1, AppendedList
<1>3. \A f \in Entries(ctx'.staged) : f \in Entries(ctx.staged) \/ f = e
  BY <1>2 DEF Left
<1> QED
  BY <1>3 DEF Kinds, Batches, Entries, Bundle

LEMMA KindsDropped == ASSUME Kinds, load' = load, DropsChange PROVE Kinds'
<1>1. \E ids : Left(ctx'.staged, ctx.staged, ids)
  BY DEF DropsChange, Lists_ctx
<1> QED
  BY <1>1, KindsFewer

LEMMA KindsPoint == ASSUME Kinds, load' = load, DropsPoint \/ AddsPoint PROVE Kinds'
<1>1. ctx'.staged = ctx.staged
  BY DEF DropsPoint, AddsPoint, Lists_ctx
<1> QED
  BY <1>1, KindsSame

LEMMA KindsSynced == ASSUME Shapes, Kinds, load' = load, ctx' \in {ctx, Synced} PROVE Kinds'
<1>1. ctx'.staged = ctx.staged
  BY SyncedContext
<1> QED
  BY <1>1, KindsSame

LEMMA CanonicalKinds ==
  ASSUME Shapes, Lists, Kinds, load' = load, NEW t \in Tasks, CanonicalStep(t)
  PROVE  Kinds'
<1>1. CASE Write(t)
  <2>1. ctx'.staged = ctx.staged
    BY <1>1, WriteEffect DEF Next_ctx
  <2> QED
    BY <2>1, KindsSame
<1>2. CASE Stage(t)
  <2>1. PICK e \in Changes, s \in Seq(Changes) :
           Bundle(e) /\ s = Append(ctx.staged, e) /\ \E ids : Left(ctx'.staged, s, ids)
    BY <1>2, StageEffect DEF Next_ctx
  <2> QED
    BY <2>1, KindsMore
<1>3. CASE StagedApply(t)
  <2>1. \E ids : Left(ctx'.staged, ctx.staged, ids)
    BY <1>3, StagedApplyEffect DEF Next_ctx
  <2> QED
    BY <2>1, KindsFewer
<1>4. CASE StagedDiscard(t)
  BY <1>4, StagedDiscardEffect, KindsDropped
<1>5. CASE CheckpointCreate(t) \/ CheckpointDelete(t)
  BY <1>5, CheckpointCreateEffect, CheckpointDeleteEffect, KindsPoint
<1>6. CASE CheckpointRestore(t)
  <2>1. ~gone
    BY <1>6, CheckpointRestoreEffect
  <2>2. PICK i \in DOMAIN ctx.checkpoints : ctx'.staged = Until(ctx.staged, ctx.checkpoints[i].at)
    BY <1>6, CheckpointRestoreEffect DEF Next_ctx
  <2>3. ctx.checkpoints[i].at \in Nat
    BY <2>1, RestoredPoint
  <2>4. Left(ctx'.staged, ctx.staged, Since(ctx.staged, ctx.checkpoints[i].at))
    BY <2>1, <2>2, <2>3, RestoredLists
  <2> QED
    BY <2>4, KindsFewer
<1>7. CASE Export(t)
  <2>1. ctx'.staged = ctx.staged
    BY <1>7, ExportEffect DEF Next_ctx
  <2> QED
    BY <2>1, KindsSame
<1>8. CASE RecalcCommit(t)
  <2>1. ctx' \in {ctx, Synced} \/ ctx'.staged = ctx.staged
    BY <1>8, RecalcCommitEffect DEF Next_ctx
  <2> QED
    BY <2>1, KindsSame, KindsSynced
<1>9. CASE Observe(t) \/ Discard(t) \/ RecalcBegin(t) \/ Identify(t)
  <2>1. ctx' \in {ctx, Synced}
    BY <1>9, ObserveEffect, DiscardEffect, RecalcBeginEffect, IdentifyEffect
  <2> QED
    BY <2>1, KindsSynced
<1>10. CASE \/ RecalcCopy(t) \/ Acquire(t) \/ Record(t) \/ Revoke(t) \/ Close(t) \/ ReadBegin(t) \/ Open(t) \/ Put(t)
            \/ Answer(t)
  <2>1. ctx' = ctx
    BY <1>10, RecalcCopyEffect, AcquireEffect, RecordEffect, CloseEffect, ReadBeginEffect, OpenEffect, PutEffect,
       AnswerEffect
  <2> QED
    BY <2>1, KindsSynced
<1> QED
  BY <1>1, <1>2, <1>3, <1>4, <1>5, <1>6, <1>7, <1>8, <1>9, <1>10 DEF CanonicalStep

LEMMA ToolKinds ==
  ASSUME Shapes, Lists, Kinds, load' = load, NEW t \in Tasks, Sane(t), ToolStep(t)
  PROVE  Kinds'
<1>1. CASE AddStaged(t)
  <2>1. task[t].pc = "stage"
    BY <1>1, AddStagedEffect
  <2>2. task[t].kind \in Batches
    BY <2>1 DEF Sane
  <2>3. CASE gone
    BY <1>1, <2>3, AddStagedEffect, KindsSynced
  <2>4. CASE ~gone
    <3>1. PICK e \in Changes, s \in Seq(Changes) :
             e.kind = task[t].kind /\ s = Append(ctx.staged, e) /\ \E ids : Left(ctx'.staged, s, ids)
      BY <1>1, <2>4, AddStagedEffect DEF Lists_ctx
    <3> QED
      BY <2>2, <3>1, KindsMore
  <2> QED
    BY <2>3, <2>4
<1>2. CASE Flag(t) \/ EvaluateFlag(t) \/ ApplyBundle(t)
  <2>1. ctx'.staged = ctx.staged
    BY <1>2, FlagEffect, EvaluateFlagEffect, ApplyBundleEffect DEF Next_ctx
  <2> QED
    BY <2>1, KindsSame
<1>3. CASE Consume(t) \/ DiscardStaged(t)
  <2>1. ctx' = ctx \/ DropsChange
    BY <1>3, ConsumeEffect, DiscardStagedEffect
  <2> QED
    BY <2>1, KindsDropped, KindsSynced
<1>4. CASE CheckpointFork(t) \/ DeleteCheckpoint(t)
  BY <1>4, CheckpointForkEffect, DeleteCheckpointEffect, KindsPoint
<1>5. CASE RestoreCheckpoint(t)
  <2>1. ~gone
    BY <1>5, RestoreCheckpointEffect
  <2>2. PICK i \in DOMAIN ctx.checkpoints : ctx'.staged = Until(ctx.staged, ctx.checkpoints[i].at)
    BY <1>5, RestoreCheckpointEffect DEF Next_ctx
  <2>3. ctx.checkpoints[i].at \in Nat
    BY <2>1, RestoredPoint
  <2>4. Left(ctx'.staged, ctx.staged, Since(ctx.staged, ctx.checkpoints[i].at))
    BY <2>1, <2>2, <2>3, RestoredLists
  <2> QED
    BY <2>4, KindsFewer
<1>6. CASE \/ BatchBegin(t) \/ Load(t) \/ Save(t) \/ ApplyStaged(t) \/ EvaluateBegin(t) \/ EvaluateWork(t)
           \/ SaveFork(t)
  <2>1. ctx' = ctx
    BY <1>6, BatchBeginEffect, LoadEffect, SaveEffect, ApplyStagedEffect, EvaluateBeginEffect, EvaluateWorkEffect,
       SaveForkEffect
  <2> QED
    BY <2>1, KindsSynced
<1> QED
  BY <1>1, <1>2, <1>3, <1>4, <1>5, <1>6 DEF ToolStep

Careful == {"open", "put", "load", "stage", "save", "settle"}

\* Outside the places where a tool is at work nothing is promised.
LEMMA SaneElsewhere ==
  ASSUME NEW t \in Tasks, task'[t].pc \notin Careful
  PROVE  Sane(t)'
BY DEF Sane, Careful

LEMMA SaneExit == ASSUME NEW t \in Tasks, Exits(t) PROVE Others(t) /\ Sane(t)'
<1>1. Others(t) /\ task'[t].pc \notin Careful
  BY DEF Exits, Next_task, Careful
<1> QED
  BY <1>1, SaneElsewhere

LEMMA SaneInstant == ASSUME Shapes, NEW t \in Tasks, Instant(t), task[t].pc = "idle" PROVE Others(t) /\ Sane(t)'
<1>1. Others(t) /\ task'[t].pc \notin Careful
  BY InstantTasks DEF Same, Careful
<1> QED
  BY <1>1, SaneElsewhere

LEMMA SaneEnter ==
  ASSUME NEW t \in Tasks, NEW pc, NEW op, NEW kind, NEW tok, NEW id, Entered(t, pc, op, kind, tok, id), load' = load,
         pc \notin Careful \/ (pc \in {"open", "load"} /\ kind \in Batches)
  PROVE  Others(t) /\ Sane(t)'
<1>1. Others(t) /\ task'[t].pc = pc /\ task'[t].kind = kind
  BY DEF Entered, Next_task
<1> QED
  BY <1>1 DEF Sane, Careful, Batches

LEMMA SaneGo ==
  ASSUME NEW t \in Tasks, NEW pc, NEW tok, NEW doc, NEW id, Goes(t, pc, tok, doc, id), pc \notin Careful
  PROVE  Others(t) /\ Sane(t)'
<1>1. Others(t) /\ task'[t].pc = pc
  BY DEF Goes, Next_task
<1> QED
  BY <1>1, SaneElsewhere

\* The tool stays the same while the task loads.
LEMMA SaneLoad ==
  ASSUME NEW t \in Tasks, NEW pc, NEW tok, NEW doc, NEW id, Goes(t, pc, tok, doc, id), load' = load, Sane(t),
         task[t].pc \in {"open", "put", "load"}, pc \in {"put", "load", "stage", "save"}, pc = "save" => doc = work'
  PROVE  Others(t) /\ Sane(t)'
<1>1. Others(t) /\ task'[t].pc = pc /\ task'[t].kind = task[t].kind /\ task'[t].doc = doc
  BY DEF Goes, Next_task
<1>2. task[t].kind \in Batches
  BY DEF Sane
<1> QED
  BY <1>1, <1>2 DEF Sane, Batches

LEMMA CanonicalSane ==
  ASSUME Shapes, Lists, load' = load, NEW t \in Tasks, Sane(t), CanonicalStep(t)
  PROVE  Others(t) /\ Sane(t)'
<1>1. CASE \/ Observe(t) \/ Stage(t) \/ StagedApply(t) \/ StagedDiscard(t) \/ CheckpointCreate(t)
           \/ CheckpointDelete(t) \/ CheckpointRestore(t) \/ Export(t) \/ Discard(t)
  <2>1. Instant(t) /\ task[t].pc = "idle"
    BY <1>1, FreeTask DEF Observe, Stage, StagedApply, StagedDiscard, CheckpointCreate, CheckpointDelete,
                          CheckpointRestore, Export, Discard
  <2> QED
    BY <2>1, SaneInstant
<1>2. CASE Write(t)
  BY <1>2, WriteEnters, SaneEnter DEF Careful
<1>3. CASE RecalcBegin(t)
  BY <1>3, RecalcBeginEffect, SaneEnter DEF Careful
<1>4. CASE ReadBegin(t)
  BY <1>4, ReadBeginEffect, SaneEnter DEF Careful
<1>5. CASE RecalcCopy(t)
  BY <1>5, RecalcCopyEffect, SaneExit, SaneGo DEF Careful
<1>6. CASE Acquire(t)
  <2>1. \E pc \in {"evaluate", "evaluate_work"} : Goes(t, pc, task[t].tok, task[t].doc, task[t].id)
    BY <1>6, AcquireEffect
  <2> QED
    BY <2>1, SaneGo DEF Careful
<1>7. CASE RecalcCommit(t)
  <2>1. Exits(t) \/ \E n \in Nat : Goes(t, "record", Random(clock), task[t].doc, n)
    BY <1>7, RecalcCommitEffect
  <2> QED
    BY <2>1, SaneExit, SaneGo DEF Careful
<1>8. CASE Record(t) \/ Revoke(t)
  BY <1>8, RecordEffect, SaneGo DEF Careful
<1>9. CASE Close(t) \/ Answer(t)
  BY <1>9, CloseEffect, AnswerEffect, SaneExit
<1>10. CASE Open(t)
  <2>1. task[t].pc \in Opening
    BY <1>10, OpenEffect
  <2>2. PICK pc, doc : pc \in {Then(task[t].pc), PutFor(task[t].pc), "idle"}
                         /\ (Exits(t) \/ (pc # "idle" /\ Goes(t, pc, task[t].tok, doc, task[t].id)))
    <3>1. Then(task[t].pc) # "idle" /\ PutFor(task[t].pc) # "idle"
      BY <2>1 DEF Opening, Then, PutFor
    <3> QED
      BY <1>10, <3>1, OpenEffect
  <2>3. CASE task[t].pc = "open"
    <3>1. Then(task[t].pc) = "load" /\ PutFor(task[t].pc) = "put"
      BY <2>3 DEF Then, PutFor
    <3> QED
      BY <2>2, <2>3, <3>1, SaneExit, SaneLoad
  <2>4. CASE task[t].pc # "open"
    <3>1. Then(task[t].pc) \in {"identify", "open3", "answer"} /\ PutFor(task[t].pc) \in {"put1", "put2", "put3"}
      BY <2>1, <2>4 DEF Opening, Then, PutFor
    <3> QED
      BY <2>2, <3>1, SaneExit, SaneGo DEF Careful
  <2> QED
    BY <2>3, <2>4
<1>11. CASE Put(t)
  <2>1. task[t].pc \in Putting /\ Goes(t, Then(OpenFor(task[t].pc)), task[t].tok, task[t].doc, task[t].id)
    BY <1>11, PutEffect
  <2>2. CASE task[t].pc = "put"
    <3>1. Then(OpenFor(task[t].pc)) = "load"
      BY <2>2 DEF Then, OpenFor
    <3> QED
      BY <2>1, <2>2, <3>1, SaneLoad
  <2>3. CASE task[t].pc # "put"
    <3>1. Then(OpenFor(task[t].pc)) \in {"identify", "open3", "answer"}
      BY <2>1, <2>3 DEF Putting, Then, OpenFor
    <3> QED
      BY <2>1, <3>1, SaneGo DEF Careful
  <2> QED
    BY <2>2, <2>3
<1>12. CASE Identify(t)
  <2>1. \/ Exits(t)
        \/ \E pc \in {"open2", "open3"} : Goes(t, pc, Synced.state, task[t].doc, task[t].id)
    BY <1>12, IdentifyEffect
  <2> QED
    BY <2>1, SaneExit, SaneGo DEF Careful
<1> QED
  BY <1>1, <1>2, <1>3, <1>4, <1>5, <1>6, <1>7, <1>8, <1>9, <1>10, <1>11, <1>12 DEF CanonicalStep

LEMMA ToolSane ==
  ASSUME Shapes, Lists, Kinds, load' = load, NEW t \in Tasks, Sane(t), ToolStep(t)
  PROVE  Others(t) /\ Sane(t)'
<1>1. CASE BatchBegin(t)
  BY <1>1, BatchBeginEffect, SaneEnter
<1>2. CASE Load(t)
  <2>1. task[t].pc = "load" /\ work' = work
    BY <1>2, LoadEffect
  <2>2. Exits(t) \/ \E pc \in {"stage", "save"} : Goes(t, pc, task[t].tok, work, task[t].id)
    BY <1>2, LoadEffect
  <2> QED
    BY <2>1, <2>2, SaneExit, SaneLoad
<1>3. CASE AddStaged(t)
  BY <1>3, AddStagedEffect, SaneExit
<1>4. CASE Save(t)
  <2>1. \/ Exits(t)
        \/ Goes(t, "flag", task[t].tok, task[t].doc, task[t].id)
        \/ \E pc \in {"consume", "close"} : Goes(t, pc, task[t].tok, task[t].doc, task[t].id)
    BY <1>4, SaveEffect, Zenon
  <2> QED
    BY <2>1, SaneExit, SaneGo DEF Careful
<1>5. CASE Flag(t)
  <2>1. Exits(t) \/ \E pc \in {"consume", "close"} : Goes(t, pc, task[t].tok, task[t].doc, task[t].id)
    BY <1>5, FlagEffect
  <2> QED
    BY <2>1, SaneExit, SaneGo DEF Careful
<1>6. CASE ApplyStaged(t)
  <2>1. PICK i \in DOMAIN ctx.staged :
           /\ ~Bundle(ctx.staged[i])
           /\ Entered(t, "load", "replay", ctx.staged[i].kind, Hash(0), ctx.staged[i].id)
    BY <1>6, ApplyStagedEffect
  <2>2. ctx.staged[i].kind \in Batches
    BY <2>1 DEF Kinds, Entries
  <2> QED
    BY <2>1, <2>2, SaneEnter
<1>7. CASE ApplyBundle(t)
  <2>1. \E i \in DOMAIN ctx.staged, pc \in {"flag", "consume"} :
           Entered(t, pc, "replay", "canonical_write_bundle", Hash(0), ctx.staged[i].id)
    BY <1>7, ApplyBundleEffect
  <2> QED
    BY <2>1, SaneEnter DEF Careful
<1>8. CASE Consume(t)
  BY <1>8, ConsumeEffect, SaneExit, SaneGo DEF Careful
<1>9. CASE EvaluateBegin(t)
  BY <1>9, EvaluateBeginEffect, SaneEnter DEF Careful
<1>10. CASE EvaluateWork(t)
  <2>1. CASE Exits(t)
    BY <2>1, SaneExit
  <2>2. ASSUME work # 0, work' = Len(docs) + 1, NEW complete \in BOOLEAN, NEW n \in Nat, n # 0 => complete,
               docs' = Append(docs, [docs[work] EXCEPT !.fresh = complete]),
               Goes(t, "settle", task[t].tok, task[t].doc, n)
        PROVE  Others(t) /\ Sane(t)'
    <3>1. work \in 1..Len(docs)
      BY <2>2 DEF Shapes
    <3>2. PICK c \in Contents : Adds(c) /\ c.fresh = complete
      BY <2>2, <3>1, EvaluatedDoc
    <3>3. docs'[work'] = c
      BY <2>2, <3>2 DEF Adds
    <3>4. Others(t) /\ task'[t].pc = "settle" /\ task'[t].id = n
      BY <2>2 DEF Goes, Next_task
    <3>5. n # 0 => docs'[work'].fresh
      BY <2>2, <3>2, <3>3, Zenon
    <3> QED
      BY <3>4, <3>5 DEF Sane, None
  <2> QED
    BY <1>10, <2>1, <2>2, EvaluateWorkEffect
<1>11. CASE EvaluateFlag(t)
  <2>1. Exits(t) \/ Goes(t, "close", task[t].tok, task[t].doc, task[t].id)
    BY <1>11, EvaluateFlagEffect
  <2> QED
    BY <2>1, SaneExit, SaneGo DEF Careful
<1>12. CASE RestoreCheckpoint(t)
  BY <1>12, RestoreCheckpointEffect, SaneEnter DEF Careful
<1>13. CASE CheckpointFork(t) \/ DeleteCheckpoint(t) \/ DiscardStaged(t) \/ SaveFork(t)
  <2>1. Instant(t) /\ task[t].pc = "idle"
    BY <1>13, FreeTask DEF CheckpointFork, DeleteCheckpoint, DiscardStaged, SaveFork
  <2> QED
    BY <2>1, SaneInstant
<1> QED
  BY <1>1, <1>2, <1>3, <1>4, <1>5, <1>6, <1>7, <1>8, <1>9, <1>10, <1>11, <1>12, <1>13 DEF ToolStep

LEMMA OneRequestStep ==
  ASSUME Shapes, Lists, OneAtATime, OneRequest, load' = load, NEW t \in Tasks, CanonicalStep(t) \/ ToolStep(t)
  PROVE  OneRequest' /\ Alone(t)
<1>1. Alone(t)
  BY CanonicalStarts, ToolStarts, OnlyOne
<1>2. Sane(t) /\ Kinds
  BY OneParts
<1>3. Others(t) /\ Sane(t)' /\ Kinds'
  BY <1>2, CanonicalKinds, ToolKinds, CanonicalSane, ToolSane
<1> QED
  BY <1>1, <1>3, OneStep

LEMMA FlagsPreserved ==
  ASSUME Shapes, Lists, OnTheCanonicalSurface, Flags, Lists', load' = load, NEW t \in Tasks,
         CanonicalStep(t) \/ ToolStep(t)
  PROVE  Flags'
<1>1. (CanonicalOnly' <=> CanonicalOnly) /\ (OneAtATime' <=> OneAtATime)
  BY DEF CanonicalOnly, OneAtATime, Batches, Lifecycle
<1>2. ASSUME CanonicalOnly PROVE FlagsAreTrue'
  <2>1. Holds /\ FlagsAreTrue
    BY <1>2 DEF Holds, OnTheCanonicalSurface, Flags
  <2>2. CanonicalStep(t)
    BY <2>1, NoToolSteps
  <2>3. Undisturbed(t)
    BY <2>1, OwnTask DEF Undisturbed, CanonicalPlaces
  <2> QED
    BY <2>1, <2>2, <2>3, CanonicalFlags
<1>3. ASSUME OneAtATime PROVE OneRequest' /\ FlagsAreTrue'
  <2>1. OneRequest /\ FlagsAreTrue
    BY <1>3 DEF Flags
  <2>2. OneRequest' /\ Alone(t)
    BY <1>3, <2>1, OneRequestStep
  <2>3. Undisturbed(t)
    BY <2>2 DEF Undisturbed, Alone
  <2>4. Sane(t)
    BY <2>1, OneParts
  <2>5. /\ task[t].pc = "save" => task[t].doc = work /\ task[t].kind \notin {"move_values", "grid_import"}
        /\ task[t].pc = "settle" /\ task[t].id # 0 => gone \/ docs[work].fresh
    BY <1>3, <2>4 DEF Sane, OneAtATime, None
  <2> QED
    BY <2>1, <2>2, <2>3, <2>5, CanonicalFlags, ToolFlags
<1> QED
  BY <1>1, <1>2, <1>3 DEF Flags

-----------------------------------------------------------------------------
(* Calls that fail: the task is over, and what it copied stays.             *)

LEMMA CallFailsEffect ==
  ASSUME Shapes, NEW t \in Tasks, CallFails(t)
  PROVE  /\ Exits(t) /\ task[t].pc \notin {"idle", "flag", "settle"}
         /\ UNCHANGED <<docs, work, files, ctx, gone, cache, clock, named, reads>>
         /\ task[t].pc # "stage" => failed' = failed
         /\ task[t].pc = "stage" => failed' = failed \cup {task[t].id}
BY Leaves DEF CallFails, fork, shared

LEMMA CheckpointFailsEffect ==
  ASSUME Shapes, NEW t \in Tasks, CheckpointFails(t)
  PROVE  /\ ~gone /\ Free(t) /\ Instant(t) /\ ctx' = Synced /\ files' = With(files, clock, work)
         /\ failed' = failed \cup {clock} /\ clock' = clock + 1
         /\ UNCHANGED <<docs, work, gone, cache, named, reads>>
BY DEF CheckpointFails, Offered, Tick, shared

LEMMA FailsShapes ==
  ASSUME Shapes, load' = load, NEW t \in Tasks, Fails(t)
  PROVE  Shapes'
<1>0. ctx \in Contexts /\ Synced \in Contexts
  BY SyncedContext DEF Shapes
<1>1. CASE CallFails(t)
  <2>1. Exits(t) /\ UNCHANGED <<docs, work, files, ctx, gone, cache, clock>>
    BY <1>1, CallFailsEffect
  <2>2. TaskShape(t)
    BY <2>1, ExitShape DEF Shapes
  <2> QED
    BY <1>0, <2>1, <2>2, StillStep DEF SameFiles
<1>2. CASE CheckpointFails(t)
  <2>1. /\ ~gone /\ Instant(t) /\ ctx' = Synced /\ files' = With(files, clock, work) /\ clock' = clock + 1
        /\ UNCHANGED <<docs, work, gone, cache>>
    BY <1>2, CheckpointFailsEffect
  <2>2. DocShape /\ Len(docs) \in Nat /\ Len(docs') = Len(docs)
    BY <2>1, StillDocs
  <2>3. TaskShape(t)
    BY <2>1, <2>2, InstantShape
  <2>4. FileShape
    BY <2>1, CopiedFile, PresentFork
  <2> QED
    BY <1>0, <2>1, <2>2, <2>3, <2>4, ShapesStep
<1> QED
  BY <1>1, <1>2 DEF Fails

LEMMA CallFailsLists ==
  ASSUME Shapes, Lists, NEW t \in Tasks, CallFails(t)
  PROVE  Lists'
<1>0. /\ Exits(t) /\ task[t].pc \notin {"idle", "flag", "settle"}
      /\ UNCHANGED <<docs, work, files, ctx, gone, cache, clock, named, reads>>
      /\ task[t].pc # "stage" => failed' = failed
      /\ task[t].pc = "stage" => failed' = failed \cup {task[t].id}
  BY CallFailsEffect
<1>1. CASE gone
  BY <1>0, <1>1, GoneLists
<1>2. CASE ~gone /\ task[t].pc # "stage"
  BY <1>0, <1>2, ExitQuiet, SameIsLonger, ListsStill
<1>3. CASE ~gone /\ task[t].pc = "stage"
  <2>1. PICK b, lost, changes, points, names :
           /\ b = task' /\ lost = failed' /\ changes = Entries(ctx.staged) /\ points = Entries(ctx.checkpoints)
           /\ names = DOMAIN files
    OBVIOUS
  <2>2. IdentifiersOnce(changes, points, task, clock) /\ FilesListed(changes, points, task, names)
    BY <1>3, <2>1 DEF Lists
  <2>3. b[t].op = "none" /\ b[t].pc = "idle"
    BY <1>0, <2>1 DEF Exits, Next_task
  <2>4. \A u \in Tasks \ {t} : /\ b[u].op = task[u].op /\ b[u].pc = task[u].pc /\ b[u].id = task[u].id
                               /\ b[u].kind = task[u].kind
    BY <1>0, <2>1 DEF Exits, Next_task, Others, Same
  <2>5. IdentifiersOnce(changes, points, b, clock)
    <3>1. ASSUME NEW u \in Tasks, b[u].op = "preview"
          PROVE  /\ b[u].id < clock
                 /\ b[u].pc \in {"open", "put", "load", "stage"} /\ b[u].kind \in BatchTools
                 /\ \A e \in changes : b[u].id # e.id
                 /\ \A p \in points : b[u].id # p.id
                 /\ \A v \in Tasks : b[v].op = "preview" /\ b[u].id = b[v].id => u = v
      <4>1. u # t /\ \A v \in Tasks : b[v].op = "preview" => v # t
        BY <2>3, <3>1
      <4>2. task[u].op = "preview"
        BY <2>4, <3>1, <4>1
      <4>3. /\ task[u].id < clock
            /\ task[u].pc \in {"open", "put", "load", "stage"} /\ task[u].kind \in BatchTools
            /\ \A e \in changes : task[u].id # e.id
            /\ \A p \in points : task[u].id # p.id
            /\ \A v \in Tasks : task[v].op = "preview" /\ task[u].id = task[v].id => u = v
        BY <2>2, <4>2 DEF IdentifiersOnce
      <4> QED
        BY <2>4, <4>1, <4>3
    <3> QED
      BY <2>2, <3>1 DEF IdentifiersOnce
  <2>6. ASSUME NEW n \in names
        PROVE  \/ \E p \in points : p.id = n
               \/ \E e \in changes : ~Bundle(e) /\ e.id = n
               \/ \E u \in Tasks : b[u].pc = "stage" /\ b[u].id = n
               \/ n \in lost
    <3>1. \/ \E p \in points : p.id = n
          \/ \E e \in changes : ~Bundle(e) /\ e.id = n
          \/ \E u \in Tasks : task[u].pc = "stage" /\ task[u].id = n
          \/ n \in failed
      BY <2>2 DEF FilesListed
    <3>2. ASSUME NEW u \in Tasks, task[u].pc = "stage", task[u].id = n
          PROVE  n \in lost \/ \E v \in Tasks : b[v].pc = "stage" /\ b[v].id = n
      <4>1. CASE u = t
        BY <1>0, <1>3, <2>1, <3>2, <4>1
      <4>2. CASE u # t
        BY <2>4, <3>2, <4>2
      <4> QED
        BY <4>1, <4>2
    <3>3. failed \subseteq lost
      BY <1>0, <1>3, <2>1
    <3> QED
      BY <3>1, <3>2, <3>3
  <2>7. \A u \in Tasks : b[u].pc = "stage" => b[u].op = "preview" /\ b[u].id \in names
    BY <2>2, <2>3, <2>4 DEF FilesListed
  <2>8. (\A p \in points : p.id \in names) /\ (\A e \in changes : ~Bundle(e) => e.id \in names)
    BY <2>2 DEF FilesListed
  <2>9. FilesListed(Entries(ctx.staged), Entries(ctx.checkpoints), task, DOMAIN files)'
    BY <1>0, <2>1, <2>6, <2>7, <2>8 DEF FilesListed, Entries, Bundle
  <2>10. IdentifiersOnce(Entries(ctx.staged), Entries(ctx.checkpoints), task, clock)'
    BY <1>0, <2>1, <2>5 DEF IdentifiersOnce, Entries
  <2>11. (Once(ctx.staged) /\ Once(ctx.checkpoints) /\ PointsInOrder(Entries(ctx.checkpoints), Len(ctx.ops)))'
    BY <1>0, <1>3 DEF Lists, Once, PointsInOrder, Entries
  <2> QED
    BY <2>9, <2>10, <2>11 DEF Lists
<1> QED
  BY <1>1, <1>2, <1>3

LEMMA CheckpointFailsLists ==
  ASSUME Shapes, Lists, NEW t \in Tasks, CheckpointFails(t)
  PROVE  Lists'
<1>0. /\ ~gone /\ Instant(t) /\ ctx' = Synced /\ files' = With(files, clock, work)
      /\ failed' = failed \cup {clock} /\ clock' = clock + 1 /\ gone' = gone
  BY CheckpointFailsEffect
<1>1. ctx'.staged = ctx.staged /\ ctx'.checkpoints = ctx.checkpoints /\ ctx'.ops = ctx.ops
  BY <1>0, SyncedContext
<1>2. PICK b, lost, next, changes, points, names :
         /\ b = task' /\ lost = failed' /\ next = clock' /\ names = DOMAIN files
         /\ changes = Entries(ctx.staged) /\ points = Entries(ctx.checkpoints)
  OBVIOUS
<1>3. /\ changes \in SUBSET Changes /\ points \in SUBSET Points /\ task \in [Tasks -> Requests] /\ clock \in Nat
      /\ ListsOf(changes, points, task, clock, names)
  BY <1>0, <1>2, ListsHold
<1>4. NoPreview(task, b)
  BY <1>0, <1>2, InstantQuiet
<1>5. ListsOf(changes, points, b, next, names)
  BY <1>0, <1>2, <1>3, <1>4, ListsWithoutPreview
<1>6. DOMAIN files' = names \cup {clock}
  BY <1>0, <1>2 DEF With
<1>7. /\ \A u \in Tasks : b[u].pc = "stage" => b[u].op = "preview" /\ b[u].id \in names \cup {clock}
      /\ \A p \in points : p.id \in names \cup {clock}
      /\ \A e \in changes : ~Bundle(e) => e.id \in names \cup {clock}
  BY <1>5 DEF ListsOf, FilesListed
<1>8. ASSUME NEW n \in names \cup {clock}
      PROVE  \/ \E p \in points : p.id = n
             \/ \E e \in changes : ~Bundle(e) /\ e.id = n
             \/ \E u \in Tasks : b[u].pc = "stage" /\ b[u].id = n
             \/ n \in lost
  <2>1. CASE n = clock
    BY <1>0, <1>2, <2>1
  <2>2. CASE n \in names
    <3>1. failed \subseteq lost
      BY <1>0, <1>2
    <3> QED
      BY <1>5, <2>2, <3>1 DEF ListsOf, FilesListed
  <2> QED
    BY <2>1, <2>2
<1>9. FilesListed(Entries(ctx.staged), Entries(ctx.checkpoints), task, DOMAIN files)'
  BY <1>1, <1>2, <1>6, <1>7, <1>8 DEF FilesListed, Entries, Bundle
<1>10. IdentifiersOnce(Entries(ctx.staged), Entries(ctx.checkpoints), task, clock)'
  BY <1>1, <1>2, <1>5 DEF ListsOf, IdentifiersOnce, Entries
<1>11. (Once(ctx.staged) /\ Once(ctx.checkpoints) /\ PointsInOrder(Entries(ctx.checkpoints), Len(ctx.ops)))'
  BY <1>0, <1>1 DEF Lists, Once, PointsInOrder, Entries
<1> QED
  BY <1>9, <1>10, <1>11 DEF Lists

\* The files of the listed checkpoints are not the one that was begun.
LEMMA PointsKeepFiles ==
  ASSUME Shapes, Lists, NEW t \in Tasks, CheckpointFails(t)
  PROVE  \A p \in Entries(ctx'.checkpoints) : p \in Entries(ctx.checkpoints) /\ files'[p.id] = files[p.id]
<1>1. ~gone /\ ctx' = Synced /\ files' = With(files, clock, work)
  BY CheckpointFailsEffect
<1>2. ctx'.checkpoints = ctx.checkpoints
  BY <1>1, SyncedContext
<1>3. ASSUME NEW p \in Entries(ctx.checkpoints) PROVE files'[p.id] = files[p.id]
  <2>1. p.id # clock /\ p.id \in DOMAIN files
    BY <1>1, PointFacts
  <2> QED
    BY <1>1, <2>1 DEF With
<1> QED
  BY <1>2, <1>3

LEMMA FailsSurface ==
  ASSUME Shapes, Lists, OnTheCanonicalSurface, load' = load, NEW t \in Tasks, Fails(t)
  PROVE  OnTheCanonicalSurface'
<1>1. CanonicalOnly' <=> CanonicalOnly
  BY DEF CanonicalOnly, Batches, Lifecycle
<1>2. ASSUME CanonicalOnly PROVE (CanonicalTasks /\ NamedOnce /\ Explained /\ LoneTasks)'
  <2>0. Holds
    BY <1>2 DEF Holds, OnTheCanonicalSurface
  <2>1. CASE CallFails(t)
    <3>1. /\ Exits(t) /\ task[t].pc # "idle"
          /\ UNCHANGED <<docs, work, files, ctx, gone, cache, clock, named, reads>>
      BY <2>1, CallFailsEffect
    <3>2. Calm /\ Quiet
      BY <3>1 DEF Calm, Quiet
    <3>3. CanonicalTasks' /\ NamedOnce' /\ LoneTasks'
      BY <2>0, <3>1, <3>2, TasksExit, NamedQuiet, LoneExit
    <3>4. CASE gone
      BY <3>1, <3>3, <3>4, ExplainedParts
    <3>5. CASE ~gone
      <4>1. Others(t) /\ task'[t].pc = "idle"
        BY <3>1 DEF Exits, Next_task
      <4>2. CopiesCurrent'
        BY <2>0, <3>2, <3>5, <4>1, CopiesQuiet
      <4>3. WorkExplained' /\ PointsExplained'
        BY <2>0, <3>2, <3>5, ExplainedSame
      <4> QED
        BY <3>3, <4>2, <4>3, ExplainedParts
    <3> QED
      BY <3>4, <3>5
  <2>2. CASE CheckpointFails(t)
    <3>1. /\ ~gone /\ Instant(t) /\ Free(t) /\ ctx' = Synced /\ clock' = clock + 1
          /\ UNCHANGED <<docs, work, gone, cache, named, reads>>
      BY <2>2, CheckpointFailsEffect
    <3>2. Synced = ctx
      BY <2>0, <3>1, SyncedIsCurrent
    <3>3. Calm
      BY <3>1, <3>2 DEF Calm
    <3>4. CanonicalTasks' /\ NamedOnce' /\ LoneTasks'
      BY <2>0, <3>1, <3>3, TasksInstant, NamedQuiet, LoneInstant
    <3>5. Others(t) /\ task'[t].pc = "idle"
      BY <3>1, InstantTasks, FreeTask DEF Same
    <3>6. CopiesCurrent'
      BY <2>0, <3>1, <3>3, <3>5, CopiesQuiet
    <3>7. WorkExplained' /\ PointsExplained'
      BY <2>0, <2>2, <3>1, <3>2, PointsKeepFiles, ExplainedLists
    <3> QED
      BY <3>4, <3>6, <3>7, ExplainedParts
  <2> QED
    BY <2>1, <2>2 DEF Fails
<1> QED
  BY <1>1, <1>2 DEF OnTheCanonicalSurface

\* The flags stay true: nothing is raised or lowered.
LEMMA FailsFlagsTrue ==
  ASSUME Shapes, Lists, Lists', FlagsAreTrue, NEW t \in Tasks, Undisturbed(t), Fails(t)
  PROVE  FlagsAreTrue'
<1>1. CASE CallFails(t)
  <2>1. task[t].pc \notin {"flag", "settle"} /\ UNCHANGED <<docs, work, files, ctx, gone>>
    BY <1>1, CallFailsEffect
  <2>2. CASE gone
    BY <2>1, <2>2, FlagParts
  <2>3. CASE ~gone
    BY <2>1, <2>3, FlagsStill DEF Fewer, SameFiles
  <2> QED
    BY <2>2, <2>3
<1>2. CASE CheckpointFails(t)
  <2>1. ~gone /\ Free(t) /\ ctx' = Synced /\ UNCHANGED <<docs, work>>
    BY <1>2, CheckpointFailsEffect
  <2>2. ctx'.recalc = ctx.recalc /\ Fewer
    BY <2>1, SyncedFlag
  <2>3. task[t].pc = "idle"
    BY <2>1, FreeTask
  <2>4. NowTrue
    BY <2>1, <2>3, FlagNow
  <2>5. NowTrue'
    BY <2>1, <2>2, <2>4, Zenon DEF NowTrue, FlagIsTrue
  <2>6. PointsTrue'
    BY <1>2, <2>1, <2>2, PointsKeepFiles, PointsSame DEF DocsStay
  <2> QED
    BY <2>5, <2>6, FlagParts
<1> QED
  BY <1>1, <1>2 DEF Fails

LEMMA FailsFlags ==
  ASSUME Shapes, Lists, OnTheCanonicalSurface, Flags, Lists', load' = load, NEW t \in Tasks, Fails(t)
  PROVE  Flags'
<1>1. (CanonicalOnly' <=> CanonicalOnly) /\ (OneAtATime' <=> OneAtATime)
  BY DEF CanonicalOnly, OneAtATime, Batches, Lifecycle
<1>2. ASSUME CanonicalOnly PROVE FlagsAreTrue'
  <2>1. Holds /\ FlagsAreTrue
    BY <1>2 DEF Holds, OnTheCanonicalSurface, Flags
  <2>2. Undisturbed(t)
    BY <2>1, OwnTask DEF Undisturbed, CanonicalPlaces
  <2> QED
    BY <2>1, <2>2, FailsFlagsTrue
<1>3. ASSUME OneAtATime PROVE OneRequest' /\ FlagsAreTrue'
  <2>1. OneRequest /\ FlagsAreTrue
    BY <1>3 DEF Flags
  <2>2. Free(t) \/ task[t].pc # "idle"
    BY CallFailsEffect, CheckpointFailsEffect DEF Fails
  <2>3. Alone(t)
    BY <1>3, <2>1, <2>2, OnlyOne
  <2>4. Undisturbed(t)
    BY <2>3 DEF Undisturbed, Alone
  <2>5. Others(t) /\ Sane(t)'
    BY CallFailsEffect, CheckpointFailsEffect, SaneExit, SaneInstant, FreeTask DEF Fails
  <2>6. ctx' \in {ctx, Synced}
    BY CallFailsEffect, CheckpointFailsEffect DEF Fails
  <2>7. Kinds'
    BY <2>1, <2>6, OneParts, KindsSynced
  <2> QED
    BY <2>1, <2>3, <2>4, <2>5, <2>7, OneStep, FailsFlagsTrue
<1> QED
  BY <1>1, <1>2, <1>3 DEF Flags

-----------------------------------------------------------------------------
(* The invariant, and what it means for a client.                           *)

LEMMA ShapesInit == Init => Shapes
<1> SUFFICES ASSUME Init PROVE Shapes
  OBVIOUS
<1>1. docs \in Seq(Contents) /\ Len(docs) = 1
  <2>1. [edits |-> {}, fresh |-> TRUE] \in Contents
    BY DEF Contents
  <2> QED
    BY <2>1 DEF Init
<1>2. ctx \in Contexts
  <2>1. Hash(1) \in Tokens
    BY DEF Hash, Tokens
  <2>2. << >> \in Seq(Changes) /\ << >> \in Seq(Points) /\ << >> \in Seq(Operations)
    OBVIOUS
  <2> QED
    BY <2>1, <2>2 DEF Init, Contexts
<1>3. task \in [Tasks -> Requests] /\ \A t \in Tasks : task[t].doc = 0 /\ task[t].pc = "idle"
  <2>1. Idle \in Requests /\ Idle.doc = 0 /\ Idle.pc = "idle"
    BY IdleRequest DEF Idle, None
  <2>2. task = [t \in Tasks |-> Idle]
    BY DEF Init
  <2> HIDE DEF Idle
  <2> QED
    BY <2>1, <2>2
<1>4. /\ load \in Workloads /\ gone = FALSE /\ clock = 1 /\ work = 1 /\ cache = 0 /\ DOMAIN files = {}
  BY DEF Init, None
<1>5. gone \in BOOLEAN
  BY <1>4, Zenon
<1>6. 0 \in 0..Len(docs) /\ 1 \in 0..Len(docs)
  BY <1>1
<1>7. /\ clock \in Nat \ {0} /\ work \in 0..Len(docs) /\ work # 0 /\ cache \in 0..Len(docs)
      /\ \A t \in Tasks : task[t].doc \in 0..Len(docs)
  BY <1>3, <1>4, <1>6
<1> QED
  BY <1>1, <1>2, <1>3, <1>4, <1>5, <1>7 DEF Shapes, None

LEMMA ListsInit == Init => Lists
<1> SUFFICES ASSUME Init PROVE Lists
  OBVIOUS
<1>1. \A t \in Tasks : task[t].pc = "idle" /\ task[t].op = "none"
  BY DEF Init, Idle
<1>2. Entries(ctx.staged) = {} /\ Entries(ctx.checkpoints) = {} /\ DOMAIN files = {}
  BY DEF Init, Entries
<1>3. Once(ctx.staged) /\ Once(ctx.checkpoints)
  BY DEF Init, Once
<1>4. PointsInOrder({}, Len(ctx.ops)) /\ IdentifiersOnce({}, {}, task, clock) /\ FilesListed({}, {}, task, {})
  BY <1>1 DEF PointsInOrder, IdentifiersOnce, FilesListed
<1> QED
  BY <1>2, <1>3, <1>4 DEF Lists

LEMMA SurfaceInit == Init => OnTheCanonicalSurface
<1> SUFFICES ASSUME Init PROVE CanonicalTasks /\ NamedOnce /\ Explained /\ LoneTasks
  BY DEF OnTheCanonicalSurface
<1>1. \A t \in Tasks : task[t].pc = "idle" /\ task[t].op = "none" /\ task[t].tok = Hash(0)
  BY IdleRequest DEF Init
<1>2. CanonicalTasks
  BY <1>1, HashIsOld DEF CanonicalTasks, CanonicalPlaces
<1>3. ctx.staged = << >> /\ ctx.checkpoints = << >> /\ ctx.ops = << >> /\ ctx.state = Hash(1) /\ ctx.content = 1
      /\ ctx.recalc = FALSE /\ work = 1 /\ docs[work].edits = {} /\ reads = {}
  BY DEF Init
<1>4. named = {<<Hash(1), View(ctx, work)>>}
  <2>1. Ids(ctx.staged) = {} /\ Ids(ctx.checkpoints) = {} /\ Len(ctx.ops) = 0
    BY <1>3 DEF Ids
  <2>2. View(ctx, work) = [content |-> 1, staged |-> {}, checkpoints |-> {}, ops |-> 0, recalc |-> FALSE]
    BY <1>3, <2>1 DEF View
  <2> QED
    BY <2>2 DEF Init
<1>5. NamedOnce
  <2>1. Hash(1) \in Tokens
    BY DEF Hash, Tokens
  <2> QED
    BY <1>3, <1>4, <2>1, HashIsOld DEF NamedOnce
<1>6. Explained
  <2>1. EditsOf(ctx.ops, Len(ctx.ops)) = {} /\ Entries(ctx.checkpoints) = {}
    BY <1>3 DEF EditsOf, Entries
  <2> QED
    BY <1>1, <1>3, <2>1 DEF Explained
<1>7. LoneTasks
  BY <1>1, <1>3 DEF LoneTasks
<1> QED
  BY <1>2, <1>5, <1>6, <1>7

LEMMA FlagsInit == Init => Flags
<1> SUFFICES ASSUME Init PROVE OneRequest /\ FlagsAreTrue
  BY DEF Flags
<1>1. \A t \in Tasks : task[t].pc = "idle"
  BY IdleRequest DEF Init
<1>2. Entries(ctx.staged) = {} /\ Entries(ctx.checkpoints) = {} /\ docs[work].fresh = TRUE
  BY DEF Init, Entries
<1> QED
  BY <1>1, <1>2 DEF OneRequest, FlagsAreTrue, FlagIsTrue

LEMMA LifecycleStutters ==
  ASSUME LifecycleInv, UNCHANGED vars
  PROVE  LifecycleInv'
<1>0. UNCHANGED <<load, docs, work, files, ctx, gone, cache, ledger, clock, task, named, reads, failed>>
  BY DEF vars, fork, shared
<1>1. Shapes'
  BY <1>0 DEF LifecycleInv, Shapes
<1>2. Lists'
  BY <1>0 DEF LifecycleInv, Lists, PointsInOrder, Once, IdentifiersOnce, FilesListed, Entries, Bundle
<1>3. /\ CanonicalOnly' <=> CanonicalOnly
      /\ OneAtATime' <=> OneAtATime
  BY <1>0 DEF CanonicalOnly, OneAtATime, Batches, Lifecycle
<1>4. OnTheCanonicalSurface'
  <2>1. CanonicalTasks => CanonicalTasks'
    BY <1>0 DEF CanonicalTasks, Old
  <2>2. NamedOnce => NamedOnce'
    <3>1. View(ctx, work)' = View(ctx, work)
      BY <1>0 DEF View, Ids
    <3> QED
      BY <1>0, <3>1, Zenon DEF NamedOnce, Old
  <2>3. Explained => Explained'
    BY <1>0 DEF Explained
  <2>4. LoneTasks => LoneTasks'
    BY <1>0 DEF LoneTasks, Told
  <2> QED
    BY <1>3, <2>1, <2>2, <2>3, <2>4 DEF LifecycleInv, OnTheCanonicalSurface
<1>5. Flags'
  <2>1. OneRequest => OneRequest'
    BY <1>0 DEF OneRequest, Batches, Entries, Bundle
  <2>2. FlagsAreTrue => FlagsAreTrue'
    BY <1>0 DEF FlagsAreTrue, FlagIsTrue, Entries
  <2> QED
    BY <1>3, <2>1, <2>2 DEF LifecycleInv, Flags
<1> QED
  BY <1>1, <1>2, <1>4, <1>5 DEF LifecycleInv

LEMMA LifecycleStep ==
  ASSUME LifecycleInv, Next
  PROVE  LifecycleInv'
<1>1. PICK t \in Tasks : (Succeeds(t) \/ Fails(t)) /\ load' = load
  BY DEF Next
<1>2. Shapes /\ Lists /\ OnTheCanonicalSurface /\ Flags
  BY DEF LifecycleInv
<1>3. CASE Succeeds(t)
  <2>1. (CanonicalStep(t) \/ ToolStep(t)) /\ failed' = failed
    BY <1>3 DEF Succeeds
  <2>2. Shapes'
    BY <1>1, <1>2, <2>1, ShapesPreserved
  <2>3. Lists'
    BY <1>1, <1>2, <2>1, CanonicalLists, ToolLists
  <2>4. OnTheCanonicalSurface'
    BY <1>1, <1>2, <2>1, <2>3, SurfacePreserved
  <2>5. Flags'
    BY <1>1, <1>2, <2>1, <2>3, FlagsPreserved
  <2> QED
    BY <2>2, <2>3, <2>4, <2>5 DEF LifecycleInv
<1>4. CASE Fails(t)
  <2>1. Shapes' /\ OnTheCanonicalSurface'
    BY <1>1, <1>2, <1>4, FailsShapes, FailsSurface
  <2>2. Lists'
    BY <1>2, <1>4, CallFailsLists, CheckpointFailsLists DEF Fails
  <2>3. Flags'
    BY <1>1, <1>2, <1>4, <2>2, FailsFlags
  <2> QED
    BY <2>1, <2>2, <2>3 DEF LifecycleInv
<1> QED
  BY <1>1, <1>3, <1>4

\* Every content, snapshot and token is accounted for in every state of a fork,
\* whatever requests share it and whichever of them fail, the snapshots that
\* failed calls left included: the invariant behind the three theorems below
\* (fork.rs, canonical_lifecycle.rs, canonical_write.rs, tools/fork.rs).
THEOREM LifecycleInvariant == Spec => []LifecycleInv
<1>1. Init => LifecycleInv
  BY ShapesInit, ListsInit, SurfaceInit, FlagsInit DEF LifecycleInv
<1>2. LifecycleInv /\ [Next]_vars => LifecycleInv'
  BY LifecycleStep, LifecycleStutters
<1> QED
  BY <1>1, <1>2, PTL DEF Spec

\* A revision token names one state, and a read that ran beside no other request
\* returned the content of the state its token names: sync_revisions and
\* advance_state_revision in every canonical section, and identify.
THEOREM TokensReliable == Spec => []TokensAreReliable
<1>1. LifecycleInv => TokensAreReliable
  <2> SUFFICES ASSUME LifecycleInv PROVE TokenNamesOneState /\ LoneReadsAreCurrent
    BY DEF TokensAreReliable
  <2>1. ASSUME CanonicalOnly
        PROVE  /\ \A n, m \in named : n[1] = m[1] => n[2] = m[2]
               /\ \A r \in reads : r.alone => \A n \in named : n[1] = r.tok => n[2].content = r.doc
    <3>1. \A n, m \in named : n[1] = m[1] => n[2] = m[2]
      BY <2>1 DEF LifecycleInv, OnTheCanonicalSurface, NamedOnce
    <3>2. \A r \in reads : r.alone => Told(r.tok, r.doc)
      BY <2>1 DEF LifecycleInv, OnTheCanonicalSurface, LoneTasks
    <3>3. ASSUME NEW r \in reads, r.alone, NEW n \in named, n[1] = r.tok PROVE n[2].content = r.doc
      <4>1. PICK m \in named : m[1] = r.tok /\ m[2].content = r.doc
        BY <3>2, <3>3 DEF Told
      <4> QED
        BY <3>1, <3>3, <4>1
    <3> QED
      BY <3>1, <3>3
  <2> QED
    BY <2>1 DEF TokenNamesOneState, LoneReadsAreCurrent
<1> QED
  BY <1>1, LifecycleInvariant, PTL

\* The work file holds the recorded edits, and the snapshot files are those of
\* the listed checkpoints and staged previews, of previews in progress and of
\* calls that returned an error after they had begun to copy: limits, restores,
\* discards and recalculations of a copy leave none behind and take none away.
THEOREM FilesMatch == Spec => []FilesMatchTheRecords
<1>1. LifecycleInv => FilesMatchTheRecords
  <2> SUFFICES ASSUME LifecycleInv PROVE HistoryExplainsContent /\ SnapshotsMatchTheList
    BY DEF FilesMatchTheRecords
  <2>1. HistoryExplainsContent
    <3> SUFFICES ASSUME CanonicalOnly, ~gone
                 PROVE  docs[work].edits = {ctx.ops[i].edit : i \in DOMAIN ctx.ops} \ {None}
      BY DEF HistoryExplainsContent
    <3>1. docs[work].edits = EditsOf(ctx.ops, Len(ctx.ops))
      BY DEF LifecycleInv, OnTheCanonicalSurface, Explained
    <3>2. ctx.ops \in Seq(Operations)
      BY ContextParts DEF LifecycleInv, Shapes
    <3>3. DOMAIN ctx.ops = 1..Len(ctx.ops)
      BY <3>2
    <3> QED
      BY <3>1, <3>3 DEF EditsOf
  <2>2. SnapshotsMatchTheList
    <3> DEFINE changes == {ctx.staged[i].id : i \in {j \in DOMAIN ctx.staged :
                                                        ctx.staged[j].kind # "canonical_write_bundle"}}
               previews == {task[t].id : t \in {u \in Tasks : task[u].pc = "stage"}}
    <3> SUFFICES ASSUME ~gone
                 PROVE  /\ Ids(ctx.checkpoints) \cup changes \subseteq DOMAIN files
                        /\ DOMAIN files \subseteq ((Ids(ctx.checkpoints) \cup changes) \cup previews) \cup failed
      BY DEF SnapshotsMatchTheList
    <3>1. FilesListed(Entries(ctx.staged), Entries(ctx.checkpoints), task, DOMAIN files)
      BY DEF LifecycleInv, Lists
    <3>2. ASSUME NEW n \in Ids(ctx.checkpoints) PROVE n \in DOMAIN files
      BY <3>1 DEF FilesListed, Ids, Entries
    <3>3. ASSUME NEW n \in changes PROVE n \in DOMAIN files
      BY <3>1 DEF FilesListed, Entries, Bundle
    <3>4. ASSUME NEW n \in DOMAIN files
          PROVE  n \in ((Ids(ctx.checkpoints) \cup changes) \cup previews) \cup failed
      <4>1. CASE \E p \in Entries(ctx.checkpoints) : p.id = n
        BY <4>1 DEF Entries, Ids
      <4>2. CASE \E e \in Entries(ctx.staged) : ~Bundle(e) /\ e.id = n
        BY <4>2 DEF Entries, Bundle
      <4>3. CASE \E t \in Tasks : task[t].pc = "stage" /\ task[t].id = n
        BY <4>3
      <4> QED
        BY <3>1, <4>1, <4>2, <4>3 DEF FilesListed
    <3> HIDE DEF changes, previews
    <3> QED
      BY <3>2, <3>3, <3>4
  <2> QED
    BY <2>1, <2>2
<1> QED
  BY <1>1, LifecycleInvariant, PTL

\* A lowered recalc_needed is true of the work file, on the canonical surface and
\* for a client that uses the tools one at a time: through writes, incomplete
\* evaluations, restores and the section of its own in which a tool raises it.
THEOREM LoweredFlagFresh == Spec => []LoweredFlagIsFresh
<1>1. LifecycleInv => LoweredFlagIsFresh
  <2> SUFFICES ASSUME LifecycleInv, CanonicalOnly \/ OneAtATime, ~gone, ~ctx.recalc,
                      \A t \in Tasks : task[t].pc \notin {"flag", "settle"}
               PROVE  docs[work].fresh
    BY DEF LoweredFlagIsFresh
  <2>1. FlagsAreTrue
    BY DEF LifecycleInv, Flags
  <2> QED
    BY <2>1, Zenon DEF FlagsAreTrue, FlagIsTrue
<1> QED
  BY <1>1, LifecycleInvariant, PTL

=============================================================================
