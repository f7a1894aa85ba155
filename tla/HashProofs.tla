----------------------------- MODULE HashProofs -----------------------------
(* What holds of the hash table for any keys, any hash function, any size  *)
(* and as many threads as FewThreads allows.                               *)
EXTENDS HashTable, TLAPS, FiniteSetTheorems, WellFoundedInduction

-----------------------------------------------------------------------------
(* Recursion on a number                                                   *)

\* A non-empty set of naturals has a least element.
LEMMA Least ==
  ASSUME NEW T \in SUBSET Nat, T # {}
  PROVE  \E m \in T : \A y \in T : m <= y
<1>1. PICK m \in T : \A y \in T : ~ (<<y, m>> \in OpToRel(<, Nat))
  BY NatLessThanWellFounded, WFMin
<1>2. \A y \in T : ~ (y < m)
  BY <1>1, Zenon DEF OpToRel
<1> QED BY <1>2

Follows(g, N, base, step) ==
  \A n \in 0..N : g[n] = IF n = 0 THEN base ELSE step[<<g[n - 1], n>>]

\* A function that says how each value follows from the one before has values.
LEMMA Recursion ==
  ASSUME NEW S, NEW N \in Nat, NEW base \in S, NEW step \in [S \X (1..N) -> S]
  PROVE  \E g \in [0..N -> S] : Follows(g, N, base, step)
<1> DEFINE Is(g, M) == \A n \in 0..M : g[n] = IF n = 0 THEN base
                                             ELSE step[<<g[n - 1], n>>]
           Bad == {M \in 0..N : ~ \E g \in [0..M -> S] : Is(g, M)}
<1>1. Bad = {}
  <2> SUFFICES ASSUME Bad # {} PROVE FALSE
    OBVIOUS
  <2>1. Bad \in SUBSET Nat
    OBVIOUS
  <2>2. PICK M \in Bad : \A y \in Bad : M <= y
    <3> HIDE DEF Bad
    <3> QED BY <2>1, Least
  <2>3. M # 0
    <3>1. [n \in 0..0 |-> base] \in [0..0 -> S] /\ Is([n \in 0..0 |-> base], 0)
      OBVIOUS
    <3> QED BY <3>1, <2>2
  <2>4. M - 1 \in 0..N /\ M \in 1..N /\ M \in Nat
    BY <2>2, <2>3
  <2>5. M - 1 \notin Bad
    BY <2>2, <2>4
  <2>6. PICK g \in [0..M - 1 -> S] : Is(g, M - 1)
    BY <2>4, <2>5
  <2> DEFINE h == [n \in 0..M |-> IF n = M THEN step[<<g[M - 1], M>>] ELSE g[n]]
  <2>7. g[M - 1] \in S
    BY <2>4
  <2>8. h \in [0..M -> S]
    <3>1. step[<<g[M - 1], M>>] \in S
      BY <2>4, <2>7
    <3>2. \A n \in 0..M : n # M => g[n] \in S
      BY <2>4
    <3> QED BY <3>1, <3>2
  <2>9. ASSUME NEW n \in 0..M PROVE h[n] = IF n = 0 THEN base ELSE step[<<h[n - 1], n>>]
    <3>1. CASE n = M
      <4>1. n \in 0..M /\ n # 0 /\ n - 1 \in 0..M /\ n - 1 # M
        BY <3>1, <2>3, <2>4
      <4>2. h[n] = step[<<g[n - 1], n>>] /\ h[n - 1] = g[n - 1]
        BY <4>1, <3>1
      <4> QED BY <4>1, <4>2
    <3>2. CASE n # M
      <4>1. n \in 0..M - 1 /\ (n # 0 => n - 1 \in 0..M /\ n - 1 # M)
        BY <3>2, <2>4
      <4>2. h[n] = g[n] /\ (n # 0 => h[n - 1] = g[n - 1])
        BY <4>1, <3>2
      <4> QED BY <4>1, <4>2, <2>6
    <3> QED BY <3>1, <3>2
  <2>10. Is(h, M)
    BY <2>9
  <2> QED BY <2>2, <2>8, <2>10
<1>2. PICK g \in [0..N -> S] : Is(g, N)
  BY <1>1
<1> QED BY <1>2 DEF Follows

-----------------------------------------------------------------------------
(* The definitions the proofs use                                          *)

EntryType == [key : Key, val : Val]
SlotType == EntryType \cup {Empty}
Slots(T) == 0..T.size - 1
Typed(T) ==
  T \in [ents : [0..T.size - 1 -> SlotType], size : Nat \ {0}, load : Int,
         lock : Locks, gen : Nat]
UsedIn(T) == {p \in Slots(T) : T.ents[p] # Empty}
HomeOf(e, T) == Home(e.key, T.size)

\* Is x on the way from a round to b, which is not a part of the way?
Between(a, x, b) ==
  \/ a <= x /\ x < b
  \/ b < a /\ a <= x
  \/ x < b /\ b < a
\* How far is it from a round to b?
Way(T, a, b) == IF a <= b THEN b - a ELSE b - a + T.size

\* No empty slot is between where a key hashes to and where it is.
Chained(T) ==
  \A p \in UsedIn(T), x \in Slots(T) :
    Between(HomeOf(T.ents[p], T), x, p) => T.ents[x] # Empty
Unique(T) ==
  \A p, q \in UsedIn(T) : T.ents[p].key = T.ents[q].key => p = q
Roomy(T) == \E x \in Slots(T) : T.ents[x] = Empty
Sound(T) == Typed(T) /\ Chained(T) /\ Unique(T)
Has(T, e) == \E p \in Slots(T) : T.ents[p] = e

LEMMA SlotIs ==
  /\ Empty \notin EntryType
  /\ \A e \in SlotType : /\ e # Empty => e \in EntryType /\ e.key \in Key /\ e.val \in Val
                         /\ e.key = NoKey <=> e = Empty
                         /\ e.val = NoVal <=> e = Empty
                         /\ e.key \in Key <=> e # Empty
BY TableAssumption DEF SlotType, EntryType, Empty

WithEnts(T, ents, load) == [T EXCEPT !.ents = ents, !.load = load]
LEMMA WithEntsIs ==
  ASSUME NEW T, Typed(T), NEW ents \in [0..T.size - 1 -> SlotType], NEW load \in Int
  PROVE  /\ Typed(WithEnts(T, ents, load))
         /\ WithEnts(T, ents, load).ents = ents
         /\ WithEnts(T, ents, load).load = load
         /\ WithEnts(T, ents, load).size = T.size
         /\ WithEnts(T, ents, load).lock = T.lock
         /\ WithEnts(T, ents, load).gen = T.gen
BY DEF WithEnts, Typed

LEMMA HomeType ==
  ASSUME NEW k \in Key, NEW size \in Nat \ {0}
  PROVE  Home(k, size) \in 0..size - 1
BY TableAssumption DEF Home

LEMMA ModType ==
  ASSUME NEW a \in Int, NEW size \in Nat \ {0}
  PROVE  a % size \in 0..size - 1
OBVIOUS

LEMMA ModSum ==
  ASSUME NEW size \in Nat \ {0}, NEW a \in 0..size - 1, NEW n \in 0..size
  PROVE  (a + n) % size = IF a + n < size THEN a + n ELSE a + n - size
OBVIOUS

\* After n slots
Look(T, hole, n) == (hole + n) % T.size
Closed(T, hole, was, n) ==
  IF MayFill(Home(was.ents[Look(T, hole, n)].key, T.size), was.hole, Look(T, hole, n))
  THEN [hole |-> Look(T, hole, n),
        ents |-> [was.ents EXCEPT ![was.hole] = was.ents[Look(T, hole, n)],
                                  ![Look(T, hole, n)] = Empty]]
  ELSE was
LEMMA ClosingIs ==
  ASSUME NEW T, Typed(T), NEW hole \in 0..T.size - 1
  PROVE  /\ Closing(T, hole) \in
              [0..T.size - 1 -> [hole : 0..T.size - 1, ents : [0..T.size - 1 -> SlotType]]]
         /\ Closing(T, hole)[0] = [hole |-> hole, ents |-> [T.ents EXCEPT ![hole] = Empty]]
         /\ \A n \in 1..T.size - 1 :
              Closing(T, hole)[n] = Closed(T, hole, Closing(T, hole)[n - 1], n)
<1> DEFINE S == [hole : 0..T.size - 1, ents : [0..T.size - 1 -> SlotType]]
           N == T.size - 1
           base == [hole |-> hole, ents |-> [T.ents EXCEPT ![hole] = Empty]]
           step == [x \in S \X (1..N) |-> Closed(T, hole, x[1], x[2])]
           Body(f) == [n \in 0..N |-> IF n = 0 THEN base ELSE Closed(T, hole, f[n - 1], n)]
<1>1. base \in S
  BY DEF Typed, SlotType
<1>2. ASSUME NEW was \in S, NEW n \in 1..N PROVE Closed(T, hole, was, n) \in S
  <2>1. T.size \in Nat \ {0} /\ hole + n \in Int
    BY DEF Typed
  <2>2. Look(T, hole, n) \in 0..N
    BY <2>1, ModType DEF Look
  <2>3. was.hole \in 0..N /\ was.ents \in [0..N -> SlotType] /\ Empty \in SlotType
    BY DEF SlotType
  <2> DEFINE moved == [was.ents EXCEPT ![was.hole] = was.ents[Look(T, hole, n)],
                                       ![Look(T, hole, n)] = Empty]
  <2>4. moved \in [0..N -> SlotType]
    <3> HIDE DEF N
    <3> QED BY <2>2, <2>3
  <2>5. Closed(T, hole, was, n) \in {was, [hole |-> Look(T, hole, n), ents |-> moved]}
    BY DEF Closed
  <2> HIDE DEF moved
  <2> QED BY <2>2, <2>3, <2>4, <2>5
<1>3. step \in [S \X (1..N) -> S]
  BY <1>2
<1>4. PICK g \in [0..N -> S] : Follows(g, N, base, step)
  <2>1. N \in Nat
    BY DEF Typed
  <2> HIDE DEF S, N, base, step
  <2> QED BY <1>1, <1>3, <2>1, Recursion
<1>5. g = Body(g)
  <2>1. \A n \in 0..N : n # 0 => <<g[n - 1], n>> \in S \X (1..N)
    <3>1. \A n \in 0..N : n # 0 => n - 1 \in 0..N /\ n \in 1..N
      BY DEF Typed
    <3> HIDE DEF S, N
    <3> QED BY <1>4, <3>1
  <2>2. \A n \in 0..N : n # 0 => step[<<g[n - 1], n>>] = Closed(T, hole, g[n - 1], n)
    BY <2>1
  <2> HIDE DEF S, N, base, step
  <2>3. \A n \in 0..N : g[n] = IF n = 0 THEN base ELSE Closed(T, hole, g[n - 1], n)
    BY <1>4, <2>2 DEF Follows
  <2>4. g = [n \in 0..N |-> g[n]]
    BY <1>4
  <2> QED BY <2>3, <2>4
<1>6. Closing(T, hole) = CHOOSE f : f = Body(f)
  BY DEF Closing, Closed, Look
<1>7. Closing(T, hole) = Body(Closing(T, hole))
  <2> HIDE DEF Body
  <2> QED BY <1>5, <1>6, Zenon
<1>8. \A n \in 0..N : n # 0 => n - 1 \in 0..N
  BY DEF Typed
<1>9. \A n \in 0..N : Closing(T, hole)[n] =
         IF n = 0 THEN base ELSE Closed(T, hole, Closing(T, hole)[n - 1], n)
  <2> HIDE DEF base, N
  <2> QED BY <1>7
<1>10. ASSUME NEW n \in 1..N PROVE n \in 0..N /\ n # 0
  BY DEF Typed
<1>11. 0 \in 0..N
  BY DEF Typed
<1>12. Closing(T, hole) \in [0..N -> S]
  <2> DEFINE c == Closing(T, hole)
  <2>1. c = [n \in 0..N |-> c[n]]
    <3>1. c = Body(c)
      BY <1>7
    <3>2. \A n \in 0..N : c[n] = Body(c)[n]
      BY <3>1
    <3> HIDE DEF c, S, N, base
    <3> QED BY <3>1, <3>2
  <2> DEFINE Bad == {n \in 0..N : c[n] \notin S}
  <2>2. Bad = {}
    <3> SUFFICES ASSUME Bad # {} PROVE FALSE
      OBVIOUS
    <3>1. Bad \in SUBSET Nat
      OBVIOUS
    <3>2. PICK n \in Bad : \A y \in Bad : n <= y
      <4> HIDE DEF Bad
      <4> QED BY <3>1, Least
    <3>3. n # 0
      <4> HIDE DEF S, N, base
      <4> QED BY <1>1, <1>9, <1>11, <3>2
    <3>4. n - 1 \in 0..N /\ n \in 1..N /\ ~ (n <= n - 1)
      BY <1>8, <3>2, <3>3
    <3>5. c[n - 1] \in S
      <4> HIDE DEF S, N
      <4> QED BY <3>2, <3>4
    <3>6. c[n] = Closed(T, hole, c[n - 1], n)
      BY <1>9, <3>2, <3>3
    <3>7. c[n] \in S
      <4> HIDE DEF S, N, c
      <4> QED BY <1>2, <3>4, <3>5, <3>6
    <3> QED BY <3>2, <3>7
  <2>3. \A n \in 0..N : c[n] \in S
    BY <2>2
  <2> HIDE DEF S, N
  <2> QED BY <2>1, <2>3
<1> QED
  <2>1. Closing(T, hole)[0] = base
    <3> HIDE DEF N, base
    <3> QED BY <1>9, <1>11
  <2>2. \A n \in 1..N : Closing(T, hole)[n] = Closed(T, hole, Closing(T, hole)[n - 1], n)
    <3> HIDE DEF N, base
    <3> QED BY <1>9, <1>10
  <2> QED BY <1>12, <2>1, <2>2

-----------------------------------------------------------------------------
(* Probes                                                                  *)

LEMMA MayFillIs ==
  ASSUME NEW code \in Int, NEW hole \in Int, NEW look \in Int
  PROVE  MayFill(code, hole, look) <=> Between(code, hole, look)
BY DEF MayFill, Between

LEMMA WayIs ==
  ASSUME NEW T, Typed(T), NEW a \in Slots(T), NEW b \in Slots(T)
  PROVE  /\ Way(T, a, b) \in Slots(T) /\ Way(T, a, b) \in Nat
         /\ (a + Way(T, a, b)) % T.size = b
<1>1. T.size \in Nat \ {0} /\ a \in 0..T.size - 1 /\ b \in 0..T.size - 1
  BY DEF Typed, Slots
<1>2. Way(T, a, b) \in 0..T.size - 1
  BY <1>1 DEF Way
<1>3. Way(T, a, b) \in 0..T.size
  BY <1>1, <1>2
<1>4. (a + Way(T, a, b)) % T.size
       = IF a + Way(T, a, b) < T.size THEN a + Way(T, a, b) ELSE a + Way(T, a, b) - T.size
  BY <1>1, <1>3, ModSum
<1> QED BY <1>1, <1>2, <1>4 DEF Way, Slots

LEMMA AtIs ==
  ASSUME NEW T, Typed(T), NEW a \in Slots(T), NEW n \in Slots(T)
  PROVE  (a + n) % T.size \in Slots(T) /\ Way(T, a, (a + n) % T.size) = n
<1>1. T.size \in Nat \ {0} /\ a \in 0..T.size - 1 /\ n \in 0..T.size - 1 /\ n \in 0..T.size
  BY DEF Typed, Slots
<1>2. (a + n) % T.size = IF a + n < T.size THEN a + n ELSE a + n - T.size
  BY <1>1, ModSum
<1> QED BY <1>1, <1>2 DEF Way, Slots

\* The slots on the way are those that are less far.
LEMMA BetweenIs ==
  ASSUME NEW T, Typed(T), NEW a \in Slots(T), NEW x \in Slots(T), NEW b \in Slots(T)
  PROVE  Between(a, x, b) <=> Way(T, a, x) < Way(T, a, b)
BY DEF Between, Way, Typed, Slots

\* fz_hash_find and do_hash_insert end at the first slot from where the key
\* hashes to that is empty or the key's.
LEMMA ProbeStops ==
  ASSUME NEW T, Typed(T), NEW k \in Key,
         NEW q \in Slots(T), T.ents[q].key \in {NoKey, k}
  PROVE  /\ Probe(T, k) \in Slots(T)
         /\ T.ents[Probe(T, k)].key \in {NoKey, k}
         /\ \A x \in Slots(T) : Between(Home(k, T.size), x, Probe(T, k))
                                => T.ents[x].key \notin {NoKey, k}
<1> DEFINE home == Home(k, T.size)
           Stops == {n \in Slots(T) : Visited(T, k, n) \in {NoKey, k}}
           Stop(n) == /\ Visited(T, k, n) \in {NoKey, k}
                      /\ \A m \in 0..n - 1 : Visited(T, k, m) \notin {NoKey, k}
           stop == CHOOSE n \in 0..T.size - 1 : Stop(n)
<1>1. home \in Slots(T) /\ T.size \in Nat \ {0}
  BY HomeType DEF Typed, Slots
<1>2. Visited(T, k, Way(T, home, q)) = T.ents[q].key /\ Way(T, home, q) \in Slots(T)
  BY <1>1, WayIs DEF Visited
<1>3. Stops # {} /\ Stops \in SUBSET Nat
  BY <1>1, <1>2 DEF Slots
<1>4. PICK n \in Stops : \A m \in Stops : n <= m
  <2> HIDE DEF Stops
  <2> QED BY <1>3, Least
<1>5. n \in 0..T.size - 1 /\ Stop(n)
  <2>1. ASSUME NEW m \in 0..n - 1 PROVE m \in Slots(T) /\ ~ (n <= m)
    BY <1>1, <1>4 DEF Slots
  <2> QED BY <1>4, <2>1 DEF Slots
<1>6. stop \in 0..T.size - 1 /\ Stop(stop)
  <2> HIDE DEF Stop
  <2> QED BY <1>5, Zenon
<1>7. Probe(T, k) = (home + stop) % T.size
  BY DEF Probe
<1>8. Probe(T, k) \in Slots(T) /\ Way(T, home, Probe(T, k)) = stop
  <2> HIDE DEF stop, home
  <2> QED BY <1>1, <1>6, <1>7, AtIs DEF Slots
<1>9. T.ents[Probe(T, k)].key = Visited(T, k, stop)
  BY <1>7 DEF Visited
<1>10. ASSUME NEW x \in Slots(T), Between(home, x, Probe(T, k))
       PROVE  T.ents[x].key \notin {NoKey, k}
  <2>1. Way(T, home, x) < stop /\ Way(T, home, x) \in Nat
    <3> HIDE DEF stop, home
    <3> QED BY <1>1, <1>8, <1>10, BetweenIs, WayIs
  <2>2. Visited(T, k, Way(T, home, x)) = T.ents[x].key
    BY <1>1, WayIs DEF Visited
  <2>3. Way(T, home, x) \in 0..stop - 1
    <3> HIDE DEF stop, home
    <3> QED BY <2>1, <1>6
  <2> QED BY <1>6, <2>2, <2>3
<1> QED BY <1>6, <1>8, <1>9, <1>10

\* What is at the slot where the probe ends.
LEMMA ProbeFinds ==
  ASSUME NEW T, Sound(T), NEW k \in Key,
         NEW q \in Slots(T), T.ents[q].key \in {NoKey, k}
  PROVE  /\ Probe(T, k) \in Slots(T)
         /\ T.ents[q].key = k => Probe(T, k) = q
         /\ T.ents[Probe(T, k)] \in SlotType
         /\ T.ents[Probe(T, k)] = Empty \/ T.ents[Probe(T, k)].key = k
         /\ T.ents[Probe(T, k)] = Empty
              => \A p \in Slots(T) : T.ents[p].key # k
<1> DEFINE P == Probe(T, k)
           home == Home(k, T.size)
<1>1. /\ P \in Slots(T) /\ T.ents[P].key \in {NoKey, k}
      /\ \A x \in Slots(T) : Between(home, x, P) => T.ents[x].key \notin {NoKey, k}
  BY ProbeStops DEF Sound
<1>2. home \in Slots(T) /\ T.size \in Nat \ {0} /\ \A x \in Slots(T) : T.ents[x] \in SlotType
  BY HomeType DEF Sound, Typed, Slots
<1>3. ASSUME NEW p \in Slots(T), T.ents[p].key = k
      PROVE  P = p
  <2>1. p \in UsedIn(T) /\ HomeOf(T.ents[p], T) = home
    BY <1>2, <1>3, SlotIs DEF UsedIn, HomeOf
  <2>2. \A x \in Slots(T) : Between(home, x, p) => T.ents[x] # Empty
    BY <2>1 DEF Sound, Chained
  <2>3. ASSUME T.ents[P].key = k PROVE P = p
    <3>1. P \in UsedIn(T)
      BY <1>1, <1>2, <2>3, SlotIs DEF UsedIn
    <3> QED BY <1>3, <2>1, <2>3, <3>1 DEF Sound, Unique
  <2>4. P = p \/ Between(home, P, p) \/ Between(home, p, P)
    <3> HIDE DEF P, home
    <3> QED BY <1>1, <1>2 DEF Between, Slots
  <2>5. ~ Between(home, p, P)
    BY <1>1, <1>3
  <2>6. Between(home, P, p) => T.ents[P].key = k
    BY <1>1, <1>2, <2>2, SlotIs
  <2> QED BY <2>3, <2>4, <2>5, <2>6
<1>4. T.ents[P] = Empty \/ T.ents[P].key = k
  BY <1>1, <1>2, SlotIs
<1>5. T.ents[P] = Empty => \A p \in Slots(T) : T.ents[p].key # k
  <2> SUFFICES ASSUME T.ents[P] = Empty, NEW p \in Slots(T), T.ents[p].key = k PROVE FALSE
    OBVIOUS
  <2> QED BY <1>2, <1>3, SlotIs
<1> QED BY <1>1, <1>2, <1>3, <1>4, <1>5

LEMMA FindIs ==
  ASSUME NEW T, Sound(T), Roomy(T), NEW k \in Key
  PROVE  /\ Find(T, k) \in Val \cup {NoVal}
         /\ \A v \in Val : Find(T, k) = v <=> Has(T, [key |-> k, val |-> v])
         /\ Find(T, k) = NoVal <=> T.ents[Probe(T, k)] = Empty
         /\ Find(T, k) # NoVal => T.ents[Probe(T, k)].key = k
<1> DEFINE P == Probe(T, k)
<1>1. PICK q \in Slots(T) : T.ents[q] = Empty
  BY DEF Roomy
<1>2. T.ents[q].key \in {NoKey, k}
  BY <1>1 DEF Empty
<1>3. \A p \in Slots(T) : T.ents[p] \in SlotType
  BY DEF Sound, Typed, Slots
<1>4. /\ P \in Slots(T)
      /\ T.ents[P] \in SlotType
      /\ T.ents[P] = Empty \/ T.ents[P].key = k
      /\ T.ents[P] = Empty => \A p \in Slots(T) : T.ents[p].key # k
  BY <1>2, ProbeFinds
<1>5. Find(T, k) = T.ents[P].val
  BY DEF Find
<1>6. ASSUME NEW v \in Val, Find(T, k) = v PROVE T.ents[P] = [key |-> k, val |-> v]
  <2>1. T.ents[P] # Empty /\ v # NoVal
    <3>1. v # NoVal
      BY TableAssumption
    <3> QED BY <1>4, <1>5, <1>6, <3>1, SlotIs
  <2> QED BY <1>4, <1>5, <1>6, <2>1 DEF SlotType, EntryType
<1>7. ASSUME NEW v \in Val, NEW p \in Slots(T), T.ents[p] = [key |-> k, val |-> v]
      PROVE  Find(T, k) = v
  <2>1. T.ents[p].key = k /\ T.ents[p].val = v
    BY <1>7
  <2>2. P = p
    BY <2>1, ProbeFinds
  <2> QED BY <1>5, <2>1, <2>2
<1> QED BY <1>4, <1>5, <1>6, <1>7, SlotIs DEF Has

-----------------------------------------------------------------------------
(* Insertion                                                               *)

Written(T, p, e) == WithEnts(T, [T.ents EXCEPT ![p] = e], T.load + 1)
LEMMA WrittenIs ==
  ASSUME NEW T, Typed(T), NEW p \in Slots(T), NEW e \in EntryType
  PROVE  /\ Typed(Written(T, p, e))
         /\ Written(T, p, e).ents = [T.ents EXCEPT ![p] = e]
         /\ Written(T, p, e).load = T.load + 1
         /\ Written(T, p, e).size = T.size
         /\ Written(T, p, e).lock = T.lock
         /\ Written(T, p, e).gen = T.gen
<1>1. [T.ents EXCEPT ![p] = e] \in [0..T.size - 1 -> SlotType] /\ T.load + 1 \in Int
  BY DEF Typed, Slots, SlotType
<1> QED BY <1>1, WithEntsIs DEF Written

LEMMA PutIs ==
  ASSUME NEW T, Sound(T), Roomy(T), NEW k \in Key, NEW v \in Val
  PROVE  /\ Sound(Put(T, k, v))
         /\ Put(T, k, v).size = T.size /\ Put(T, k, v).lock = T.lock
         /\ Put(T, k, v).gen = T.gen
         /\ \/ Find(T, k) # NoVal /\ Put(T, k, v) = T
            \/ /\ Find(T, k) = NoVal /\ Put(T, k, v).load = T.load + 1
               /\ \E p \in Slots(T) \ UsedIn(T) :
                    UsedIn(Put(T, k, v)) = UsedIn(T) \cup {p}
         /\ \A e \in EntryType :
              Has(Put(T, k, v), e) <=>
                Has(T, e) \/ (e = [key |-> k, val |-> v] /\ Find(T, k) = NoVal)
<1> DEFINE P == Probe(T, k)
           e0 == [key |-> k, val |-> v]
           U == Written(T, P, e0)
<1>1. PICK q \in Slots(T) : T.ents[q] = Empty
  BY DEF Roomy
<1>2. T.ents[q].key \in {NoKey, k}
  BY <1>1 DEF Empty
<1>3. \A p \in Slots(T) : T.ents[p] \in SlotType
  BY DEF Sound, Typed, Slots
<1>4. /\ P \in Slots(T)
      /\ T.ents[P] = Empty => \A p \in Slots(T) : T.ents[p].key # k
      /\ \A x \in Slots(T) : Between(Home(k, T.size), x, P)
                             => T.ents[x].key \notin {NoKey, k}
  BY <1>2, ProbeFinds, ProbeStops DEF Sound
<1>5. Find(T, k) = NoVal <=> T.ents[P] = Empty
  BY FindIs
<1>6. CASE T.ents[P] # Empty
  <2>1. Put(T, k, v) = T
    BY <1>6 DEF Put
  <2> QED BY <1>5, <1>6, <2>1
<1>7. CASE T.ents[P] = Empty
  <2>1. Put(T, k, v) = U
    BY <1>7 DEF Put, Written, WithEnts
  <2>2. e0 \in EntryType /\ e0 # Empty /\ e0.key = k
    BY TableAssumption DEF EntryType, Empty
  <2>3. /\ Typed(U) /\ U.ents = [T.ents EXCEPT ![P] = e0] /\ U.load = T.load + 1
        /\ U.size = T.size /\ U.lock = T.lock /\ U.gen = T.gen
    BY <1>4, <2>2, WrittenIs DEF Sound
  <2>4. Slots(U) = Slots(T)
    BY <2>3 DEF Slots
  <2>5. U.ents[P] = e0 /\ \A p \in Slots(T) : p # P => U.ents[p] = T.ents[p]
    BY <1>4, <2>3 DEF Sound, Typed, Slots
  <2> HIDE DEF P, U, e0
  <2>6. UsedIn(U) = UsedIn(T) \cup {P} /\ P \notin UsedIn(T)
    BY <1>4, <1>7, <2>2, <2>4, <2>5 DEF UsedIn
  <2>7. Chained(U)
    <3> SUFFICES ASSUME NEW p \in UsedIn(U), NEW x \in Slots(U),
                        Between(HomeOf(U.ents[p], U), x, p)
                 PROVE  U.ents[x] # Empty
      BY DEF Chained
    <3>1. CASE x = P
      BY <3>1, <2>2, <2>5
    <3>2. CASE x # P /\ p = P
      <4>1. HomeOf(U.ents[p], U) = Home(k, T.size)
        BY <3>2, <2>2, <2>3, <2>5 DEF HomeOf
      <4>2. T.ents[x].key # NoKey
        BY <1>4, <3>2, <2>4, <4>1
      <4> QED BY <1>3, <3>2, <2>4, <2>5, <4>2, SlotIs
    <3>3. CASE x # P /\ p # P
      <4>1. p \in UsedIn(T) /\ HomeOf(U.ents[p], U) = HomeOf(T.ents[p], T)
        BY <3>3, <2>3, <2>5, <2>6 DEF HomeOf, UsedIn
      <4>2. T.ents[x] # Empty
        BY <4>1, <2>4 DEF Sound, Chained
      <4> QED BY <3>3, <2>4, <2>5, <4>2
    <3> QED BY <3>1, <3>2, <3>3
  <2>8. Unique(U)
    <3> SUFFICES ASSUME NEW p \in UsedIn(U), NEW r \in UsedIn(U),
                        U.ents[p].key = U.ents[r].key, p # r
                 PROVE  FALSE
      BY DEF Unique
    <3>1. \A y \in UsedIn(T) : U.ents[y] = T.ents[y] /\ y \in Slots(T)
      BY <2>5, <2>6 DEF UsedIn
    <3>2. \A y \in UsedIn(T) : T.ents[y].key # k
      BY <1>4, <1>7, <3>1
    <3> QED BY <2>2, <2>5, <2>6, <3>1, <3>2 DEF Sound, Unique
  <2>9. ASSUME NEW e \in EntryType
        PROVE  Has(U, e) <=> Has(T, e) \/ e = e0
    BY <1>4, <1>7, <2>4, <2>5, SlotIs DEF Has
  <2> QED BY <1>4, <1>5, <1>7, <2>1, <2>3, <2>6, <2>7, <2>8, <2>9 DEF Sound, UsedIn, e0
<1> QED BY <1>6, <1>7

-----------------------------------------------------------------------------
(* Removal                                                                 *)

\* Of three slots the second is on the way from the first to the third: then
\* it is on every way round that passes the first and ends at the third.
LEMMA Passes ==
  ASSUME NEW T, Typed(T), NEW hole \in Slots(T), NEW a \in Slots(T),
         NEW x \in Slots(T), NEW y \in Slots(T), NEW p \in Slots(T),
         Between(a, x, p),
         \/ Way(T, hole, p) < Way(T, hole, x) /\ Way(T, hole, x) < Way(T, hole, y)
         \/ Way(T, hole, x) < Way(T, hole, y) /\ Way(T, hole, y) < Way(T, hole, p)
  PROVE  Between(a, y, p)
BY DEF Between, Way, Typed, Slots

LEMMA WayDiffers ==
  ASSUME NEW T, Typed(T), NEW hole \in Slots(T),
         NEW x \in Slots(T), NEW y \in Slots(T), Way(T, hole, x) = Way(T, hole, y)
  PROVE  x = y
BY DEF Way, Typed, Slots

LEMMA GapIs ==
  ASSUME NEW T, Typed(T), Roomy(T), NEW hole \in UsedIn(T)
  PROVE  /\ Gap(T, hole) \in 1..T.size - 1
         /\ T.ents[Look(T, hole, Gap(T, hole))] = Empty
         /\ \A m \in 1..Gap(T, hole) - 1 : T.ents[Look(T, hole, m)] # Empty
<1> DEFINE Stop(n) == n = T.size \/ T.ents[Look(T, hole, n)] = Empty
           First(n) == Stop(n) /\ \A m \in 1..n - 1 : T.ents[Look(T, hole, m)] # Empty
           Stops == {n \in 1..T.size : Stop(n)}
           gap == CHOOSE n \in 1..T.size : First(n)
<1>1. T.size \in Nat \ {0} /\ hole \in Slots(T)
  BY DEF Typed, UsedIn
<1>2. PICK q \in Slots(T) : T.ents[q] = Empty
  BY DEF Roomy
<1> DEFINE w == Way(T, hole, q)
<1>3. w \in Nat /\ w \in Slots(T) /\ (hole + w) % T.size = q
  BY <1>1, WayIs
<1>4. w # 0
  <2>1. q # hole
    BY <1>2 DEF UsedIn
  <2> QED BY <1>1, <1>2, <2>1 DEF Way, Slots
<1>5. w \in Stops /\ w < T.size
  BY <1>1, <1>2, <1>3, <1>4 DEF Slots, Look
<1>6. PICK n \in Stops : \A m \in Stops : n <= m
  <2>1. Stops \in SUBSET Nat /\ Stops # {}
    BY <1>5
  <2> HIDE DEF Stops
  <2> QED BY <2>1, Least
<1>7. n \in 1..T.size /\ First(n)
  <2>1. ASSUME NEW m \in 1..n - 1 PROVE m \in 1..T.size /\ ~ (n <= m)
    BY <1>1, <1>6
  <2> QED BY <1>6, <2>1
<1>8. gap \in 1..T.size /\ First(gap)
  <2> HIDE DEF First
  <2> QED BY <1>7, Zenon
<1>9. Gap(T, hole) = gap
  BY DEF Gap, Look
<1>10. gap <= w
  <2> SUFFICES ASSUME w < gap PROVE FALSE
    <3> HIDE DEF gap, w
    <3> QED BY <1>3, <1>8
  <2>1. w \in 1..gap - 1
    <3> HIDE DEF gap, w
    <3> QED BY <1>3, <1>4, <1>8
  <2>2. T.ents[Look(T, hole, w)] = Empty
    BY <1>2, <1>3 DEF Look
  <2> QED BY <1>8, <2>1, <2>2
<1>11. gap \in 1..T.size - 1
  <2> HIDE DEF gap, w
  <2> QED BY <1>1, <1>5, <1>8, <1>10 DEF Slots
<1>12. gap # T.size
  <2> HIDE DEF gap
  <2> QED BY <1>1, <1>11
<1> QED BY <1>8, <1>9, <1>11, <1>12

\* When n slots after the hole of the removed entry have been looked at: the
\* entries are those that were there, and only entries that are still to be
\* looked at cannot be found, because of the hole.
Hollow(T, hole, was, n) ==
  /\ was.hole \in Slots(T) /\ Way(T, hole, was.hole) <= n
  /\ was.ents \in [Slots(T) -> SlotType]
  /\ \A x \in Slots(T) : was.ents[x] = Empty <=> x = was.hole \/ T.ents[x] = Empty
  /\ \A x \in Slots(T) : n < Way(T, hole, x) => was.ents[x] = T.ents[x]
  /\ \A p, x \in Slots(T) :
       /\ was.ents[p] # Empty /\ was.ents[x] = Empty
       /\ Between(HomeOf(was.ents[p], T), x, p)
       => x = was.hole /\ n < Way(T, hole, p)
  /\ \A p, q \in Slots(T) :
       was.ents[p] # Empty /\ was.ents[q] # Empty /\ was.ents[p].key = was.ents[q].key
         => p = q
  /\ \A e \in EntryType :
       (\E p \in Slots(T) : was.ents[p] = e) <=> (Has(T, e) /\ e # T.ents[hole])

LEMMA HollowFirst ==
  ASSUME NEW T, Sound(T), NEW hole \in UsedIn(T)
  PROVE  Hollow(T, hole, [hole |-> hole, ents |-> [T.ents EXCEPT ![hole] = Empty]], 0)
<1> DEFINE W == [T.ents EXCEPT ![hole] = Empty]
           was == [hole |-> hole, ents |-> W]
<1>1. /\ hole \in Slots(T) /\ T.ents[hole] # Empty /\ T.size \in Nat \ {0}
      /\ T.ents \in [Slots(T) -> SlotType]
  BY DEF UsedIn, Sound, Typed, Slots
<1>2. W \in [Slots(T) -> SlotType]
  BY <1>1 DEF SlotType
<1>3. W[hole] = Empty /\ \A x \in Slots(T) : x # hole => W[x] = T.ents[x]
  BY <1>1
<1>4. was.hole = hole /\ was.ents = W
  OBVIOUS
<1> HIDE DEF W, was
<1>5. Way(T, hole, hole) = 0
  BY <1>1 DEF Way, Slots
<1>6. \A x \in Slots(T) : x # hole => 0 < Way(T, hole, x)
  BY <1>1 DEF Way, Slots
<1>7. \A x \in Slots(T) : 0 < Way(T, hole, x) => x # hole
  BY <1>5
<1>8. ASSUME NEW p \in Slots(T), NEW x \in Slots(T), W[p] # Empty, W[x] = Empty,
             Between(HomeOf(W[p], T), x, p)
      PROVE  x = hole /\ 0 < Way(T, hole, p)
  <2>1. p # hole /\ W[p] = T.ents[p] /\ p \in UsedIn(T)
    BY <1>3, <1>8 DEF UsedIn
  <2>2. T.ents[x] # Empty
    BY <1>8, <2>1 DEF Sound, Chained
  <2> QED BY <1>3, <1>6, <1>8, <2>1, <2>2
<1>9. \A p, q \in Slots(T) : W[p] # Empty /\ W[q] # Empty /\ W[p].key = W[q].key => p = q
  BY <1>3 DEF Sound, Unique, UsedIn
<1>10. ASSUME NEW e \in EntryType
       PROVE  (\E p \in Slots(T) : W[p] = e) <=> (Has(T, e) /\ e # T.ents[hole])
  <2>1. e # Empty
    BY SlotIs
  <2>2. ASSUME NEW p \in Slots(T), W[p] = e PROVE T.ents[p] = e /\ p # hole
    BY <1>3, <2>1, <2>2
  <2>3. ASSUME NEW p \in Slots(T), T.ents[p] = e, p # hole PROVE T.ents[hole] # e
    BY <1>1, <2>1, <2>3 DEF Sound, Unique, UsedIn
  <2> QED BY <1>3, <2>2, <2>3 DEF Has
<1>11. Way(T, hole, hole) <= 0
  BY <1>5
<1> QED BY <1>1, <1>2, <1>3, <1>4, <1>7, <1>8, <1>9, <1>10, <1>11 DEF Hollow, was

LEMMA HollowNext ==
  ASSUME NEW T, Sound(T), Roomy(T), NEW hole \in UsedIn(T),
         NEW n \in 1..Gap(T, hole) - 1, NEW was, Hollow(T, hole, was, n - 1)
  PROVE  Hollow(T, hole, Closed(T, hole, was, n), n)
<1> DEFINE W == was.ents
           h == was.hole
           L == Look(T, hole, n)
           G == Look(T, hole, Gap(T, hole))
           V == [W EXCEPT ![h] = W[L], ![L] = Empty]
           now == [hole |-> L, ents |-> V]
           code == HomeOf(W[L], T)
<1>1. /\ hole \in Slots(T) /\ T.ents[hole] # Empty /\ T.size \in Nat \ {0}
      /\ T.ents \in [Slots(T) -> SlotType] /\ Typed(T)
  BY DEF UsedIn, Sound, Typed, Slots
<1>2. /\ Gap(T, hole) \in 1..T.size - 1 /\ T.ents[G] = Empty
      /\ \A m \in 1..Gap(T, hole) - 1 : T.ents[Look(T, hole, m)] # Empty
  BY GapIs DEF Sound
<1>3. n \in Slots(T) /\ n \in Nat /\ n - 1 \in Nat /\ n < Gap(T, hole)
      /\ Gap(T, hole) \in Slots(T)
  BY <1>1, <1>2 DEF Slots
<1>4. /\ L \in Slots(T) /\ Way(T, hole, L) = n
      /\ G \in Slots(T) /\ Way(T, hole, G) = Gap(T, hole)
  BY <1>1, <1>3, AtIs DEF Look
<1>5. h \in Slots(T) /\ Way(T, hole, h) <= n - 1 /\ Way(T, hole, h) \in Nat
  BY <1>1, WayIs DEF Hollow
<1>6. W \in [Slots(T) -> SlotType] /\ T.ents[L] # Empty
  BY <1>2 DEF Hollow
<1>7. L # h /\ G # h /\ Way(T, hole, h) < n
  <2> HIDE DEF L, G, h
  <2> QED BY <1>3, <1>4, <1>5
<1>8. W[h] = Empty /\ W[G] = Empty /\ W[L] # Empty
  BY <1>2, <1>4, <1>5, <1>6, <1>7 DEF Hollow
<1>9. W[L] \in SlotType /\ W[L].key \in Key /\ code \in Slots(T)
  <2>1. W[L] \in SlotType
    BY <1>4, <1>6
  <2>2. W[L].key \in Key
    BY <1>8, <2>1, SlotIs
  <2> QED BY <1>1, <2>1, <2>2, HomeType DEF HomeOf, Slots
<1>10. \A x \in Slots(T) : n < Way(T, hole, x) => n - 1 < Way(T, hole, x)
  <2>1. \A x \in Slots(T) : Way(T, hole, x) \in Nat
    BY <1>1, WayIs
  <2> QED BY <1>3, <2>1
<1>11. \A p, x \in Slots(T) :
        W[p] # Empty /\ W[x] = Empty /\ Between(HomeOf(W[p], T), x, p)
          => x = h /\ n - 1 < Way(T, hole, p)
  BY DEF Hollow
<1>12. MayFill(code, h, L) <=> Between(code, h, L)
  BY <1>1, <1>4, <1>5, <1>9, MayFillIs DEF Slots
<1>13. CASE ~ Between(code, h, L)
  <2>1. Closed(T, hole, was, n) = was
    BY <1>12, <1>13 DEF Closed, HomeOf
  <2>2. Way(T, hole, h) <= n
    BY <1>3, <1>5, <1>7
  <2>3. ASSUME NEW p \in Slots(T), NEW x \in Slots(T), W[p] # Empty, W[x] = Empty,
               Between(HomeOf(W[p], T), x, p)
        PROVE  x = h /\ n < Way(T, hole, p)
    <3>1. x = h /\ n - 1 < Way(T, hole, p) /\ Way(T, hole, p) \in Nat
      BY <1>1, <1>11, <2>3, WayIs
    <3>2. p # L
      BY <1>13, <2>3, <3>1
    <3>3. Way(T, hole, p) # n
      BY <1>1, <1>4, <3>2, WayDiffers
    <3> QED BY <1>3, <3>1, <3>3
  <2> QED BY <1>10, <2>1, <2>2, <2>3 DEF Hollow
<1>14. CASE Between(code, h, L)
  <2>1. Closed(T, hole, was, n) = now
    BY <1>12, <1>14 DEF Closed, HomeOf
  <2>2. now.hole = L /\ now.ents = V
    OBVIOUS
  <2>3. V \in [Slots(T) -> SlotType]
    <3>1. Empty \in SlotType
      BY DEF SlotType
    <3> HIDE DEF W, h, L
    <3> QED BY <1>6, <1>9, <3>1
  <2>4. /\ V[h] = W[L] /\ V[L] = Empty
        /\ \A x \in Slots(T) : x # h /\ x # L => V[x] = W[x]
    <3> HIDE DEF W, h, L
    <3> QED BY <1>4, <1>5, <1>6, <1>7
  <2> HIDE DEF W, h, L, G, V, now, code
  <2>5. \A x \in Slots(T) : V[x] = Empty <=> x = L \/ (x # h /\ W[x] = Empty)
    BY <1>8, <2>4
  <2>6. \A x \in Slots(T) : V[x] = Empty <=> x = L \/ T.ents[x] = Empty
    <3>1. \A x \in Slots(T) : W[x] = Empty <=> x = h \/ T.ents[x] = Empty
      BY DEF Hollow, W, h
    <3>2. T.ents[h] # Empty
      <4>1. Way(T, hole, hole) = 0
        BY <1>1 DEF Way, Slots
      <4>2. Way(T, hole, h) = 0 => h = hole
        BY <1>1, <1>5, <4>1, WayDiffers
      <4>3. Look(T, hole, Way(T, hole, h)) = h
        BY <1>1, <1>5, WayIs DEF Look
      <4>4. Way(T, hole, h) # 0 => Way(T, hole, h) \in 1..Gap(T, hole) - 1
        BY <1>2, <1>3, <1>5, <1>7
      <4> QED BY <1>1, <1>2, <4>2, <4>3, <4>4
    <3> QED BY <2>5, <3>1, <3>2
  <2>7. \A x \in Slots(T) : n < Way(T, hole, x) => V[x] = T.ents[x]
    <3>1. \A x \in Slots(T) : n - 1 < Way(T, hole, x) => W[x] = T.ents[x]
      BY DEF Hollow, W
    <3>2. \A x \in Slots(T) : n < Way(T, hole, x) => x # h /\ x # L
      BY <1>3, <1>4, <1>5, <1>7
    <3> QED BY <1>10, <2>4, <3>1, <3>2
  <2>8. ASSUME NEW p \in Slots(T), NEW x \in Slots(T), V[p] # Empty, V[x] = Empty,
               Between(HomeOf(V[p], T), x, p)
        PROVE  x = L /\ n < Way(T, hole, p)
    <3>1. CASE p = h
      <4>1. V[p] = W[L] /\ HomeOf(V[p], T) = code
        BY <2>4, <3>1 DEF code
      <4>2. Between(code, x, L) /\ x # h /\ x # L
        <5>1. Between(code, x, h) /\ Between(code, h, L)
          BY <1>14, <2>8, <3>1, <4>1
        <5> QED BY <1>1, <1>4, <1>5, <1>9, <5>1 DEF Between, Slots
      <4>3. W[x] = Empty
        BY <2>5, <2>8, <4>2
      <4> QED BY <1>4, <1>8, <1>11, <4>2, <4>3 DEF code
    <3>2. CASE p # h
      <4>1. p # L /\ V[p] = W[p] /\ W[p] # Empty
        BY <2>4, <2>8, <3>2
      <4>2. x = L
        <5>1. x # L => x # h /\ W[x] = Empty
          BY <2>5, <2>8
        <5> QED BY <1>11, <2>8, <4>1, <5>1
      <4>3. Way(T, hole, p) # n /\ Way(T, hole, p) \in Nat
        BY <1>1, <1>4, <4>1, WayDiffers, WayIs
      <4>4. HomeOf(W[p], T) \in Slots(T)
        <5>1. W[p] \in SlotType
          BY <1>6
        <5> QED BY <1>1, <4>1, <5>1, SlotIs, HomeType DEF HomeOf, Slots
      <4>5. Way(T, hole, p) < n => Between(HomeOf(W[p], T), G, p)
        BY <1>1, <1>3, <1>4, <2>8, <4>1, <4>2, <4>4, Passes
      <4>6. ~ (Way(T, hole, p) < n)
        BY <1>4, <1>7, <1>8, <1>11, <4>1, <4>5
      <4> QED BY <1>3, <4>2, <4>3, <4>6
    <3> QED BY <3>1, <3>2
  <2>9. \A p, q \in Slots(T) :
         W[p] # Empty /\ W[q] # Empty /\ W[p].key = W[q].key => p = q
    BY DEF Hollow, W
  <2>10. \A p, q \in Slots(T) :
         V[p] # Empty /\ V[q] # Empty /\ V[p].key = V[q].key => p = q
    <3>1. \A p \in Slots(T) : V[p] # Empty =>
            p # L /\ V[p] = W[IF p = h THEN L ELSE p]
      BY <2>4
    <3> QED BY <1>4, <2>9, <3>1
  <2>11. \A e \in EntryType :
          (\E p \in Slots(T) : W[p] = e) <=> (\E p \in Slots(T) : V[p] = e)
    <3>1. \A p \in Slots(T) : V[p] # Empty => \E q \in Slots(T) : W[q] = V[p]
      BY <1>4, <2>4
    <3>2. \A p \in Slots(T) : W[p] # Empty => \E q \in Slots(T) : V[q] = W[p]
      BY <1>5, <1>8, <2>4
    <3> QED BY <3>1, <3>2, SlotIs
  <2>12. \A e \in EntryType :
       (\E p \in Slots(T) : W[p] = e) <=> (Has(T, e) /\ e # T.ents[hole])
    BY DEF Hollow, W
  <2>13. Way(T, hole, L) <= n
    BY <1>3, <1>4
  <2> QED BY <1>4, <2>1, <2>2, <2>3, <2>6, <2>7, <2>8, <2>10, <2>11, <2>12, <2>13 DEF Hollow
<1> QED BY <1>13, <1>14

\* do_removal takes one entry out of the table, and no other is lost.
LEMMA TakeIs ==
  ASSUME NEW T, Sound(T), Roomy(T), NEW hole \in UsedIn(T)
  PROVE  /\ Sound(Take(T, hole))
         /\ Take(T, hole).size = T.size /\ Take(T, hole).lock = T.lock
         /\ Take(T, hole).gen = T.gen /\ Take(T, hole).load = T.load - 1
         /\ \E p \in UsedIn(T) : UsedIn(Take(T, hole)) = UsedIn(T) \ {p}
         /\ \A e \in EntryType :
              Has(Take(T, hole), e) <=> Has(T, e) /\ e # T.ents[hole]
<1> DEFINE gap == Gap(T, hole)
           C == Closing(T, hole)
           U == Take(T, hole)
           last == C[gap - 1]
           G == Look(T, hole, gap)
<1>1. /\ hole \in Slots(T) /\ T.ents[hole] # Empty /\ T.size \in Nat \ {0}
      /\ T.ents \in [Slots(T) -> SlotType] /\ Typed(T) /\ T.load \in Int
  BY DEF UsedIn, Sound, Typed, Slots
<1>2. gap \in 1..T.size - 1 /\ T.ents[G] = Empty
      /\ \A m \in 1..gap - 1 : T.ents[Look(T, hole, m)] # Empty
  BY <1>1, GapIs
<1>3. /\ C[0] = [hole |-> hole, ents |-> [T.ents EXCEPT ![hole] = Empty]]
      /\ \A n \in 1..T.size - 1 : C[n] = Closed(T, hole, C[n - 1], n)
  BY <1>1, ClosingIs DEF Slots
<1> DEFINE Bad == {n \in 0..gap - 1 : ~ Hollow(T, hole, C[n], n)}
<1>4. Bad = {}
  <2> SUFFICES ASSUME Bad # {} PROVE FALSE
    OBVIOUS
  <2>1. Bad \in SUBSET Nat
    OBVIOUS
  <2>2. PICK n \in Bad : \A y \in Bad : n <= y
    <3> HIDE DEF Bad
    <3> QED BY <2>1, Least
  <2>3. n # 0
    BY <1>3, <2>2, HollowFirst
  <2> HIDE DEF gap, C
  <2>4. n \in 1..gap - 1 /\ n \in 1..T.size - 1 /\ n - 1 \in 0..gap - 1 /\ ~ (n <= n - 1)
    BY <1>1, <1>2, <2>2, <2>3
  <2>5. Hollow(T, hole, C[n - 1], n - 1)
    BY <2>2, <2>4
  <2>6. Hollow(T, hole, C[n], n)
    BY <1>3, <2>4, <2>5, HollowNext DEF gap
  <2> QED BY <2>2, <2>6
<1>5. Hollow(T, hole, last, gap - 1)
  <2>1. gap - 1 \in 0..gap - 1
    <3> HIDE DEF gap
    <3> QED BY <1>1, <1>2
  <2> QED BY <1>4, <2>1
<1> DEFINE W == last.ents
           h == last.hole
<1>6. U = WithEnts(T, W, T.load - 1)
  BY DEF Take, WithEnts
<1>7. W \in [Slots(T) -> SlotType] /\ h \in Slots(T)
  BY <1>5 DEF Hollow
<1>8. /\ Typed(U) /\ U.ents = W /\ U.load = T.load - 1 /\ U.size = T.size
      /\ U.lock = T.lock /\ U.gen = T.gen /\ Slots(U) = Slots(T)
  <2> HIDE DEF W, U
  <2>1. W \in [0..T.size - 1 -> SlotType] /\ T.load - 1 \in Int
    BY <1>1, <1>7 DEF Slots
  <2> QED BY <1>1, <1>6, <2>1, WithEntsIs DEF Slots
<1>9. /\ \A x \in Slots(T) : W[x] = Empty <=> x = h \/ T.ents[x] = Empty
      /\ \A p, x \in Slots(T) :
           W[p] # Empty /\ W[x] = Empty /\ Between(HomeOf(W[p], T), x, p)
           => x = h /\ gap - 1 < Way(T, hole, p)
      /\ \A p, q \in Slots(T) :
           W[p] # Empty /\ W[q] # Empty /\ W[p].key = W[q].key => p = q
      /\ \A e \in EntryType :
           (\E p \in Slots(T) : W[p] = e) <=> (Has(T, e) /\ e # T.ents[hole])
      /\ Way(T, hole, h) <= gap - 1
  BY <1>5 DEF Hollow
<1>10. G \in Slots(T) /\ Way(T, hole, G) = gap /\ Way(T, hole, h) \in Nat
  <2>1. gap \in Slots(T)
    BY <1>1, <1>2 DEF Slots
  <2> QED BY <1>1, <1>7, <2>1, AtIs, WayIs DEF Look
<1> HIDE DEF U, W, h, G, gap, last, C
<1>11. G # h /\ W[G] = Empty
  BY <1>1, <1>2, <1>9, <1>10
<1>12. T.ents[h] # Empty
  <2>1. Way(T, hole, hole) = 0
    BY <1>1 DEF Way, Slots
  <2>2. Way(T, hole, h) = 0 => h = hole
    BY <1>1, <1>7, <2>1, WayDiffers
  <2>3. Look(T, hole, Way(T, hole, h)) = h
    BY <1>1, <1>7, WayIs DEF Look
  <2>4. Way(T, hole, h) # 0 => Way(T, hole, h) \in 1..gap - 1
    BY <1>1, <1>2, <1>9, <1>10
  <2> QED BY <1>1, <1>2, <2>2, <2>3, <2>4
<1>13. UsedIn(U) = UsedIn(T) \ {h} /\ h \in UsedIn(T)
  BY <1>7, <1>8, <1>9, <1>12 DEF UsedIn
<1>14. Chained(U)
  <2> SUFFICES ASSUME NEW p \in Slots(T), W[p] # Empty, NEW x \in Slots(T), W[x] = Empty,
                      Between(HomeOf(W[p], T), x, p)
               PROVE  FALSE
    BY <1>8 DEF Chained, UsedIn, HomeOf
  <2>1. x = h /\ gap - 1 < Way(T, hole, p) /\ Way(T, hole, p) \in Nat
    BY <1>1, <1>9, WayIs
  <2>2. Way(T, hole, p) # gap
    BY <1>1, <1>10, <1>11, WayDiffers
  <2>3. gap < Way(T, hole, p) /\ Way(T, hole, h) < gap
    BY <1>1, <1>2, <1>9, <1>10, <2>1, <2>2
  <2>4. HomeOf(W[p], T) \in Slots(T)
    <3>1. W[p] \in SlotType
      BY <1>7
    <3> QED BY <1>1, <3>1, SlotIs, HomeType DEF HomeOf, Slots
  <2>5. Between(HomeOf(W[p], T), G, p)
    BY <1>1, <1>7, <1>10, <2>1, <2>3, <2>4, Passes
  <2> QED BY <1>9, <1>10, <1>11, <2>5
<1>15. Unique(U)
  BY <1>8, <1>9 DEF Unique, UsedIn
<1>16. \A e \in EntryType : Has(U, e) <=> Has(T, e) /\ e # T.ents[hole]
  BY <1>8, <1>9 DEF Has
<1> QED BY <1>8, <1>13, <1>14, <1>15, <1>16 DEF Sound, U

-----------------------------------------------------------------------------
(* The number of entries                                                   *)

LEMMA UsedIs ==
  ASSUME NEW T, Typed(T)
  PROVE  /\ IsFiniteSet(UsedIn(T)) /\ Cardinality(UsedIn(T)) \in Nat
         /\ Cardinality(UsedIn(T)) < T.size => Roomy(T)
<1>1. T.size - 1 \in Int /\ 0 \in Int /\ T.size \in Nat \ {0}
  BY DEF Typed
<1>2. IsFiniteSet(Slots(T)) /\ Cardinality(Slots(T)) = T.size
  <2>1. /\ IsFiniteSet(0..T.size - 1)
        /\ Cardinality(0..T.size - 1) = IF 0 > T.size - 1 THEN 0 ELSE T.size - 1 - 0 + 1
    BY <1>1, FS_Interval
  <2> QED BY <1>1, <2>1 DEF Slots
<1>3. UsedIn(T) \subseteq Slots(T)
  BY DEF UsedIn
<1>4. IsFiniteSet(UsedIn(T)) /\ Cardinality(UsedIn(T)) \in Nat
  BY <1>2, <1>3, FS_Subset, FS_CardinalityType
<1>5. ASSUME ~ Roomy(T) PROVE UsedIn(T) = Slots(T)
  BY <1>5 DEF Roomy, UsedIn
<1> QED BY <1>1, <1>2, <1>4, <1>5

LEMMA UsedMore ==
  ASSUME NEW T, Typed(T), NEW p, p \notin UsedIn(T)
  PROVE  Cardinality(UsedIn(T) \cup {p}) = Cardinality(UsedIn(T)) + 1
BY UsedIs, FS_AddElement

LEMMA UsedLess ==
  ASSUME NEW T, Typed(T), NEW p \in UsedIn(T)
  PROVE  Cardinality(UsedIn(T) \ {p}) = Cardinality(UsedIn(T)) - 1
BY UsedIs, FS_RemoveElement

-----------------------------------------------------------------------------
(* A new table                                                             *)

LEMMA NoEntsIs ==
  ASSUME NEW n \in Nat
  PROVE  /\ NoEnts(n) \in [0..n - 1 -> SlotType]
         /\ \A x \in 0..n - 1 : NoEnts(n)[x] = Empty
<1>1. [x \in 0..n - 1 |-> Empty] \in [0..n - 1 -> {Empty}]
  OBVIOUS
<1>2. NoEnts(n) \in [0..n - 1 -> {Empty}]
  BY <1>1 DEF NoEnts
<1> QED BY <1>2 DEF SlotType

LEMMA NewIs ==
  ASSUME NEW T, Typed(T), \A x \in Slots(T) : T.ents[x] = Empty
  PROVE  /\ Sound(T) /\ UsedIn(T) = {} /\ Cardinality(UsedIn(T)) = 0
         /\ \A e \in EntryType : ~ Has(T, e)
<1>1. UsedIn(T) = {}
  BY DEF UsedIn
<1>2. Cardinality(UsedIn(T)) = 0
  BY <1>1, FS_EmptySet
<1> QED BY <1>1, <1>2, SlotIs DEF Sound, Chained, Unique, Has

New(T, newsize) ==
  [ents |-> NoEnts(newsize), size |-> newsize, load |-> 0,
   lock |-> T.lock, gen |-> T.gen + 1]
\* The table after the slot n - 1 of the old one has been read.
Copied(T, was, n) ==
  IF T.ents[n - 1] = Empty THEN was
  ELSE Put(was, T.ents[n - 1].key, T.ents[n - 1].val)
UsedBelow(T, n) == {p \in UsedIn(T) : p < n}
\* What has been copied so far.
Copy(T, newsize, was, n) ==
  /\ Sound(was) /\ was.size = newsize /\ was.lock = T.lock /\ was.gen = T.gen + 1
  /\ was.load = Cardinality(UsedIn(was))
  /\ was.load <= Cardinality(UsedBelow(T, n))
  /\ \A e \in EntryType :
       Has(was, e) <=> \E p \in Slots(T) : p < n /\ T.ents[p] = e

LEMMA UsedBelowIs ==
  ASSUME NEW T, Typed(T), NEW n \in 0..T.size
  PROVE  /\ Cardinality(UsedBelow(T, n)) \in Nat /\ Cardinality(UsedBelow(T, n)) <= n
         /\ 0 < n => Cardinality(UsedBelow(T, n)) =
              IF T.ents[n - 1] = Empty THEN Cardinality(UsedBelow(T, n - 1))
              ELSE Cardinality(UsedBelow(T, n - 1)) + 1
<1>1. UsedBelow(T, n) \subseteq 0..n - 1 /\ n - 1 \in Int /\ n \in Nat /\ 0 \in Int
  BY DEF UsedBelow, UsedIn, Slots, Typed
<1>2. IsFiniteSet(0..n - 1) /\ Cardinality(0..n - 1) = n
  BY <1>1, FS_Interval
<1>3. Cardinality(UsedBelow(T, n)) \in Nat /\ Cardinality(UsedBelow(T, n)) <= n
  BY <1>1, <1>2, FS_Subset, FS_CardinalityType
<1>4. IsFiniteSet(UsedBelow(T, n - 1))
  <2>1. IsFiniteSet(UsedIn(T)) /\ UsedBelow(T, n - 1) \subseteq UsedIn(T)
    BY UsedIs DEF UsedBelow
  <2> QED BY <2>1, FS_Subset
<1>5. CASE 0 < n /\ T.ents[n - 1] = Empty
  <2>1. UsedBelow(T, n) = UsedBelow(T, n - 1)
    BY <1>1, <1>5 DEF UsedBelow, UsedIn, Slots, Typed
  <2> QED BY <1>3, <1>5, <2>1
<1>6. CASE 0 < n /\ T.ents[n - 1] # Empty
  <2>1. UsedBelow(T, n) = UsedBelow(T, n - 1) \cup {n - 1} /\ n - 1 \notin UsedBelow(T, n - 1)
    BY <1>1, <1>6 DEF UsedBelow, UsedIn, Slots, Typed
  <2>2. Cardinality(UsedBelow(T, n)) = Cardinality(UsedBelow(T, n - 1)) + 1
    BY <1>4, <2>1, FS_AddElement
  <2> QED BY <1>3, <1>6, <2>2
<1> QED BY <1>3, <1>5, <1>6

LEMMA CopyNext ==
  ASSUME NEW T, Sound(T), NEW newsize \in Nat, T.size < newsize,
         NEW n \in 1..T.size, NEW was, Copy(T, newsize, was, n - 1)
  PROVE  Copy(T, newsize, Copied(T, was, n), n)
<1> DEFINE e0 == T.ents[n - 1]
           now == Copied(T, was, n)
<1>1. /\ Typed(T) /\ T.size \in Nat \ {0} /\ n - 1 \in Slots(T) /\ n \in 0..T.size
      /\ n - 1 \in 0..T.size /\ 0 < n /\ n - 1 \in Nat /\ n \in Nat
      /\ \A p \in Slots(T) : p < n <=> p < n - 1 \/ p = n - 1
  BY DEF Sound, Typed, Slots
<1>2. e0 \in SlotType
  BY <1>1 DEF Typed, Slots
<1>3. Typed(was) /\ was.load = Cardinality(UsedIn(was)) /\ was.size = newsize
      /\ was.load <= Cardinality(UsedBelow(T, n - 1))
  BY DEF Copy, Sound
<1>4. /\ Cardinality(UsedBelow(T, n - 1)) \in Nat /\ Cardinality(UsedBelow(T, n - 1)) <= n - 1
      /\ Cardinality(UsedBelow(T, n)) = IF e0 = Empty THEN Cardinality(UsedBelow(T, n - 1))
                                        ELSE Cardinality(UsedBelow(T, n - 1)) + 1
  BY <1>1, UsedBelowIs
<1>5. Roomy(was)
  <2>1. Cardinality(UsedIn(was)) < was.size
    BY <1>1, <1>3, <1>4, UsedIs
  <2> QED BY <1>3, <2>1, UsedIs
<1>6. CASE e0 = Empty
  <2>1. now = was
    BY <1>6 DEF Copied
  <2>2. \A e \in EntryType : (\E p \in Slots(T) : p < n /\ T.ents[p] = e)
                           <=> (\E p \in Slots(T) : p < n - 1 /\ T.ents[p] = e)
    BY <1>1, <1>6, SlotIs
  <2> QED BY <1>4, <1>6, <2>1, <2>2 DEF Copy
<1>7. CASE e0 # Empty
  <2> DEFINE k == e0.key
             v == e0.val
  <2>1. k \in Key /\ v \in Val /\ e0 = [key |-> k, val |-> v] /\ now = Put(was, k, v)
    BY <1>2, <1>7 DEF Copied, SlotType, EntryType
  <2>2. /\ Sound(now)
        /\ now.size = was.size /\ now.lock = was.lock /\ now.gen = was.gen
        /\ \/ Find(was, k) # NoVal /\ now = was
           \/ /\ Find(was, k) = NoVal /\ now.load = was.load + 1
              /\ \E p \in Slots(was) \ UsedIn(was) :
                   UsedIn(now) = UsedIn(was) \cup {p}
        /\ \A e \in EntryType :
             Has(now, e) <=> Has(was, e) \/ (e = [key |-> k, val |-> v] /\ Find(was, k) = NoVal)
    BY <1>5, <2>1, PutIs DEF Copy
  <2> HIDE DEF now, k, v
  <2>3. Find(was, k) = NoVal
    <3>1. ASSUME NEW w \in Val, Find(was, k) = w PROVE FALSE
      <4> DEFINE e == [key |-> k, val |-> w]
      <4>1. Has(was, e) /\ e \in EntryType /\ e.key = k
        BY <1>5, <2>1, <3>1, FindIs DEF Copy, EntryType
      <4>2. PICK p \in Slots(T) : p < n - 1 /\ T.ents[p] = e
        BY <4>1 DEF Copy
      <4>3. p \in UsedIn(T) /\ n - 1 \in UsedIn(T) /\ p # n - 1 /\ T.ents[p].key = e0.key
        BY <1>1, <1>7, <4>1, <4>2, SlotIs DEF UsedIn, Slots, k
      <4> QED BY <4>3 DEF Sound, Unique
    <3>2. Find(was, k) \in Val \cup {NoVal}
      BY <1>5, <2>1, FindIs DEF Copy
    <3> QED BY <3>1, <3>2
  <2>4. now.load = was.load + 1 /\ now.load = Cardinality(UsedIn(now))
    <3>1. Find(was, k) = NoVal => now.load = was.load + 1
      BY <2>2
    <3>2. PICK p \in Slots(was) \ UsedIn(was) : UsedIn(now) = UsedIn(was) \cup {p}
      BY <2>2, <2>3
    <3> QED BY <1>3, <2>3, <3>1, <3>2, UsedMore
  <2>5. now.load <= Cardinality(UsedBelow(T, n))
    BY <1>3, <1>4, <1>7, <2>4, UsedIs
  <2>6. \A e \in EntryType : Has(now, e) <=> \E p \in Slots(T) : p < n /\ T.ents[p] = e
    <3>1. \A e \in EntryType : Has(now, e) <=> Has(was, e) \/ e = e0
      BY <2>1, <2>2, <2>3
    <3>2. \A e \in EntryType : Has(was, e) <=> \E p \in Slots(T) : p < n - 1 /\ T.ents[p] = e
      BY DEF Copy
    <3> HIDE DEF e0
    <3> QED BY <1>1, <3>1, <3>2 DEF e0
  <2>7. now.size = newsize /\ now.lock = T.lock /\ now.gen = T.gen + 1
    BY <2>2 DEF Copy
  <2> QED BY <2>2, <2>4, <2>5, <2>6, <2>7 DEF Copy, now
<1> QED BY <1>6, <1>7

\* A step leads from any table of the type to one of the type.
LEMMA PutType ==
  ASSUME NEW T, Typed(T), NEW k \in Key, NEW v \in Val
  PROVE  /\ Typed(Put(T, k, v)) /\ Put(T, k, v).size = T.size
<1> DEFINE P == Probe(T, k)
           e == [key |-> k, val |-> v]
<1>1. e \in EntryType
  BY DEF EntryType
<1>2. CASE P \in Slots(T)
  <2>1. Put(T, k, v) \in {T, Written(T, P, e)}
    BY DEF Put, Written, WithEnts
  <2> HIDE DEF P, e
  <2>2. Typed(Written(T, P, e)) /\ Written(T, P, e).size = T.size
    BY <1>1, <1>2, WrittenIs
  <2> QED BY <2>1, <2>2
<1>3. CASE P \notin Slots(T)
  <2>1. [T.ents EXCEPT ![P] = e] = T.ents
    <3> HIDE DEF P, e
    <3> QED BY <1>3 DEF Typed, Slots
  <2>2. Put(T, k, v) \in {T, WithEnts(T, T.ents, T.load + 1)}
    <3>1. [T EXCEPT !.ents[P] = e, !.load = @ + 1] = WithEnts(T, T.ents, T.load + 1)
      BY <2>1 DEF WithEnts
    <3> QED BY <3>1 DEF Put
  <2>3. T.ents \in [0..T.size - 1 -> SlotType] /\ T.load + 1 \in Int
    BY DEF Typed
  <2> QED BY <2>2, <2>3, WithEntsIs
<1> QED BY <1>2, <1>3

LEMMA CopyingIs ==
  ASSUME NEW T, Typed(T), NEW newsize \in Nat \ {0}
  PROVE  /\ Copying(T, newsize)[0] = New(T, newsize)
         /\ \A n \in 1..T.size :
              Copying(T, newsize)[n] = Copied(T, Copying(T, newsize)[n - 1], n)
<1> DEFINE S == [ents : [0..newsize - 1 -> SlotType], size : {newsize}, load : Int,
                 lock : Locks, gen : Nat]
           N == T.size
           base == New(T, newsize)
           step == [x \in S \X (1..N) |-> Copied(T, x[1], x[2])]
           Body(f) == [n \in 0..N |-> IF n = 0 THEN base ELSE Copied(T, f[n - 1], n)]
<1>1. base \in S
  BY NoEntsIs DEF New, Typed
<1>2. ASSUME NEW was \in S, NEW n \in 1..N PROVE Copied(T, was, n) \in S
  <2>1. T.ents[n - 1] \in SlotType
    BY DEF Typed
  <2>2. CASE T.ents[n - 1] = Empty
    BY <2>2 DEF Copied
  <2>3. CASE T.ents[n - 1] # Empty
    <3>1. Copied(T, was, n) = Put(was, T.ents[n - 1].key, T.ents[n - 1].val)
      BY <2>3 DEF Copied
    <3>2. T.ents[n - 1].key \in Key /\ T.ents[n - 1].val \in Val
      BY <2>1, <2>3, SlotIs
    <3>3. Typed(was) /\ was.size = newsize
      BY DEF Typed
    <3>4. Typed(Copied(T, was, n)) /\ Copied(T, was, n).size = newsize
      BY <3>1, <3>2, <3>3, PutType
    <3> HIDE DEF N
    <3> QED BY <3>4 DEF Typed
  <2> QED BY <2>2, <2>3
<1>3. step \in [S \X (1..N) -> S]
  BY <1>2
<1>4. PICK g \in [0..N -> S] : Follows(g, N, base, step)
  <2>1. N \in Nat
    BY DEF Typed
  <2> HIDE DEF S, N, base, step
  <2> QED BY <1>1, <1>3, <2>1, Recursion
<1>5. g = Body(g)
  <2>1. \A n \in 0..N : n # 0 => <<g[n - 1], n>> \in S \X (1..N)
    <3>1. \A n \in 0..N : n # 0 => n - 1 \in 0..N /\ n \in 1..N
      BY DEF Typed
    <3> HIDE DEF S, N
    <3> QED BY <1>4, <3>1
  <2>2. \A n \in 0..N : n # 0 => step[<<g[n - 1], n>>] = Copied(T, g[n - 1], n)
    BY <2>1
  <2> HIDE DEF S, N, base, step
  <2>3. \A n \in 0..N : g[n] = IF n = 0 THEN base ELSE Copied(T, g[n - 1], n)
    BY <1>4, <2>2 DEF Follows
  <2>4. g = [n \in 0..N |-> g[n]]
    BY <1>4
  <2> QED BY <2>3, <2>4
<1>6. Copying(T, newsize) = CHOOSE f : f = Body(f)
  BY DEF Copying, Copied, New
<1>7. Copying(T, newsize) = Body(Copying(T, newsize))
  <2> HIDE DEF Body
  <2> QED BY <1>5, <1>6, Zenon
<1>8. 0 \in 0..N /\ \A n \in 1..N : n \in 0..N /\ n # 0
  BY DEF Typed
<1> HIDE DEF base, N
<1>9. \A n \in 0..N : Copying(T, newsize)[n] =
         IF n = 0 THEN base ELSE Copied(T, Copying(T, newsize)[n - 1], n)
  BY <1>7
<1> QED BY <1>8, <1>9 DEF base, N

\* fz_resize_hash loses nothing and adds nothing.
LEMMA RehashIs ==
  ASSUME NEW T, Sound(T), NEW newsize \in Nat, T.size < newsize
  PROVE  /\ Sound(Rehash(T, newsize))
         /\ Rehash(T, newsize).size = newsize /\ Rehash(T, newsize).lock = T.lock
         /\ Rehash(T, newsize).gen = T.gen + 1
         /\ Rehash(T, newsize).load = Cardinality(UsedIn(Rehash(T, newsize)))
         /\ Rehash(T, newsize).load <= Cardinality(UsedIn(T))
         /\ \A e \in EntryType : Has(Rehash(T, newsize), e) <=> Has(T, e)
<1> DEFINE C == Copying(T, newsize)
           new == New(T, newsize)
           Bad == {n \in 0..T.size : ~ Copy(T, newsize, C[n], n)}
<1>1. Typed(T) /\ T.size \in Nat \ {0} /\ newsize \in Nat \ {0}
  BY DEF Sound, Typed
<1>2. C[0] = new /\ \A n \in 1..T.size : C[n] = Copied(T, C[n - 1], n)
  BY <1>1, CopyingIs
<1>3. Copy(T, newsize, new, 0)
  <2>1. Typed(new) /\ \A x \in Slots(new) : new.ents[x] = Empty
    BY <1>1, NoEntsIs DEF New, Typed, Slots
  <2>2. /\ Sound(new) /\ Cardinality(UsedIn(new)) = 0
        /\ \A e \in EntryType : ~ Has(new, e)
    BY <2>1, NewIs
  <2>3. /\ new.size = newsize /\ new.lock = T.lock /\ new.gen = T.gen + 1
        /\ new.load = 0
    BY DEF New
  <2>4. Cardinality(UsedBelow(T, 0)) \in Nat
    BY <1>1, UsedBelowIs
  <2>5. \A p \in Slots(T) : ~ (p < 0)
    BY <1>1 DEF Slots
  <2> HIDE DEF new
  <2> QED BY <2>2, <2>3, <2>4, <2>5 DEF Copy
<1>4. Bad = {}
  <2> SUFFICES ASSUME Bad # {} PROVE FALSE
    OBVIOUS
  <2>1. Bad \in SUBSET Nat
    OBVIOUS
  <2>2. PICK n \in Bad : \A y \in Bad : n <= y
    <3> HIDE DEF Bad
    <3> QED BY <2>1, Least
  <2>3. n # 0
    BY <1>2, <1>3, <2>2
  <2> HIDE DEF C
  <2>4. n \in 1..T.size /\ n - 1 \in 0..T.size /\ ~ (n <= n - 1)
    BY <1>1, <2>2, <2>3
  <2>5. Copy(T, newsize, C[n - 1], n - 1)
    BY <2>2, <2>4
  <2>6. Copy(T, newsize, C[n], n)
    BY <1>2, <2>4, <2>5, CopyNext
  <2> QED BY <2>2, <2>6
<1>5. Copy(T, newsize, C[T.size], T.size)
  <2>1. T.size \in 0..T.size
    BY <1>1
  <2> QED BY <1>4, <2>1
<1>6. UsedBelow(T, T.size) = UsedIn(T) /\ \A p \in Slots(T) : p < T.size
  BY <1>1 DEF UsedBelow, UsedIn, Slots
<1> QED BY <1>5, <1>6 DEF Copy, Has, Rehash

-----------------------------------------------------------------------------
(* The invariant                                                           *)

OpType == {"idle", "resize", "insert"}
CallType == [op : OpType, key : Key \cup {NoKey}, val : Val \cup {NoVal},
             newsize : Nat, ents : Nat]
PosType == [key : Key \cup {NoKey}, at : Nat]
\* the values that the variables can have
TypeOK ==
  /\ Typed(table)
  /\ call \in [Thread -> CallType]
  /\ pos \in [Thread -> PosType]

\* A thread that has given up the lock resizes a table that nobody has resized
\* since, or finds it resized.
CallOK(t) ==
  call[t] # Idle =>
    /\ call[t].op # "idle" /\ call[t].key \in Key /\ call[t].val \in Val
    /\ table.lock = "alloc"
    /\ 2 * InitialSize <= call[t].newsize
    /\ \/ call[t].newsize <= table.size
       \/ /\ call[t].op = "resize" /\ call[t].ents = table.gen
          /\ call[t].newsize = 2 * table.size
\* A position that was returned is a slot of the table, whatever has become of it.
PosOK(t) == pos[t] # NoPos => pos[t].key \in Key /\ pos[t].at \in Slots(table)

\* the threads that insert what they have without looking at the load again
Late == {t \in Thread : call[t] # Idle /\ call[t].newsize <= table.size}
\* how many entries there may be more than the load at which it is resized
Overshoot == IF table.lock = "alloc" THEN Cardinality(Thread) ELSE 1
\* Each of them may go past the load at which the table would be resized, and
\* none is there before the table is twice as large as it was at first.
LoadOK ==
  /\ table.load = Cardinality(UsedIn(table))
  /\ table.load + Cardinality(Late) <= (8 * table.size) \div 10 + Overshoot
  /\ \/ /\ table.size = InitialSize
        /\ table.load <= (8 * table.size) \div 10 + 1
     \/ 2 * InitialSize <= table.size

Inv ==
  /\ TypeOK
  /\ Sound(table)
  /\ \A t \in Thread : CallOK(t) /\ PosOK(t)
  /\ LoadOK

LEMMA Sizes ==
  ASSUME Inv
  PROVE  /\ table.size \in Nat \ {0} /\ table.load \in Nat /\ InitialSize \in Nat
         /\ InitialSize >= 6 /\ InitialSize <= table.size
         /\ Cardinality(Thread) \in Nat /\ IsFiniteSet(Thread) /\ Overshoot \in Nat
         /\ IsFiniteSet(Late) /\ Cardinality(Late) \in Nat
         /\ Typed(table) /\ Sound(table)
         /\ table.load < table.size /\ Roomy(table)
<1>1. /\ Typed(table) /\ table.size \in Nat \ {0} /\ InitialSize \in Nat /\ InitialSize >= 6
  BY TableAssumption DEF Inv, TypeOK, Typed
<1>2. IsFiniteSet(Thread) /\ Cardinality(Thread) \in Nat
  BY FewThreads, FS_CardinalityType
<1>3. IsFiniteSet(Late) /\ Cardinality(Late) \in Nat /\ Overshoot \in Nat
  <2>0. Overshoot \in Nat
    BY <1>2 DEF Overshoot
  <2>1. Late \subseteq Thread
    BY DEF Late
  <2> QED BY <1>2, <2>0, <2>1, FS_Subset, FS_CardinalityType
<1>4. Cardinality(UsedIn(table)) \in Nat /\ table.load = Cardinality(UsedIn(table))
  BY <1>1, UsedIs DEF Inv, LoadOK
<1>5. table.load < table.size /\ InitialSize <= table.size
  <2>1. CASE table.size = InitialSize /\ table.load <= (8 * table.size) \div 10 + 1
    BY <1>1, <1>4, <2>1
  <2>2. CASE 2 * InitialSize <= table.size
    <3>1. table.load <= (8 * table.size) \div 10 + Overshoot
      BY <1>1, <1>2, <1>3, <1>4 DEF Inv, LoadOK
    <3>2. Overshoot < 2 * InitialSize - (16 * InitialSize) \div 10
      <4>1. table.lock \in Locks /\ 1 < 2 * InitialSize - (16 * InitialSize) \div 10
        BY <1>1 DEF Typed
      <4> QED BY <4>1, FewThreads DEF Overshoot
    <3>3. 2 * InitialSize - (16 * InitialSize) \div 10 <= table.size - (8 * table.size) \div 10
      BY <1>1, <2>2
    <3> QED BY <1>1, <1>3, <1>4, <2>2, <3>1, <3>2, <3>3
  <2> QED BY <2>1, <2>2 DEF Inv, LoadOK
<1>6. Roomy(table)
  BY <1>1, <1>4, <1>5, UsedIs
<1> QED BY <1>1, <1>2, <1>3, <1>4, <1>5, <1>6 DEF Inv

\* What an insertion into T leaves.
LEMMA InsertIs ==
  ASSUME Inv, NEW t \in Thread, NEW T, NEW k \in Key, NEW v \in Val,
         Sound(T), Roomy(T), T.load = Cardinality(UsedIn(T)), T.lock = table.lock,
         table.size <= T.size, Insert(t, T, k, v)
  PROVE  /\ Sound(table') /\ Typed(table') /\ table'.size = T.size /\ table'.lock = table.lock
         /\ table'.gen = T.gen /\ table'.load = Cardinality(UsedIn(table'))
         /\ table'.load \in Nat /\ T.load \in Nat
         /\ T.load <= table'.load /\ table'.load <= T.load + 1
         /\ pos' \in [Thread -> PosType] /\ \A u \in Thread : PosOK(u)'
<1>1. table' = Put(T, k, v)
  BY DEF Insert
<1>2. /\ Sound(table') /\ table'.size = T.size /\ table'.lock = table.lock
      /\ table'.gen = T.gen /\ Typed(table')
      /\ \/ table' = T
         \/ /\ table'.load = T.load + 1
            /\ \E p \in Slots(T) \ UsedIn(T) : UsedIn(table') = UsedIn(T) \cup {p}
  BY <1>1, PutIs DEF Sound
<1>3. Cardinality(UsedIn(T)) \in Nat
  BY UsedIs DEF Sound
<1>4. /\ table'.load = Cardinality(UsedIn(table'))
      /\ table'.load \in Nat /\ T.load \in Nat
      /\ T.load <= table'.load /\ table'.load <= T.load + 1
  <2>1. CASE table' = T
    BY <1>3, <2>1
  <2>2. CASE table' # T
    <3>1. PICK p \in Slots(T) \ UsedIn(T) : UsedIn(table') = UsedIn(T) \cup {p}
      BY <1>2, <2>2
    <3>2. Cardinality(UsedIn(table')) = Cardinality(UsedIn(T)) + 1 /\ table'.load = T.load + 1
      BY <1>2, <2>2, <3>1, UsedMore DEF Sound
    <3> QED BY <1>3, <3>2
  <2> QED BY <2>1, <2>2
<1>6. Slots(table) \subseteq Slots(T) /\ Slots(table') = Slots(T)
  BY <1>2, Sizes DEF Slots, Sound, Typed
<1>7. pos \in [Thread -> PosType] /\ \A u \in Thread : PosOK(u)
  BY DEF Inv, TypeOK
<1>8. Probe(T, k) \in Slots(T)
  <2>1. PICK q \in Slots(T) : T.ents[q] = Empty
    BY DEF Roomy
  <2> QED BY <2>1, ProbeFinds DEF Empty
<1>9. pos' \in [Thread -> PosType] /\ \A u \in Thread : PosOK(u)'
  <2>1. CASE UNCHANGED pos
    BY <1>6, <1>7, <2>1 DEF PosOK
  <2>2. CASE pos' = [pos EXCEPT ![t] = [key |-> k, at |-> Probe(T, k)]]
    <3>1. [key |-> k, at |-> Probe(T, k)] \in PosType
      BY <1>8 DEF PosType, Slots, Sound, Typed
    <3>2. \A u \in Thread : pos'[u] = IF u = t THEN [key |-> k, at |-> Probe(T, k)] ELSE pos[u]
      BY <1>7, <2>2
    <3>3. \A u \in Thread : PosOK(u)'
      BY <1>6, <1>7, <1>8, <3>2 DEF PosOK
    <3> QED BY <1>7, <2>2, <3>1, <3>3
  <2> QED BY <2>1, <2>2 DEF Insert
<1> QED BY <1>2, <1>4, <1>9

\* Where only entries were removed.
LEMMA InvKept ==
  ASSUME Inv, UNCHANGED call,
         Sound(table'), table'.size = table.size, table'.lock = table.lock,
         table'.load = Cardinality(UsedIn(table')), table'.load <= table.load,
         table'.gen = table.gen,
         pos' \in [Thread -> PosType], \A u \in Thread : PosOK(u)'
  PROVE  Inv'
<1>1. Late' = Late /\ Overshoot' = Overshoot
  BY DEF Late, Overshoot
<1>2. Typed(table') /\ table'.load \in Int
  BY DEF Sound, Typed
<1>3. TypeOK'
  BY <1>2 DEF Inv, TypeOK
<1>4. \A t \in Thread : CallOK(t)'
  BY DEF Inv, CallOK
<1>5. LoadOK'
  <2>1. /\ table'.load + Cardinality(Late) <= table.load + Cardinality(Late)
        /\ table.load + Cardinality(Late) <= (8 * table.size) \div 10 + Overshoot
    BY <1>2, Sizes DEF Inv, LoadOK
  <2>2. table'.load + Cardinality(Late) <= (8 * table.size) \div 10 + Overshoot
    <3>1. (8 * table.size) \div 10 \in Int
      BY Sizes
    <3> QED BY <1>2, <2>1, <3>1, Sizes
  <2>3. table.load <= (8 * table.size) \div 10 + 1 => table'.load <= (8 * table.size) \div 10 + 1
    <3>1. (8 * table.size) \div 10 \in Int
      BY Sizes
    <3> QED BY <1>2, <3>1, Sizes
  <2> QED BY <1>1, <2>2, <2>3 DEF Inv, LoadOK
<1> QED BY <1>3, <1>4, <1>5 DEF Inv

LEMMA HalfRound ==
  ASSUME NEW n \in Nat
  PROVE  /\ (8 * n) \div 10 \in Nat /\ (8 * (2 * n)) \div 10 \in Nat
         /\ n <= (8 * (2 * n)) \div 10 + 1
         /\ (n * 8) \div 10 = (8 * n) \div 10
OBVIOUS

\* The threads that insert late, when a thread begins, goes on or ends.
LEMMA LateIs ==
  ASSUME Inv
  PROVE  /\ \A t \in Thread \ Late : Cardinality(Late) + 1 <= Overshoot
         /\ \A S \in SUBSET Thread : /\ IsFiniteSet(S) /\ Cardinality(S) \in Nat
                                     /\ Cardinality(S) <= Cardinality(Thread)
         /\ \A t \in Thread \ Late : Cardinality(Late) + 1 <= Cardinality(Thread)
         /\ \A t \in Late : Cardinality(Late \ {t}) = Cardinality(Late) - 1
         /\ Late \in SUBSET Thread
         /\ table.size = InitialSize => Late = {}
<1>1. Late \in SUBSET Thread
  BY DEF Late
<1>2. \A S \in SUBSET Thread : /\ IsFiniteSet(S) /\ Cardinality(S) \in Nat
                              /\ Cardinality(S) <= Cardinality(Thread)
  BY Sizes, FS_Subset, FS_CardinalityType
<1>3. ASSUME NEW t \in Thread \ Late PROVE Cardinality(Late) + 1 <= Cardinality(Thread)
  <2>1. Cardinality(Late \cup {t}) = Cardinality(Late) + 1
    BY Sizes, FS_AddElement
  <2>2. Late \cup {t} \in SUBSET Thread
    BY <1>1
  <2> QED BY <1>2, <2>1, <2>2
<1>4. \A t \in Late : Cardinality(Late \ {t}) = Cardinality(Late) - 1
  BY Sizes, FS_RemoveElement
<1>5. table.size = InitialSize => Late = {}
  <2> SUFFICES ASSUME table.size = InitialSize, NEW t \in Late PROVE FALSE
    OBVIOUS
  <2>1. t \in Thread /\ call[t] # Idle /\ call[t].newsize <= table.size
    BY DEF Late
  <2>2. 2 * InitialSize <= call[t].newsize /\ call[t].newsize \in Nat
    BY <2>1 DEF Inv, CallOK, TypeOK, CallType
  <2> QED BY <2>1, <2>2, Sizes
<1>6. ASSUME NEW t \in Thread \ Late PROVE Cardinality(Late) + 1 <= Overshoot
  <2>1. CASE table.lock = "alloc"
    BY <1>3, <2>1 DEF Overshoot
  <2>2. CASE table.lock # "alloc"
    <3>1. Late = {} /\ Cardinality({}) = 0
      BY <2>2, FS_EmptySet DEF Inv, CallOK, Late
    <3> QED BY <2>2, <3>1 DEF Overshoot
  <2> QED BY <2>1, <2>2
<1> QED BY <1>1, <1>2, <1>3, <1>4, <1>5, <1>6

LEMMA InsertKeeps ==
  ASSUME Inv, NEW t \in Thread, NEW k \in Key, NEW v \in Val, HashInsert(t, k, v)
  PROVE  Inv'
<1> DEFINE size == table.size
<1>1. /\ size \in Nat \ {0} /\ table.load \in Nat /\ table.load < size
      /\ Roomy(table) /\ Sound(table) /\ Typed(table)
      /\ table.load = Cardinality(UsedIn(table)) /\ InitialSize \in Nat
      /\ InitialSize <= size /\ Cardinality(Late) \in Nat /\ Overshoot \in Nat
  BY Sizes DEF Inv, LoadOK
<1>2. call[t] = Idle /\ t \notin Late
  BY DEF HashInsert, Running, Late
<1>3. Cardinality(Late) + 1 <= Overshoot
  BY <1>2, LateIs
<1>4. CASE ~ Crowded(table)
  <2>1. Insert(t, table, k, v) /\ UNCHANGED call
    BY <1>4 DEF HashInsert
  <2>2. /\ Sound(table') /\ Typed(table') /\ table'.size = size /\ table'.lock = table.lock
        /\ table'.gen = table.gen /\ table'.load = Cardinality(UsedIn(table'))
        /\ table'.load \in Nat /\ table'.load <= table.load + 1
        /\ pos' \in [Thread -> PosType] /\ \A u \in Thread : PosOK(u)'
    BY <1>1, <2>1, InsertIs
  <2>3. Late' = Late /\ Overshoot' = Overshoot /\ \A u \in Thread : CallOK(u)'
    BY <2>1, <2>2 DEF Late, Overshoot, Inv, CallOK
  <2>4. table.load <= (8 * size) \div 10
    BY <1>1, <1>4, HalfRound DEF Crowded
  <2>5. table'.load <= (8 * size) \div 10 + 1
        /\ table'.load + Cardinality(Late) <= (8 * size) \div 10 + Overshoot
    <3>1. (8 * size) \div 10 \in Nat
      BY <1>1, HalfRound
    <3> QED BY <1>1, <1>3, <2>2, <2>4, <3>1
  <2>6. LoadOK'
    BY <2>2, <2>3, <2>5 DEF LoadOK, Inv
  <2> QED BY <2>1, <2>2, <2>3, <2>6 DEF Inv, TypeOK
<1>5. CASE Crowded(table) /\ table.lock # "alloc"
  <2> DEFINE T == Rehash(table, 2 * size)
  <2>1. Insert(t, T, k, v) /\ UNCHANGED call
    BY <1>5 DEF HashInsert
  <2>2. 2 * size \in Nat /\ size < 2 * size
    BY <1>1
  <2>3. /\ Sound(T) /\ T.size = 2 * size /\ T.lock = table.lock
        /\ T.load = Cardinality(UsedIn(T)) /\ T.load <= table.load /\ T.gen = table.gen + 1
    BY <1>1, <2>2, RehashIs
  <2> HIDE DEF T
  <2>4. T.load \in Nat /\ Roomy(T)
    <3>1. T.load \in Nat
      BY <2>3, UsedIs DEF Sound
    <3>2. Cardinality(UsedIn(T)) < T.size
      BY <1>1, <2>3, <3>1
    <3> QED BY <2>3, <3>1, <3>2, UsedIs DEF Sound
  <2>5. /\ Sound(table') /\ Typed(table') /\ table'.size = 2 * size /\ table'.lock = table.lock
        /\ table'.load = Cardinality(UsedIn(table'))
        /\ table'.load \in Nat /\ table'.load <= T.load + 1
        /\ pos' \in [Thread -> PosType] /\ \A u \in Thread : PosOK(u)'
    <3>1. size <= T.size
      BY <1>1, <2>3
    <3> QED BY <2>1, <2>3, <2>4, <3>1, InsertIs
  <2>6. \A u \in Thread : call[u] = Idle
    BY <1>5 DEF Inv, CallOK
  <2>7. Late' = {} /\ Cardinality({}) = 0 /\ \A u \in Thread : CallOK(u)'
    BY <2>1, <2>6, FS_EmptySet DEF Late, CallOK
  <2>8. table'.load <= size
    BY <1>1, <2>3, <2>4, <2>5
  <2>9. table'.load + 0 <= (8 * (2 * size)) \div 10 + Overshoot
    <3>1. (8 * (2 * size)) \div 10 \in Nat /\ size <= (8 * (2 * size)) \div 10 + 1
      BY <1>1, HalfRound
    <3>2. 1 <= Overshoot
      BY <1>1, <1>3
    <3> QED BY <1>1, <2>5, <2>8, <3>1, <3>2
  <2>10. LoadOK'
    <3>1. Overshoot' = Overshoot
      BY <2>5 DEF Overshoot
    <3> QED BY <1>1, <2>5, <2>7, <2>9, <3>1 DEF LoadOK
  <2> QED BY <2>1, <2>5, <2>7, <2>10 DEF Inv, TypeOK
<1>6. CASE Crowded(table) /\ table.lock = "alloc"
  <2> DEFINE new == [op |-> "resize", key |-> k, val |-> v,
                     newsize |-> 2 * size, ents |-> table.gen]
  <2>1. call' = [call EXCEPT ![t] = new] /\ UNCHANGED <<table, pos>>
    BY <1>6 DEF HashInsert
  <2>2. new \in CallType /\ new # Idle
    BY <1>1, TableAssumption DEF CallType, OpType, Typed, Idle
  <2>3. \A u \in Thread : call'[u] = IF u = t THEN new ELSE call[u]
    BY <2>1 DEF Inv, TypeOK
  <2>4. TypeOK'
    BY <2>1, <2>2 DEF Inv, TypeOK
  <2>5. new.newsize = 2 * size /\ new.op = "resize" /\ new.key = k /\ new.val = v
        /\ new.ents = table.gen
    OBVIOUS
  <2> HIDE DEF new
  <2>6. Late' = Late /\ Overshoot' = Overshoot
    <3>1. ~ (2 * size <= size)
      BY <1>1
    <3> QED BY <1>2, <2>1, <2>3, <2>5, <3>1 DEF Late, Overshoot
  <2>7. \A u \in Thread : CallOK(u)' /\ PosOK(u)'
    <3>1. 2 * InitialSize <= 2 * size
      BY <1>1
    <3> QED BY <1>6, <2>1, <2>3, <2>5, <3>1 DEF Inv, CallOK, PosOK
  <2> QED BY <2>1, <2>4, <2>6, <2>7 DEF Inv, LoadOK
<1> QED BY <1>4, <1>5, <1>6

\* A thread that has taken the lock again resizes what is there now.
LEMMA ResizeIs ==
  ASSUME Inv, NEW t \in Thread, Resize(t)
  PROVE  /\ call[t] # Idle /\ table.lock = "alloc"
         /\ \/ table' = table /\ call[t].newsize <= table.size
            \/ /\ table' = Rehash(table, 2 * table.size)
               /\ call[t].newsize = 2 * table.size
<1>1. call[t] # Idle
  BY DEF Resize, Idle
<1>2. /\ table.lock = "alloc" /\ call[t].newsize \in Nat
      /\ \/ call[t].newsize <= table.size
         \/ /\ call[t].ents = table.gen
            /\ call[t].newsize = 2 * table.size
  BY <1>1 DEF Inv, CallOK, TypeOK, CallType
<1>3. CASE table.size >= call[t].newsize
  BY <1>1, <1>2, <1>3, Sizes DEF Resize
<1>4. CASE ~ (table.size >= call[t].newsize)
  <2>1. call[t].ents = table.gen /\ call[t].newsize = 2 * table.size
    BY <1>2, <1>4, Sizes
  <2> QED BY <1>1, <1>2, <1>4, <2>1 DEF Resize, Old
<1> QED BY <1>3, <1>4

LEMMA ResizeKeeps ==
  ASSUME Inv, NEW t \in Thread, Resize(t)
  PROVE  Inv'
<1> DEFINE size == table.size
           new == [call[t] EXCEPT !.op = "insert"]
<1>1. /\ size \in Nat \ {0} /\ table.load \in Nat /\ table.load < size
      /\ Sound(table) /\ Typed(table) /\ InitialSize \in Nat /\ InitialSize <= size
      /\ table.load = Cardinality(UsedIn(table)) /\ Overshoot \in Nat
  BY Sizes DEF Inv, LoadOK
<1>2. /\ call' = [call EXCEPT ![t] = new] /\ UNCHANGED pos /\ call[t].op = "resize"
  BY DEF Resize
<1>3. /\ call[t] # Idle /\ table.lock = "alloc"
      /\ \/ table' = table /\ call[t].newsize <= size
         \/ /\ table' = Rehash(table, 2 * size)
            /\ call[t].newsize = 2 * size
  BY ResizeIs
<1>4. call \in [Thread -> CallType] /\ \A u \in Thread : CallOK(u) /\ PosOK(u)
  BY DEF Inv, TypeOK
<1>5. /\ new \in CallType /\ new.op = "insert" /\ new.key = call[t].key
      /\ new.val = call[t].val /\ new.newsize = call[t].newsize /\ new # Idle
  <2>1. call[t] \in CallType
    BY <1>4
  <2> QED BY <2>1 DEF CallType, OpType, Idle
<1> HIDE DEF new
<1>6. \A u \in Thread : call'[u] = IF u = t THEN new ELSE call[u]
  BY <1>2, <1>4
<1>7. call' \in [Thread -> CallType]
  BY <1>2, <1>4, <1>5
<1>8. \A u \in Thread :
        /\ (call'[u] # Idle) <=> (call[u] # Idle)
        /\ call'[u].key = call[u].key /\ call'[u].val = call[u].val
        /\ call'[u].newsize = call[u].newsize
        /\ u # t => call'[u] = call[u]
  BY <1>3, <1>5, <1>6
<1>9. CASE table' = table /\ call[t].newsize <= size
  <2>1. Late' = Late /\ Overshoot' = Overshoot
    BY <1>8, <1>9 DEF Late, Overshoot
  <2>2. \A u \in Thread : CallOK(u)' /\ PosOK(u)'
    BY <1>2, <1>3, <1>4, <1>5, <1>6, <1>9 DEF CallOK, PosOK
  <2> QED BY <1>2, <1>7, <1>9, <2>1, <2>2 DEF Inv, TypeOK, LoadOK
<1>10. CASE table' = Rehash(table, 2 * size) /\ call[t].newsize = 2 * size
  <2>1. 2 * size \in Nat /\ size < 2 * size
    BY <1>1
  <2>2. /\ Sound(table') /\ table'.size = 2 * size /\ table'.lock = table.lock
        /\ table'.load = Cardinality(UsedIn(table')) /\ table'.load <= table.load
        /\ Typed(table')
    BY <1>1, <1>10, <2>1, RehashIs DEF Sound
  <2>3. table'.load \in Nat
    BY <2>2, UsedIs
  <2>4. \A u \in Thread : call[u] # Idle => call[u].newsize \in Nat /\ call[u].newsize <= 2 * size
    <3>1. \A u \in Thread : call[u] # Idle => /\ call[u].newsize \in Nat
                            /\ (call[u].newsize <= size \/ call[u].newsize = 2 * size)
      BY <1>4 DEF CallOK, CallType
    <3> QED BY <1>1, <2>1, <3>1
  <2>5. \A u \in Thread : CallOK(u)'
    <3> SUFFICES ASSUME NEW u \in Thread, call'[u] # Idle PROVE CallOK(u)'
      BY DEF CallOK
    <3>1. call[u] # Idle /\ call'[u].newsize <= table'.size
      BY <1>8, <2>2, <2>4
    <3>2. /\ call'[u].op # "idle" /\ call'[u].key \in Key /\ call'[u].val \in Val
          /\ 2 * InitialSize <= call'[u].newsize
      BY <1>4, <1>5, <1>6, <1>8, <3>1 DEF CallOK
    <3> QED BY <1>3, <2>2, <3>1, <3>2 DEF CallOK
  <2>6. \A u \in Thread : PosOK(u)'
    <3>1. Slots(table) \subseteq Slots(table')
      BY <1>1, <2>1, <2>2 DEF Slots
    <3> QED BY <1>2, <1>4, <3>1 DEF PosOK
  <2>7. Cardinality(Late') \in Nat /\ Cardinality(Late') <= Overshoot
    <3>1. Late' \in SUBSET Thread
      BY DEF Late
    <3> QED BY <1>3, <3>1, LateIs DEF Overshoot
  <2>8. table'.load + Cardinality(Late') <= (8 * (2 * size)) \div 10 + Overshoot
    <3>1. (8 * (2 * size)) \div 10 \in Nat /\ size <= (8 * (2 * size)) \div 10 + 1
      BY <1>1, HalfRound
    <3>2. table'.load <= (8 * (2 * size)) \div 10
      BY <1>1, <2>2, <2>3, <3>1
    <3> QED BY <1>1, <2>3, <2>7, <3>1, <3>2
  <2>9. LoadOK'
    <3>1. 2 * InitialSize <= 2 * size
      BY <1>1
    <3>2. Overshoot' = Overshoot
      BY <2>2 DEF Overshoot
    <3> QED BY <2>2, <2>8, <3>1, <3>2 DEF LoadOK
  <2> QED BY <1>2, <1>7, <2>2, <2>5, <2>6, <2>9 DEF Inv, TypeOK
<1> QED BY <1>3, <1>9, <1>10

LEMMA ReturnIs ==
  ASSUME Inv, NEW t \in Thread, Return(t)
  PROVE  /\ call' \in [Thread -> CallType]
         /\ \A u \in Thread : call'[u] = IF u = t THEN Idle ELSE call[u]
<1>1. Idle \in CallType
  BY DEF Idle, CallType, OpType
<1> QED BY <1>1 DEF Return, Inv, TypeOK

LEMMA ResizeFailsKeeps ==
  ASSUME Inv, NEW t \in Thread, ResizeFails(t)
  PROVE  Inv'
<1>1. /\ call' \in [Thread -> CallType] /\ UNCHANGED <<table, pos>>
      /\ \A u \in Thread : call'[u] = IF u = t THEN Idle ELSE call[u]
      /\ table.size < call[t].newsize
  BY ReturnIs DEF ResizeFails
<1>2. ~ (call[t].newsize <= table.size)
  <2>1. call[t].newsize \in Nat
    BY DEF Inv, TypeOK, CallType
  <2> QED BY <1>1, <2>1, Sizes
<1>3. Late' = Late /\ Overshoot' = Overshoot
  BY <1>1, <1>2 DEF Late, Overshoot
<1>4. \A u \in Thread : CallOK(u)' /\ PosOK(u)'
  BY <1>1 DEF Inv, CallOK, PosOK
<1> QED BY <1>1, <1>3, <1>4 DEF Inv, TypeOK, LoadOK

LEMMA InsertResizedKeeps ==
  ASSUME Inv, NEW t \in Thread, InsertResized(t)
  PROVE  Inv'
<1> DEFINE size == table.size
           k == call[t].key
           v == call[t].val
<1>1. /\ size \in Nat \ {0} /\ table.load \in Nat /\ table.load < size
      /\ Roomy(table) /\ Sound(table) /\ Typed(table)
      /\ table.load = Cardinality(UsedIn(table)) /\ InitialSize \in Nat
      /\ InitialSize <= size /\ Cardinality(Late) \in Nat /\ Overshoot \in Nat
      /\ table.load + Cardinality(Late) <= (8 * size) \div 10 + Overshoot
      /\ \/ size = InitialSize
         \/ 2 * InitialSize <= size
  BY Sizes DEF Inv, LoadOK
<1>2. /\ call[t].op = "insert" /\ Insert(t, table, k, v) /\ Return(t) /\ call[t] # Idle
  BY DEF InsertResized, Idle
<1>3. k \in Key /\ v \in Val /\ t \in Late
  BY <1>2 DEF Inv, CallOK, Late
<1>4. /\ call' \in [Thread -> CallType]
      /\ \A u \in Thread : call'[u] = IF u = t THEN Idle ELSE call[u]
  BY <1>2, ReturnIs
<1>5. /\ Sound(table') /\ Typed(table') /\ table'.size = size /\ table'.lock = table.lock
      /\ table'.gen = table.gen /\ table'.load = Cardinality(UsedIn(table'))
      /\ table'.load \in Nat /\ table'.load <= table.load + 1
      /\ pos' \in [Thread -> PosType] /\ \A u \in Thread : PosOK(u)'
  BY <1>1, <1>2, <1>3, InsertIs
<1>6. Late' = Late \ {t} /\ Overshoot' = Overshoot
  BY <1>4, <1>5 DEF Late, Overshoot
<1>7. Cardinality(Late') = Cardinality(Late) - 1
  BY <1>3, <1>6, LateIs
<1>8. \A u \in Thread : CallOK(u)'
  BY <1>4, <1>5 DEF Inv, CallOK
<1>9. table'.load + Cardinality(Late') <= (8 * size) \div 10 + Overshoot
  <2>1. (8 * size) \div 10 \in Nat
    BY <1>1, HalfRound
  <2> QED BY <1>1, <1>5, <1>7, <2>1
<1>10. 2 * InitialSize <= size
  BY <1>1, <1>3, LateIs
<1>11. LoadOK'
  BY <1>5, <1>6, <1>9, <1>10 DEF LoadOK
<1> QED BY <1>4, <1>5, <1>8, <1>11 DEF Inv, TypeOK

\* What a removal, with or without a position, leaves.
LEMMA TakeKeeps ==
  ASSUME Inv, NEW p \in UsedIn(table), table' = Take(table, p), UNCHANGED call,
         pos' \in [Thread -> PosType],
         \A u \in Thread : pos'[u] # NoPos => pos'[u] = pos[u]
  PROVE  Inv'
<1>1. Sound(table) /\ Roomy(table) /\ Typed(table) /\ table.load \in Nat
      /\ table.load = Cardinality(UsedIn(table))
  BY Sizes DEF Inv, LoadOK
<1>2. /\ Sound(table') /\ table'.size = table.size /\ table'.lock = table.lock
      /\ table'.gen = table.gen /\ table'.load = table.load - 1
      /\ \E q \in UsedIn(table) : UsedIn(table') = UsedIn(table) \ {q}
  BY <1>1, TakeIs
<1>3. PICK q \in UsedIn(table) : UsedIn(table') = UsedIn(table) \ {q}
  BY <1>2
<1>4. Cardinality(UsedIn(table')) = table.load - 1
  BY <1>1, <1>3, UsedLess
<1>5. table'.load <= table.load
  BY <1>1, <1>2
<1>6. \A u \in Thread : PosOK(u)'
  BY <1>2 DEF Inv, PosOK, Slots
<1> QED BY <1>2, <1>4, <1>5, <1>6, InvKept

LEMMA SameKeeps ==
  ASSUME Inv, table' = table, UNCHANGED call,
         pos' \in [Thread -> PosType],
         \A u \in Thread : pos'[u] # NoPos => pos'[u] = pos[u]
  PROVE  Inv'
<1>1. \A u \in Thread : PosOK(u)'
  BY DEF Inv, PosOK
<1>2. table.load <= table.load
  BY Sizes
<1> QED BY <1>1, <1>2, InvKept DEF Inv, LoadOK

\* What fz_hash_remove does to the table.
LEMMA RemovedIs ==
  ASSUME Inv, NEW k \in Key
  PROVE  \/ Find(table, k) = NoVal /\ Removed(table, k) = table
         \/ /\ Find(table, k) # NoVal /\ Probe(table, k) \in UsedIn(table)
            /\ table.ents[Probe(table, k)].key = k
            /\ Removed(table, k) = Take(table, Probe(table, k))
<1>1. Sound(table) /\ Roomy(table)
  BY Sizes
<1>2. PICK q \in Slots(table) : table.ents[q] = Empty
  BY <1>1 DEF Roomy
<1>3. Probe(table, k) \in Slots(table)
  BY <1>1, <1>2, ProbeFinds DEF Empty
<1> QED BY <1>1, <1>3, FindIs DEF Removed, UsedIn

LEMMA HashRemoveKeeps ==
  ASSUME Inv, NEW t \in Thread, NEW k \in Key, HashRemove(t, k)
  PROVE  Inv'
<1>1. table' = Removed(table, k) /\ UNCHANGED <<call, pos>>
  BY DEF HashRemove
<1>2. /\ pos' \in [Thread -> PosType]
      /\ \A u \in Thread : pos'[u] # NoPos => pos'[u] = pos[u]
  BY <1>1 DEF Inv, TypeOK
<1> QED BY <1>1, <1>2, RemovedIs, TakeKeeps, SameKeeps

LEMMA PosForgotten ==
  ASSUME Inv, NEW t \in Thread, pos' = [pos EXCEPT ![t] = NoPos]
  PROVE  /\ pos' \in [Thread -> PosType]
         /\ \A u \in Thread : pos'[u] # NoPos => pos'[u] = pos[u]
<1>1. NoPos \in PosType
  BY DEF NoPos, PosType
<1> QED BY <1>1 DEF Inv, TypeOK

\* The slot that a returned position says: the key's, or the slow way is taken.
LEMMA FastIs ==
  ASSUME Inv, NEW t \in Thread, HashRemoveFast(t)
  PROVE  /\ pos[t].key \in Key
         /\ \/ table' = Removed(table, pos[t].key)
            \/ /\ pos[t].at \in UsedIn(table) /\ table' = Take(table, pos[t].at)
               /\ table.ents[pos[t].at].key = pos[t].key
<1>1. pos[t].key \in Key /\ pos[t].at \in Slots(table)
  BY DEF HashRemoveFast, Inv, PosOK
<1>2. table.ents[pos[t].at].key = pos[t].key => pos[t].at \in UsedIn(table)
  BY <1>1, TableAssumption DEF UsedIn, Empty
<1> QED BY <1>1, <1>2 DEF HashRemoveFast

LEMMA HashRemoveFastKeeps ==
  ASSUME Inv, NEW t \in Thread, HashRemoveFast(t)
  PROVE  Inv'
<1>1. UNCHANGED call /\ pos' = [pos EXCEPT ![t] = NoPos]
  BY DEF HashRemoveFast
<1>2. /\ pos' \in [Thread -> PosType]
      /\ \A u \in Thread : pos'[u] # NoPos => pos'[u] = pos[u]
  BY <1>1, PosForgotten
<1> QED BY <1>1, <1>2, FastIs, RemovedIs, TakeKeeps, SameKeeps

LEMMA ForgetKeeps ==
  ASSUME Inv, NEW t \in Thread, Forget(t)
  PROVE  Inv'
BY PosForgotten, SameKeeps DEF Forget

LEMMA EmptyIs ==
  ASSUME Inv, NEW t \in Thread, EmptyHash(t)
  PROVE  /\ Sound(table') /\ table'.size = table.size /\ table'.lock = table.lock
         /\ table'.gen = table.gen /\ table'.load = 0
         /\ Cardinality(UsedIn(table')) = 0 /\ \A e \in EntryType : ~ Has(table', e)
<1>1. table' = WithEnts(table, NoEnts(table.size), 0)
  BY DEF EmptyHash, WithEnts
<1>2. /\ NoEnts(table.size) \in [0..table.size - 1 -> SlotType]
      /\ \A x \in 0..table.size - 1 : NoEnts(table.size)[x] = Empty
  BY Sizes, NoEntsIs
<1>3. /\ Typed(table') /\ table'.ents = NoEnts(table.size) /\ table'.load = 0
      /\ table'.size = table.size /\ table'.lock = table.lock /\ table'.gen = table.gen
  BY <1>1, <1>2, Sizes, WithEntsIs
<1>4. \A x \in Slots(table') : table'.ents[x] = Empty
  BY <1>2, <1>3 DEF Slots
<1> QED BY <1>3, <1>4, NewIs

LEMMA EmptyHashKeeps ==
  ASSUME Inv, NEW t \in Thread, EmptyHash(t)
  PROVE  Inv'
<1>1. UNCHANGED <<call, pos>>
  BY DEF EmptyHash
<1>2. \A u \in Thread : PosOK(u)'
  BY <1>1, EmptyIs DEF Inv, PosOK, Slots
<1>3. 0 <= table.load
  BY Sizes
<1> QED BY <1>1, <1>2, <1>3, EmptyIs, InvKept DEF Inv, TypeOK

LEMMA InitInv == Init => Inv
<1> SUFFICES ASSUME Init PROVE Inv
  OBVIOUS
<1>1. PICK lock \in Locks :
        table = [ents |-> NoEnts(InitialSize), size |-> InitialSize,
                 load |-> 0, lock |-> lock, gen |-> 0]
  BY DEF Init
<1>2. InitialSize \in Nat \ {0}
  BY TableAssumption
<1>3. Typed(table) /\ \A x \in Slots(table) : table.ents[x] = Empty
  BY <1>1, <1>2, NoEntsIs DEF Typed, Slots
<1>4. Sound(table) /\ Cardinality(UsedIn(table)) = 0
  BY <1>3, NewIs
<1>5. call \in [Thread -> CallType] /\ pos \in [Thread -> PosType]
  BY DEF Init, Idle, NoPos, CallType, PosType, OpType
<1>6. \A t \in Thread : CallOK(t) /\ PosOK(t) /\ call[t] = Idle
  BY DEF Init, CallOK, PosOK
<1>7. Late = {} /\ Cardinality({}) = 0
  BY <1>6, FS_EmptySet DEF Late
<1>8. Overshoot \in Nat /\ (8 * InitialSize) \div 10 \in Nat
  BY <1>2, FewThreads, FS_CardinalityType, HalfRound DEF Overshoot
<1>9. 0 <= (8 * InitialSize) \div 10 + 1
      /\ 0 + 0 <= (8 * InitialSize) \div 10 + Overshoot
  BY <1>8
<1>10. LoadOK
  BY <1>1, <1>4, <1>7, <1>9 DEF LoadOK
<1> QED BY <1>3, <1>4, <1>5, <1>6, <1>10 DEF Inv, TypeOK

LEMMA NextInv == Inv /\ [Next]_vars => Inv'
<1> SUFFICES ASSUME Inv, [Next]_vars PROVE Inv'
  OBVIOUS
<1>1. CASE UNCHANGED vars
  <2>1. pos \in [Thread -> PosType]
    BY DEF Inv, TypeOK
  <2> QED BY <1>1, <2>1, SameKeeps DEF vars
<1>2. ASSUME NEW t \in Thread, NEW k \in Key, NEW v \in Val, HashInsert(t, k, v)
      PROVE  Inv'
  BY <1>2, InsertKeeps
<1>3. ASSUME NEW t \in Thread, NEW k \in Key, HashRemove(t, k)
      PROVE  Inv'
  BY <1>3, HashRemoveKeeps
<1>4. ASSUME NEW t \in Thread, Resize(t) PROVE Inv'
  BY <1>4, ResizeKeeps
<1>5. ASSUME NEW t \in Thread, ResizeFails(t) PROVE Inv'
  BY <1>5, ResizeFailsKeeps
<1>6. ASSUME NEW t \in Thread, InsertResized(t) PROVE Inv'
  BY <1>6, InsertResizedKeeps
<1>7. ASSUME NEW t \in Thread, HashRemoveFast(t) PROVE Inv'
  BY <1>7, HashRemoveFastKeeps
<1>8. ASSUME NEW t \in Thread, Forget(t) PROVE Inv'
  BY <1>8, ForgetKeeps
<1>9. ASSUME NEW t \in Thread, EmptyHash(t) PROVE Inv'
  BY <1>9, EmptyHashKeeps
<1> QED BY <1>1, <1>2, <1>3, <1>4, <1>5, <1>6, <1>7, <1>8, <1>9 DEF Next

\* The table is sound, and no thread is more than a resize behind, in every
\* state: the invariant that the theorems below rest on.
THEOREM StaysSound == Spec => []Inv
<1>1. Init => Inv
  BY InitInv
<1>2. Inv /\ [Next]_vars => Inv'
  BY NextInv
<1> QED BY <1>1, <1>2, PTL DEF Spec

\* fz_hash_find, fz_hash_insert and fz_hash_remove reach every entry where it
\* is: no removal and no resize leaves a hole before it.
THEOREM AlwaysReachable == Spec => []Reachable
<1>1. Inv => Reachable
  <2> SUFFICES ASSUME Inv, NEW p \in Used PROVE Probe(table, table.ents[p].key) = p
    BY DEF Reachable
  <2>1. p \in Slots(table) /\ table.ents[p] # Empty /\ table.ents[p] \in SlotType
    BY Sizes DEF Used, Slots, Typed
  <2>2. table.ents[p].key \in Key
    BY <2>1, SlotIs
  <2> QED BY <2>1, <2>2, Sizes, ProbeFinds
<1> QED BY <1>1, StaysSound, PTL

\* table->load is the number of entries and there is always an empty slot, so
\* that the probes of hash.c end.
THEOREM AlwaysRoom == Spec => []NeverFull
<1>1. Inv => NeverFull
  <2> SUFFICES ASSUME Inv PROVE NeverFull
    OBVIOUS
  <2>1. Used = UsedIn(table)
    BY DEF Used, UsedIn, Slots
  <2> QED BY <2>1, Sizes DEF NeverFull, Inv, LoadOK
<1> QED BY <1>1, StaysSound, PTL

-----------------------------------------------------------------------------
(* The table as a map                                                      *)

LEMMA FindSame ==
  ASSUME NEW T, NEW U, Sound(T), Roomy(T), Sound(U), Roomy(U), NEW k \in Key,
         \A v \in Val : Has(U, [key |-> k, val |-> v]) <=> Has(T, [key |-> k, val |-> v])
  PROVE  Find(U, k) = Find(T, k)
<1>1. /\ Find(T, k) \in Val \cup {NoVal}
      /\ \A v \in Val : Find(T, k) = v <=> Has(T, [key |-> k, val |-> v])
  BY FindIs
<1>2. /\ Find(U, k) \in Val \cup {NoVal}
      /\ \A v \in Val : Find(U, k) = v <=> Has(U, [key |-> k, val |-> v])
  BY FindIs
<1> QED BY <1>1, <1>2

LEMMA PutFinds ==
  ASSUME NEW T, Sound(T), Roomy(T), NEW k \in Key, NEW v \in Val, Roomy(Put(T, k, v))
  PROVE  /\ Find(T, k) # NoVal => Put(T, k, v) = T
         /\ Find(T, k) = NoVal =>
              \A j \in Key : Find(Put(T, k, v), j) = IF j = k THEN v ELSE Find(T, j)
<1> DEFINE U == Put(T, k, v)
           E(j, w) == [key |-> j, val |-> w]
<1>1. /\ Sound(U) /\ (Find(T, k) # NoVal => U = T)
      /\ \A e \in EntryType :
           Has(U, e) <=> Has(T, e) \/ (e = E(k, v) /\ Find(T, k) = NoVal)
  BY PutIs
<1> HIDE DEF U
<1>2. ASSUME Find(T, k) = NoVal, NEW j \in Key
      PROVE  Find(U, j) = IF j = k THEN v ELSE Find(T, j)
  <2>1. CASE j = k
    <3>1. Has(U, E(k, v))
      BY <1>1, <1>2 DEF EntryType
    <3> QED BY <1>1, <2>1, <3>1, FindIs DEF U
  <2>2. CASE j # k
    <3>1. \A w \in Val : E(j, w) \in EntryType /\ E(j, w) # E(k, v)
      BY <2>2 DEF EntryType
    <3>2. \A w \in Val : Has(U, E(j, w)) <=> Has(T, E(j, w))
      BY <1>1, <3>1
    <3> QED BY <1>1, <2>2, <3>2, FindSame DEF U
  <2> QED BY <2>1, <2>2
<1> QED BY <1>1, <1>2 DEF U

LEMMA TakeFinds ==
  ASSUME NEW T, Sound(T), Roomy(T), NEW hole \in UsedIn(T), NEW k \in Key
  PROVE  Find(Take(T, hole), k) = IF k = T.ents[hole].key THEN NoVal ELSE Find(T, k)
<1> DEFINE U == Take(T, hole)
           E(w) == [key |-> k, val |-> w]
<1>1. /\ Sound(U) /\ U.size = T.size
      /\ \E p \in UsedIn(T) : UsedIn(U) = UsedIn(T) \ {p}
      /\ \A e \in EntryType : Has(U, e) <=> Has(T, e) /\ e # T.ents[hole]
  BY TakeIs
<1> HIDE DEF U
<1>2. Roomy(U)
  BY <1>1 DEF Roomy, UsedIn, Slots
<1>3. \A w \in Val : E(w) \in EntryType /\ E(w).key = k
  BY DEF EntryType
<1>4. CASE k = T.ents[hole].key
  <2>1. ASSUME NEW w \in Val, Has(T, E(w)) PROVE E(w) = T.ents[hole]
    <3>1. PICK p \in Slots(T) : T.ents[p] = E(w)
      BY <2>1 DEF Has
    <3>2. p \in UsedIn(T) /\ T.ents[p].key = T.ents[hole].key
      BY <1>3, <1>4, <3>1, SlotIs DEF UsedIn
    <3> QED BY <3>1, <3>2 DEF Sound, Unique
  <2>2. \A w \in Val : ~ Has(U, E(w))
    BY <1>1, <1>3, <2>1
  <2>3. Find(U, k) \in Val \cup {NoVal} /\ \A w \in Val : Find(U, k) # w
    BY <1>1, <1>2, <2>2, FindIs
  <2> QED BY <1>4, <2>3 DEF U
<1>5. CASE k # T.ents[hole].key
  <2>1. \A w \in Val : Has(U, E(w)) <=> Has(T, E(w))
    BY <1>1, <1>3, <1>5
  <2> QED BY <1>1, <1>2, <1>5, <2>1, FindSame DEF U
<1> QED BY <1>4, <1>5

Map == [k \in Key |-> Find(table, k)]
Clears == table.lock # "alloc"

LEMMA RoomyNext == Inv' => Roomy(table)'
<1>1. Inv => Roomy(table)
  BY Sizes
<1> QED BY <1>1, PTL

LEMMA RemovedFinds ==
  ASSUME Inv, NEW k \in Key, table' = Removed(table, k)
  PROVE  \A j \in Key : Find(table', j) = IF j = k THEN NoVal ELSE Find(table, j)
<1>1. CASE Find(table, k) = NoVal /\ table' = table
  BY <1>1
<1>2. CASE /\ Probe(table, k) \in UsedIn(table) /\ table.ents[Probe(table, k)].key = k
           /\ table' = Take(table, Probe(table, k))
  BY <1>2, Sizes, TakeFinds
<1> QED BY <1>1, <1>2, RemovedIs

LEMMA FastFinds ==
  ASSUME Inv, NEW t \in Thread, HashRemoveFast(t)
  PROVE  /\ pos[t].key \in Key
         /\ \A j \in Key : Find(table', j) = IF j = pos[t].key THEN NoVal ELSE Find(table, j)
<1>1. CASE table' = Removed(table, pos[t].key)
  BY <1>1, FastIs, RemovedFinds
<1>2. CASE /\ pos[t].at \in UsedIn(table) /\ table' = Take(table, pos[t].at)
           /\ table.ents[pos[t].at].key = pos[t].key
  <2>1. pos[t].key \in Key
    BY FastIs
  <2> QED BY <1>2, <2>1, Sizes, TakeFinds
<1> QED BY <1>1, <1>2, FastIs

\* fz_hash_remove_fast removes its key and no other, though the position it is
\* given is from before the lock was given up.
THEOREM FastRemovesItsOwn == Spec => RemovesItsOwn
<1>1. Inv /\ [Next]_vars => [\A t \in Thread : HashRemoveFast(t) =>
         \A k \in Key : Find(table', k) = IF k = pos[t].key THEN NoVal
                                          ELSE Find(table, k)]_vars
  BY FastFinds
<1> QED BY <1>1, StaysSound, PTL DEF Spec, RemovesItsOwn

\* What can be found is as before.
LEMMA MapSame ==
  ASSUME \A j \in Key : Find(table', j) = Find(table, j)
  PROVE  Map' = Map
BY DEF Map

LEMMA MapRemove ==
  ASSUME Inv, NEW k \in Key, table'.lock = table.lock,
         \A j \in Key : Find(table', j) = IF j = k THEN NoVal ELSE Find(table, j)
  PROVE  Abstract!Remove(k) \/ UNCHANGED <<Map, Clears>>
<1>1. CASE Find(table, k) = NoVal
  BY <1>1, MapSame DEF Clears
<1>2. CASE Find(table, k) # NoVal
  BY <1>2 DEF Abstract!Remove
<1> QED BY <1>1, <1>2

\* An insertion into a table T in which the same can be found.
LEMMA MapInsert ==
  ASSUME Inv, Inv', NEW t \in Thread, NEW T, NEW k \in Key, NEW v \in Val,
         Sound(T), Roomy(T), \A j \in Key : Find(T, j) = Find(table, j),
         Insert(t, T, k, v), table'.lock = table.lock
  PROVE  Abstract!Insert(k, v) \/ UNCHANGED <<Map, Clears>>
<1>1. table' = Put(T, k, v) /\ Roomy(table')
  BY RoomyNext DEF Insert
<1>2. /\ Find(T, k) # NoVal => table' = T
      /\ Find(T, k) = NoVal =>
           \A j \in Key : Find(table', j) = IF j = k THEN v ELSE Find(T, j)
  BY <1>1, PutFinds
<1>3. CASE Find(table, k) = NoVal
  BY <1>2, <1>3 DEF Abstract!Insert
<1>4. CASE Find(table, k) # NoVal
  BY <1>2, <1>4, MapSame DEF Clears
<1> QED BY <1>3, <1>4

LEMMA RehashFinds ==
  ASSUME Inv
  PROVE  /\ Sound(Rehash(table, 2 * table.size)) /\ Roomy(Rehash(table, 2 * table.size))
         /\ Rehash(table, 2 * table.size).lock = table.lock
         /\ \A j \in Key : Find(Rehash(table, 2 * table.size), j) = Find(table, j)
<1> DEFINE T == Rehash(table, 2 * table.size)
<1>1. /\ table.size \in Nat \ {0} /\ table.load < table.size /\ Sound(table)
      /\ table.load = Cardinality(UsedIn(table)) /\ table.load \in Nat /\ Roomy(table)
      /\ 2 * table.size \in Nat /\ table.size < 2 * table.size
  BY Sizes DEF Inv, LoadOK
<1>2. /\ Sound(T) /\ T.size = 2 * table.size /\ T.lock = table.lock
      /\ T.load = Cardinality(UsedIn(T)) /\ T.load <= table.load
      /\ \A e \in EntryType : Has(T, e) <=> Has(table, e)
  BY <1>1, RehashIs
<1> HIDE DEF T
<1>3. Roomy(T)
  BY <1>1, <1>2, UsedIs DEF Sound
<1>4. \A j \in Key : Find(T, j) = Find(table, j)
  <2>1. \A j \in Key, v \in Val : [key |-> j, val |-> v] \in EntryType
    BY DEF EntryType
  <2> QED BY <1>1, <1>2, <1>3, <2>1, FindSame
<1> QED BY <1>2, <1>3, <1>4 DEF T

LEMMA StepMap ==
  ASSUME Inv, Inv', [Next]_vars
  PROVE  Abstract!Next \/ UNCHANGED <<Map, Clears>>
<1>1. CASE UNCHANGED vars
  BY <1>1 DEF vars, Map, Clears
<1>2. ASSUME NEW t \in Thread, NEW k \in Key, NEW v \in Val, HashInsert(t, k, v)
      PROVE  Abstract!Insert(k, v) \/ UNCHANGED <<Map, Clears>>
  <2>1. CASE Insert(t, table, k, v)
    <3>1. Sound(table) /\ Roomy(table)
      BY Sizes
    <3>2. table'.lock = table.lock
      BY <2>1, <3>1, PutIs DEF Insert
    <3> QED BY <2>1, <3>1, <3>2, MapInsert
  <2>2. CASE Insert(t, Rehash(table, 2 * table.size), k, v)
    <3>1. table'.lock = table.lock
      BY <2>2, RehashFinds, PutIs DEF Insert
    <3> QED BY <2>2, <3>1, RehashFinds, MapInsert
  <2>3. CASE UNCHANGED table
    BY <2>3, MapSame DEF Clears
  <2> QED BY <1>2, <2>1, <2>2, <2>3 DEF HashInsert
<1>3. ASSUME NEW t \in Thread, NEW k \in Key, HashRemove(t, k)
      PROVE  Abstract!Remove(k) \/ UNCHANGED <<Map, Clears>>
  <2>1. table' = Removed(table, k)
    BY <1>3 DEF HashRemove
  <2>2. table'.lock = table.lock
    BY <2>1, Sizes, RemovedIs, TakeIs
  <2> QED BY <2>1, <2>2, RemovedFinds, MapRemove
<1>4. ASSUME NEW t \in Thread, Resize(t)
      PROVE  UNCHANGED <<Map, Clears>>
  <2>1. CASE table' = table
    BY <2>1, MapSame DEF Clears
  <2>2. CASE table' = Rehash(table, 2 * table.size)
    BY <2>2, RehashFinds, MapSame DEF Clears
  <2> QED BY <1>4, <2>1, <2>2, ResizeIs
<1>5. ASSUME NEW t \in Thread, ResizeFails(t)
      PROVE  UNCHANGED <<Map, Clears>>
  BY <1>5, MapSame DEF ResizeFails, Clears
<1>6. ASSUME NEW t \in Thread, InsertResized(t)
      PROVE  \/ UNCHANGED <<Map, Clears>>
             \/ \E k \in Key, v \in Val : Abstract!Insert(k, v)
  <2>1. /\ call[t].key \in Key /\ call[t].val \in Val
        /\ Insert(t, table, call[t].key, call[t].val)
    BY <1>6 DEF InsertResized, Inv, CallOK, Idle
  <2>2. Sound(table) /\ Roomy(table)
    BY Sizes
  <2>3. table'.lock = table.lock
    BY <2>1, <2>2, PutIs DEF Insert
  <2> QED BY <2>1, <2>2, <2>3, MapInsert
<1>7. ASSUME NEW t \in Thread, HashRemoveFast(t)
      PROVE  \/ UNCHANGED <<Map, Clears>>
             \/ \E k \in Key : Abstract!Remove(k)
  <2>1. table'.lock = table.lock
    BY <1>7, Sizes, FastIs, RemovedIs, TakeIs
  <2> QED BY <1>7, <2>1, FastFinds, MapRemove
<1>8. ASSUME NEW t \in Thread, Forget(t)
      PROVE  UNCHANGED <<Map, Clears>>
  BY <1>8, MapSame DEF Forget, Clears
<1>9. ASSUME NEW t \in Thread, EmptyHash(t)
      PROVE  Abstract!Clear
  <2>1. /\ Sound(table') /\ table'.lock = table.lock /\ table.lock # "alloc"
        /\ \A e \in EntryType : ~ Has(table', e)
    BY <1>9, EmptyIs DEF EmptyHash
  <2>2. Roomy(table')
    BY RoomyNext
  <2>3. \A k \in Key : Find(table', k) = NoVal
    <3>1. \A k \in Key, v \in Val : ~ Has(table', [key |-> k, val |-> v])
      BY <2>1 DEF EntryType
    <3> QED BY <2>1, <2>2, <3>1, FindIs
  <2> QED BY <2>1, <2>3 DEF Abstract!Clear, Abstract!NoEntries
<1> QED BY <1>1, <1>2, <1>3, <1>4, <1>5, <1>6, <1>7, <1>8, <1>9 DEF Next, Abstract!Next

\* hash.c implements the map that hash.h promises: HashTable implements KeyMap.
THEOREM ImplementsMap == Spec => IsMap
<1>1. Init => Abstract!Init
  <2> SUFFICES ASSUME Init PROVE Abstract!Init
    OBVIOUS
  <2>1. Inv
    BY InitInv
  <2>2. ASSUME NEW k \in Key PROVE Find(table, k) = NoVal
    <3>1. \A x \in Slots(table) : table.ents[x] = Empty
      <4>1. table.ents = NoEnts(InitialSize) /\ table.size = InitialSize
        BY DEF Init
      <4> QED BY <4>1, TableAssumption, NoEntsIs DEF Slots
    <3> QED BY <2>1, <3>1, Sizes, ProbeFinds, FindIs DEF Roomy, Empty
  <2> QED BY <2>2 DEF Abstract!Init, Abstract!NoEntries
<1>2. Inv /\ Inv' /\ [Next]_vars
        => [Abstract!Next]_<<[k \in Key |-> Find(table, k)], table.lock # "alloc">>
  BY StepMap DEF Map, Clears
<1> QED BY <1>1, <1>2, StaysSound, PTL DEF Spec, IsMap, Abstract!Spec
=============================================================================
