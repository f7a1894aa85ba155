---------------------------- MODULE StoreProofs ----------------------------
(* What holds of the resource store for any number of threads, items,      *)
(* values and keys, and for any size of the store and of the integers: the *)
(* types; that the reference counts are exact, and what hangs on them:     *)
(* what is held, pinned or being stored is not evicted, list and hash      *)
(* agree, nothing is freed in use and nothing is leaked; and the size.     *)
(*                                                                         *)
(* The invariant is a predicate of a store, the clients' variables and the *)
(* calls, rather than of the variables, so that it can be claimed of the   *)
(* states in the middle of a stretch as well: a step is a few of the       *)
(* changes below, one after the other, and each of them preserves it.      *)
EXTENDS Store, TLAPS, FiniteSetTheorems, SequenceTheorems, WellFoundedInduction

\* A non-empty set of naturals has a least element, and a bounded one a
\* greatest.
LEMMA MinIsIn ==
  ASSUME NEW T \in SUBSET Nat, T # {}
  PROVE  Min(T) \in T /\ \A y \in T : Min(T) <= y
<1>1. PICK x \in T : \A y \in T : ~ (<<y, x>> \in OpToRel(<, Nat))
  BY NatLessThanWellFounded, WFMin
<1>2. \A y \in T : ~ (y < x)
  BY <1>1, Zenon DEF OpToRel
<1>3. \A y \in T : x <= y
  BY <1>2
<1> QED BY <1>3 DEF Min

LEMMA MaxIsIn ==
  ASSUME NEW n \in Nat, NEW T \in SUBSET (0..n), T # {}
  PROVE  Max(T) \in T /\ \A y \in T : y <= Max(T)
<1> DEFINE U == {n - y : y \in T}
<1>1. U \in SUBSET Nat /\ U # {}
  <2>1. \A y \in T : n - y \in Nat
    OBVIOUS
  <2> QED BY <2>1
<1>2. Min(U) \in U /\ \A y \in U : Min(U) <= y
  BY <1>1, MinIsIn
<1>3. PICK x \in T : Min(U) = n - x
  BY <1>2
<1>4. \A y \in T : y <= x
  <2>1. \A y \in T : n - x <= n - y
    BY <1>2, <1>3
  <2> QED BY <2>1
<1> QED BY <1>4 DEF Max

LEMMA UIntType == \A n \in Int : UInt(n) \in 0..UIntMax
  BY ConstantsAssumption DEF UInt

-----------------------------------------------------------------------------
(* The LRU list                                                            *)

LEMMA PositionIs ==
  ASSUME NEW s \in StoreType, NEW i \in Listed(s)
  PROVE  Position(s, i) \in 1..Len(s.lru) /\ s.lru[Position(s, i)] = i
  BY DEF StoreType, Listed, Position, Range

LEMMA WithoutIs ==
  ASSUME NEW s \in StoreType, NEW i \in Item
  PROVE  /\ Without(s, i) \in Seq(Item)
         /\ IsInjective(s.lru) => /\ IsInjective(Without(s, i))
                                  /\ Range(Without(s, i)) = Listed(s) \ {i}
<1>1. CASE i \notin Listed(s)
  BY <1>1 DEF Without, StoreType, Listed
<1>2. CASE i \in Listed(s)
  <2> DEFINE q == s.lru
             n == Position(s, i)
             w == Without(s, i)
  <2>1. q \in Seq(Item) /\ n \in 1..Len(q) /\ q[n] = i
    BY <1>2, PositionIs DEF StoreType
  <2> HIDE DEF n
  <2>2. w = SubSeq(q, 1, n - 1) \o SubSeq(q, n + 1, Len(q))
    BY <1>2 DEF Without, RemoveAt, n
  <2>3. /\ w \in Seq(Item)
        /\ Len(w) = Len(q) - 1
        /\ \A m \in 1..Len(w) : w[m] = IF m < n THEN q[m] ELSE q[m + 1]
    <3> DEFINE a == SubSeq(q, 1, n - 1)
               b == SubSeq(q, n + 1, Len(q))
    <3>1. a \in Seq(Item) /\ Len(a) = n - 1 /\ \A m \in 1..n - 1 : a[m] = q[m]
      BY <2>1
    <3>2. /\ b \in Seq(Item) /\ Len(b) = Len(q) - n
          /\ \A m \in 1..Len(q) - n : b[m] = q[n + m]
      BY <2>1
    <3>3. w = a \o b
      BY <2>2
    <3> HIDE DEF a, b, w
    <3>4. /\ w \in Seq(Item)
          /\ Len(w) = Len(a) + Len(b)
          /\ \A m \in 1..Len(a) + Len(b) :
               w[m] = IF m <= Len(a) THEN a[m] ELSE b[m - Len(a)]
      BY <3>1, <3>2, <3>3, ConcatProperties
    <3>5. Len(w) = Len(q) - 1
      BY <2>1, <3>1, <3>2, <3>4
    <3>6. ASSUME NEW m \in 1..Len(w)
          PROVE  w[m] = IF m < n THEN q[m] ELSE q[m + 1]
      <4>1. CASE m < n
        BY <4>1, <2>1, <3>1, <3>2, <3>4
      <4>2. CASE m >= n
        <5>1. m - (n - 1) \in 1..Len(q) - n /\ n + (m - (n - 1)) = m + 1
          BY <4>2, <2>1, <3>5
        <5> QED BY <4>2, <5>1, <2>1, <3>1, <3>2, <3>4
      <4> QED BY <4>1, <4>2, <2>1
    <3> QED BY <3>4, <3>5, <3>6
  <2>4. ASSUME IsInjective(q)
        PROVE  IsInjective(w) /\ Range(w) = Listed(s) \ {i}
    <3>1. IsInjective(w)
      BY <2>1, <2>3, <2>4 DEF IsInjective
    <3>2. Range(w) \subseteq Listed(s) \ {i}
      BY <2>1, <2>3, <2>4 DEF IsInjective, Range, Listed
    <3>3. ASSUME NEW m \in 1..Len(q), q[m] # i
          PROVE  q[m] \in Range(w)
      <4>1. CASE m < n
        BY <4>1, <2>1, <2>3, <3>3 DEF Range
      <4>2. CASE m > n
        <5>1. m - 1 \in 1..Len(w) /\ w[m - 1] = q[m]
          BY <4>2, <2>1, <2>3
        <5> QED BY <5>1, <2>3 DEF Range
      <4> QED BY <4>1, <4>2, <2>1, <3>3
    <3>4. Listed(s) = {q[m] : m \in 1..Len(q)}
      BY <2>1 DEF Listed, Range
    <3>5. Listed(s) \ {i} \subseteq Range(w)
      BY <3>3, <3>4
    <3> QED BY <3>1, <3>2, <3>5
  <2> QED BY <2>3, <2>4
<1> QED BY <1>1, <1>2

LEMMA ToHeadIs ==
  ASSUME NEW s \in StoreType, NEW i \in Item
  PROVE  /\ ToHead(s, i) \in Seq(Item)
         /\ IsInjective(s.lru) => /\ IsInjective(ToHead(s, i))
                                  /\ Range(ToHead(s, i)) = Listed(s) \cup {i}
<1> DEFINE w == Without(s, i)
           h == ToHead(s, i)
<1>1. w \in Seq(Item) /\ <<i>> \in Seq(Item) /\ Len(<<i>>) = 1 /\ <<i>>[1] = i
  BY WithoutIs
<1>2. h = <<i>> \o w
  BY DEF ToHead
<1>3. IsInjective(s.lru) => IsInjective(w) /\ Range(w) = Listed(s) \ {i}
  BY WithoutIs
<1> HIDE DEF w, h
<1>4. /\ h \in Seq(Item) /\ Len(h) = 1 + Len(w)
      /\ \A m \in 1..Len(h) : h[m] = IF m = 1 THEN i ELSE w[m - 1]
  BY <1>1, <1>2, ConcatProperties
<1>5. ASSUME IsInjective(s.lru)
      PROVE  IsInjective(h) /\ Range(h) = Listed(s) \cup {i}
  <2>1. \A m \in 1..Len(w) : w[m] # i
    <3>1. \A m \in 1..Len(w) : w[m] \in Range(w)
      BY <1>1 DEF Range
    <3> QED BY <3>1, <1>3, <1>5
  <2>2. IsInjective(h)
    BY <1>1, <1>3, <1>4, <1>5, <2>1 DEF IsInjective
  <2>3. Range(h) = Range(<<i>>) \cup Range(w)
    BY <1>1, <1>2, RangeConcatenation
  <2>4. Range(<<i>>) = {i}
    BY <1>1 DEF Range
  <2>5. Listed(s) \cup {i} = {i} \cup (Listed(s) \ {i})
    OBVIOUS
  <2> QED BY <1>3, <1>5, <2>2, <2>3, <2>4, <2>5
<1> QED BY <1>4, <1>5 DEF h

LEMMA PrevIs ==
  ASSUME NEW s \in StoreType, NEW i \in Listed(s)
  PROVE  Prev(s, i) \in Listed(s) \cup {NoItem}
<1>1. Position(s, i) \in 1..Len(s.lru) /\ s.lru \in Seq(Item)
  BY PositionIs DEF StoreType
<1>2. CASE Position(s, i) # 1
  <2>1. Position(s, i) - 1 \in 1..Len(s.lru)
    BY <1>1, <1>2
  <2> QED BY <1>1, <1>2, <2>1 DEF Prev, Listed, Range
<1> QED BY <1>2 DEF Prev

LEMMA ListedIsItem == \A s \in StoreType : Listed(s) \subseteq Item
  BY DEF StoreType, Listed, Range

LEMMA VictimIs ==
  ASSUME NEW s \in StoreType, NEW i, Victim(s, i) # NoItem
  PROVE  Victim(s, i) \in Evictable(s)
<1> DEFINE found == {n \in DOMAIN s.lru :
                       /\ s.lru[n] \in Evictable(s)
                       /\ \E m \in DOMAIN s.lru : s.lru[m] = i /\ n <= m}
<1>1. found # {} /\ Victim(s, i) = s.lru[Max(found)]
  BY DEF Victim
<1>2. Len(s.lru) \in Nat /\ DOMAIN s.lru = 1..Len(s.lru)
  BY DEF StoreType
<1>3. found \in SUBSET (0..Len(s.lru))
  BY <1>2
<1>4. Max(found) \in found
  BY <1>1, <1>2, <1>3, MaxIsIn
<1> QED BY <1>1, <1>4

LEMMA LookupIs ==
  ASSUME NEW s \in StoreType, NEW k \in Key, Lookup(s, k) # NoItem
  PROVE  /\ Lookup(s, k) \in Item
         /\ k \in Indexed => Lookup(s, k) = s.hash[k]
         /\ k \notin Indexed => Lookup(s, k) \in Listed(s)
<1>1. CASE k \in Indexed
  BY <1>1 DEF Lookup, StoreType
<1>2. CASE k \notin Indexed
  <2> DEFINE found == {n \in DOMAIN s.lru : s.key[s.lru[n]] = k}
  <2>1. found # {} /\ Lookup(s, k) = s.lru[Min(found)]
    BY <1>2 DEF Lookup
  <2>2. found \in SUBSET Nat
    BY DEF StoreType
  <2>3. Min(found) \in found
    BY <2>1, <2>2, MinIsIn
  <2>4. Lookup(s, k) \in Listed(s)
    BY <2>1, <2>3 DEF Listed, Range
  <2> QED BY <1>2, <2>4, ListedIsItem
<1> QED BY <1>1, <1>2

-----------------------------------------------------------------------------
(* Types                                                                   *)

LEMMA CountsType ==
  ASSUME NEW refs \in [Val -> Int], NEW v
  PROVE  /\ \A n \in Int : [refs EXCEPT ![v] = @ + n] \in [Val -> Int]
         /\ [refs EXCEPT ![v] = IF @ > 0 THEN @ - 1 ELSE @] \in [Val -> Int]
<1>1. CASE v \in Val
  BY <1>1
<1>2. CASE v \notin Val
  BY <1>2
<1> QED BY <1>1, <1>2

LEMMA RefType == ASSUME NEW s \in StoreType, NEW v
                 PROVE  Ref(s, v) \in StoreType
<1>1. s.refs \in [Val -> Int]
  BY DEF StoreType
<1>2. [s.refs EXCEPT ![v] = @ + 1] \in [Val -> Int]
  BY <1>1, CountsType
<1> QED BY <1>2 DEF Ref, StoreType

LEMMA AddRefsType == ASSUME NEW s \in StoreType, NEW i, NEW n \in Int
                     PROVE  AddRefs(s, i, n) \in StoreType
<1>1. s.refs \in [Val -> Int]
  BY DEF StoreType
<1>2. [s.refs EXCEPT ![s.val[i]] = @ + n] \in [Val -> Int]
  BY <1>1, CountsType
<1> QED BY <1>2 DEF AddRefs, StoreType

LEMMA TouchType == \A s \in StoreType, i \in Item : Touch(s, i) \in StoreType
  BY ToHeadIs DEF Touch, StoreType

LEMMA DetachType ==
  ASSUME NEW s \in StoreType, NEW i \in Item
  PROVE  Detach(s, i) \in StoreType
<1>1. Unhashed(s, i) \in [Indexed -> Item \cup {NoItem}]
  BY DEF Unhashed, StoreType
<1>2. Without(s, i) \in Seq(Item)
  BY WithoutIs
<1>3. [s.refs EXCEPT ![s.val[i]] = IF @ > 0 THEN @ - 1 ELSE @] \in [Val -> Int]
  <2>1. s.refs \in [Val -> Int]
    BY DEF StoreType
  <2> QED BY <2>1, CountsType
<1>4. /\ [s.val EXCEPT ![i] = NoVal] \in [Item -> Val \cup {NoVal}]
      /\ [s.key EXCEPT ![i] = NoKey] \in [Item -> Key \cup {NoKey}]
      /\ [s.bytes EXCEPT ![i] = 0] \in [Item -> 0..UIntMax]
      /\ s.size \in 0..UIntMax
  BY ConstantsAssumption DEF StoreType
<1>5. (IF s.refs[s.val[i]] = 1 THEN s.live \ {s.val[i]} ELSE s.live) \subseteq Val
  BY DEF StoreType
<1> QED BY <1>1, <1>2, <1>3, <1>4, <1>5 DEF Detach, StoreType

LEMMA EvictType ==
  ASSUME NEW s \in StoreType, NEW i \in Item
  PROVE  Evict(s, i) \in StoreType
<1>1. Detach(s, i) \in StoreType
  BY DetachType
<1>2. UInt(Detach(s, i).size - s.bytes[i]) \in 0..UIntMax
  <2>1. Detach(s, i).size - s.bytes[i] \in Int
    BY <1>1, ConstantsAssumption DEF StoreType
  <2> QED BY <2>1, UIntType
<1> QED BY <1>1, <1>2 DEF Evict, StoreType

LEMMA AcceptType ==
  ASSUME NEW s \in StoreType, NEW i \in Item
  PROVE  Accept(s, i) \in StoreType
<1>1. UInt(s.size + s.bytes[i]) \in 0..UIntMax
  <2>1. s.size + s.bytes[i] \in Int
    BY ConstantsAssumption DEF StoreType
  <2> QED BY <2>1, UIntType
<1> QED BY <1>1, ToHeadIs DEF Accept, StoreType

CallOK == call \in [Thread -> CallType]

LEMMA IdleType == Idle \in CallType
  BY ConstantsAssumption DEF Idle, CallType

LEMMA ReturnType ==
  ASSUME CallOK, NEW t \in Thread, Return(t)
  PROVE  CallOK'
  BY IdleType DEF CallOK, Return

LEMMA GiveUpType ==
  ASSUME CallOK, NEW t \in Thread, NEW s \in StoreType, NEW i \in Item,
         s.val[i] \in Val, GiveUp(t, s, i)
  PROVE  store' \in StoreType /\ CallOK'
<1>1. CASE s.key[i] \in Indexed /\ i \in Listed(s)
  BY <1>1, AcceptType, ReturnType DEF GiveUp
<1>2. CASE ~(s.key[i] \in Indexed /\ i \in Listed(s))
  <2> DEFINE c == [Idle EXCEPT !.op = "reject", !.val = s.val[i]]
  <2>1. /\ store' = [s EXCEPT !.hash = Unhashed(s, i), !.val[i] = NoVal,
                              !.key[i] = NoKey, !.bytes[i] = 0]
        /\ call' = [call EXCEPT ![t] = c]
    BY <1>2 DEF GiveUp
  <2>2. Unhashed(s, i) \in [Indexed -> Item \cup {NoItem}]
    BY DEF Unhashed, StoreType
  <2>3. /\ [s.val EXCEPT ![i] = NoVal] \in [Item -> Val \cup {NoVal}]
        /\ [s.key EXCEPT ![i] = NoKey] \in [Item -> Key \cup {NoKey}]
        /\ [s.bytes EXCEPT ![i] = 0] \in [Item -> 0..UIntMax]
    BY ConstantsAssumption DEF StoreType
  <2>4. store' \in StoreType
    BY <2>1, <2>2, <2>3 DEF StoreType
  <2>5. c \in CallType
    BY IdleType DEF CallType
  <2> QED BY <2>1, <2>4, <2>5 DEF CallOK
<1> QED BY <1>1, <1>2

LEMMA EvictForType ==
  ASSUME CallOK, NEW t \in Thread, NEW s \in StoreType, NEW i \in Item,
         NEW x \in Listed(s), NEW tofree \in Nat, NEW count \in Nat,
         EvictFor(t, s, i, x, tofree, count)
  PROVE  store' \in StoreType /\ CallOK'
<1> DEFINE p == Prev(s, x)
           c == [Idle EXCEPT !.op = "ensure", !.item = i, !.prev = p,
                             !.tofree = tofree, !.count = count + s.bytes[x]]
<1>1. store' = Evict(AddRefs(s, p, 1), x) /\ call' = [call EXCEPT ![t] = c]
  BY DEF EvictFor
<1>2. x \in Item /\ p \in Item \cup {NoItem}
  BY PrevIs, ListedIsItem
<1>3. store' \in StoreType
  BY <1>1, <1>2, AddRefsType, EvictType
<1>4. count + s.bytes[x] \in Nat
  BY <1>2, ConstantsAssumption DEF StoreType
<1>5. c \in CallType
  BY <1>2, <1>4, IdleType DEF CallType
<1> QED BY <1>1, <1>3, <1>5 DEF CallOK

LEMMA VictimListed ==
  ASSUME NEW s \in StoreType, NEW i, Victim(s, i) # NoItem
  PROVE  Victim(s, i) \in Listed(s)
  BY VictimIs DEF Evictable

LEMMA EnsureSpaceType ==
  ASSUME CallOK, NEW t \in Thread, NEW s \in StoreType, NEW i \in Item,
         s.val[i] \in Val, NEW tofree \in Nat, EnsureSpace(t, s, i, tofree)
  PROVE  store' \in StoreType /\ CallOK'
  BY GiveUpType, EvictForType, VictimListed DEF EnsureSpace

LEMMA ScavengeType ==
  ASSUME TypeOK, NEW t \in Thread, NEW size \in 0..UIntMax, NEW phase \in 0..17,
         Scavenge(t, size, phase)
  PROVE  store' \in StoreType /\ CallOK'
<1> DEFINE x == Victim(store, Oldest(store))
           p == Min(Usable(size, phase))
           a == [Idle EXCEPT !.op = "nomem", !.asked = size]
           b == [Idle EXCEPT !.op = "scavenge", !.asked = size,
                             !.phase = Min({p + 1, 17}),
                             !.tofree = ToFree(size, p),
                             !.count = store.bytes[x]]
<1>1. CASE x = NoItem \/ Usable(size, phase) = {}
  <2>1. store' = store /\ call' = [call EXCEPT ![t] = a]
    BY <1>1 DEF Scavenge
  <2>2. a \in CallType
    BY IdleType DEF CallType
  <2> QED BY <2>1, <2>2 DEF TypeOK, CallOK
<1>2. CASE x # NoItem /\ Usable(size, phase) # {}
  <2>1. store' = Evict(store, x) /\ call' = [call EXCEPT ![t] = b]
    BY <1>2 DEF Scavenge
  <2>2. x \in Item /\ store \in StoreType
    BY <1>2, VictimListed, ListedIsItem DEF TypeOK
  <2>3. p \in 0..17 \cup Nat
    <3>1. Usable(size, phase) \subseteq phase..Max({16, phase})
      BY DEF Usable
    <3>2. Usable(size, phase) \in SUBSET Nat
      BY <3>1
    <3> QED BY <1>2, <3>2, MinIsIn
  <2>4. Min({p + 1, 17}) \in 0..17
    <3>1. {p + 1, 17} \in SUBSET Nat
      BY <2>3
    <3>2. Min({p + 1, 17}) \in {p + 1, 17} /\ Min({p + 1, 17}) <= 17
      BY <3>1, MinIsIn
    <3> QED BY <2>3, <3>2
  <2>5. ToFree(size, p) \in Nat
    <3>1. PhaseMax(p) \in Int
      <4>1. CASE p >= 16
        BY <4>1 DEF PhaseMax
      <4>2. CASE ~(p >= 16)
        <5>1. store.size \in Int /\ StoreMax \in Int /\ p \in Int
          BY <2>2, <2>3, ConstantsAssumption DEF StoreType
        <5>2. StoreMax \div 16 \in Int /\ 16 - p \in Int /\ 15 - p \in Int
          BY <5>1
        <5>3. 16 - p > 0
          BY <4>2, <2>3
        <5> HIDE DEF p
        <5>4. store.size \div (16 - p) \in Int
          BY <5>1, <5>2, <5>3
        <5>5. /\ (StoreMax \div 16) * (16 - p) \in Int
              /\ (store.size \div (16 - p)) * (15 - p) \in Int
          BY <5>2, <5>4
        <5> QED BY <4>2, <5>5 DEF PhaseMax
      <4> QED BY <4>1, <4>2
    <3>2. size + store.size - PhaseMax(p) \in Int /\ UIntMax - PhaseMax(p) \in Int
      BY <2>2, <3>1, ConstantsAssumption DEF StoreType
    <3> QED BY <3>2, UIntType, ConstantsAssumption DEF ToFree
  <2>6. store.bytes[x] \in Nat
    BY <2>2, ConstantsAssumption DEF StoreType
  <2> HIDE DEF x, p
  <2>7. b \in CallType
    BY <2>4, <2>5, <2>6, IdleType DEF CallType
  <2> QED BY <2>1, <2>2, <2>7, EvictType DEF TypeOK, CallOK
<1> QED BY <1>1, <1>2

LEMMA StoreNewType ==
  ASSUME TypeOK, NEW t \in Thread, NEW h \in Of(t), NEW k \in Key,
         NEW i \in Item, StoreNew(t, h, k, i)
  PROVE  TypeOK'
<1> DEFINE v == held[h]
           hash == IF k \in Indexed THEN [store.hash EXCEPT ![k] = i] ELSE store.hash
           s0 == [store EXCEPT !.val[i] = v, !.key[i] = k, !.bytes[i] = SizeOf[v],
                               !.hash = IF k \in Indexed
                                        THEN [@ EXCEPT ![k] = i] ELSE @]
           s == Ref(s0, v)
           size == UInt(store.size + SizeOf[v])
<1>1. v \in Val /\ store \in StoreType /\ CallOK
  BY DEF StoreNew, StorePre, TypeOK, CallOK, Handle, Of
<1>2. SizeOf[v] \in 0..UIntMax
  BY <1>1, ConstantsAssumption DEF Val
<1>3. s0 \in StoreType /\ s0.val[i] = v
  <2>1. hash \in [Indexed -> Item \cup {NoItem}]
    BY <1>1 DEF StoreType
  <2>2. /\ [store.val EXCEPT ![i] = v] \in [Item -> Val \cup {NoVal}]
        /\ [store.key EXCEPT ![i] = k] \in [Item -> Key \cup {NoKey}]
        /\ [store.bytes EXCEPT ![i] = SizeOf[v]] \in [Item -> 0..UIntMax]
    BY <1>1, <1>2 DEF StoreType
  <2> QED BY <1>1, <2>1, <2>2 DEF StoreType
<1>4. s \in StoreType /\ s.val[i] = v
  <2>1. s.val = s0.val
    BY <1>3 DEF Ref, StoreType
  <2> QED BY <1>3, <2>1, RefType
<1>5. size \in Nat
  <2>1. store.size + SizeOf[v] \in Int
    BY <1>1, <1>2, ConstantsAssumption DEF StoreType
  <2> QED BY <2>1, UIntType, ConstantsAssumption
<1>6. /\ IF StoreMax = 0 \/ size <= StoreMax
         THEN store' = Accept(s, i) /\ Return(t)
         ELSE EnsureSpace(t, s, i, size - StoreMax)
      /\ held' = held
  BY DEF StoreNew
<1> HIDE DEF s, size, v
<1>7. store' \in StoreType /\ CallOK'
  <2>1. CASE StoreMax = 0 \/ size <= StoreMax
    BY <1>1, <1>4, <1>6, <2>1, AcceptType, ReturnType
  <2>2. CASE ~(StoreMax = 0 \/ size <= StoreMax)
    <3>1. size - StoreMax \in Nat
      BY <1>5, <2>2, ConstantsAssumption
    <3> QED BY <1>1, <1>4, <1>6, <2>2, <3>1, EnsureSpaceType
  <2> QED BY <2>1, <2>2
<1> QED BY <1>6, <1>7 DEF TypeOK, CallOK

LEMMA StoreResumeType ==
  ASSUME TypeOK, NEW t \in Thread, StoreResume(t)
  PROVE  TypeOK'
<1> DEFINE c == call[t]
           s == AddRefs(store, c.prev, -1)
           x == Victim(s, c.prev)
<1>1. store \in StoreType /\ CallOK /\ c \in CallType
  BY DEF TypeOK, CallOK
<1>2. c.item \in Item /\ store.val[c.item] \in Val
  BY <1>1 DEF StoreResume, CallType, StoreType
<1>3. s \in StoreType /\ s.val = store.val
  <2>1. s.val = store.val
    BY <1>1 DEF AddRefs, StoreType
  <2> QED BY <1>1, <2>1, AddRefsType
<1>4. c.tofree \in Nat /\ c.count \in Nat
  BY <1>1 DEF CallType
<1>5. /\ IF c.count >= c.tofree THEN store' = Accept(s, c.item) /\ Return(t)
         ELSE IF x # NoItem THEN EvictFor(t, s, c.item, x, c.tofree, c.count)
         ELSE IF c.count = 0 THEN GiveUp(t, s, c.item)
         ELSE EnsureSpace(t, s, c.item, c.tofree - c.count)
      /\ held' = held
  BY DEF StoreResume
<1>6. x # NoItem => x \in Listed(s)
  BY <1>3, VictimListed
<1> HIDE DEF s, x
<1>7. store' \in StoreType /\ CallOK'
  <2>1. CASE c.count >= c.tofree
    BY <1>1, <1>2, <1>3, <1>5, <2>1, AcceptType, ReturnType
  <2>2. CASE ~(c.count >= c.tofree) /\ x # NoItem
    BY <1>1, <1>2, <1>3, <1>4, <1>5, <1>6, <2>2, EvictForType
  <2>3. CASE ~(c.count >= c.tofree) /\ x = NoItem /\ c.count = 0
    BY <1>1, <1>2, <1>3, <1>5, <2>3, GiveUpType
  <2>4. CASE ~(c.count >= c.tofree) /\ x = NoItem /\ c.count # 0
    <3>1. c.tofree - c.count \in Nat
      BY <1>4, <2>4
    <3> QED BY <1>1, <1>2, <1>3, <1>5, <2>4, <3>1, EnsureSpaceType
  <2> QED BY <2>1, <2>2, <2>3, <2>4
<1> QED BY <1>5, <1>7 DEF TypeOK, CallOK

LEMMA ClientType ==
  ASSUME TypeOK, NEW t \in Thread, Client(t)
  PROVE  TypeOK'
<1> DEFINE H == [Handle -> Val \cup {NoVal}]
<1>1. store \in StoreType /\ held \in H /\ CallOK /\ Of(t) \subseteq Handle
  BY DEF TypeOK, CallOK, Of, Handle
<1>2. ASSUME NEW h \in Of(t), NEW v \in Val, Create(t, h, v)
      PROVE  TypeOK'
  <2>1. [store.refs EXCEPT ![v] = 1] \in [Val -> Int]
    BY <1>1 DEF StoreType
  <2>2. store' \in StoreType
    BY <1>1, <1>2, <2>1 DEF Create, StoreType
  <2> QED BY <1>1, <1>2, <2>2 DEF Create, TypeOK, CallOK
<1>3. ASSUME NEW h \in Of(t), NEW v \in Val, GetStatic(t, h, v)
      PROVE  TypeOK'
  BY <1>1, <1>3 DEF GetStatic, TypeOK
<1>4. ASSUME NEW h \in Of(t), Drop(t, h)
      PROVE  TypeOK'
  <2> DEFINE v == held[h]
  <2>1. v \in Val
    BY <1>1, <1>4 DEF Drop
  <2>2. [store.refs EXCEPT ![v] = @ - 1] \in [Val -> Int]
    BY <1>1, <2>1 DEF StoreType
  <2>3. store' \in StoreType
    BY <1>1, <1>4, <2>1, <2>2 DEF Drop, StoreType
  <2> QED BY <1>1, <1>4, <2>3 DEF Drop, TypeOK, CallOK
<1>5. ASSUME NEW h \in Of(t), NEW to \in Handle, Keep(t, h, to)
      PROVE  TypeOK'
  BY <1>1, <1>5, RefType DEF Keep, TypeOK
<1>6. ASSUME NEW h \in Of(t), NEW k \in Key, FindItem(t, h, k)
      PROVE  TypeOK'
  <2>1. Lookup(store, k) \in Item
    BY <1>1, <1>6, LookupIs DEF FindItem
  <2>2. store.val[Lookup(store, k)] \in Val \cup {NoVal}
    BY <1>1, <2>1 DEF StoreType
  <2> QED BY <1>1, <1>6, <2>1, <2>2, TouchType, RefType DEF FindItem, TypeOK
<1>7. ASSUME NEW k \in Key, RemoveItem(t, k)
      PROVE  TypeOK'
  <2>1. Lookup(store, k) \in Item
    BY <1>1, <1>7, LookupIs DEF RemoveItem
  <2> QED BY <1>1, <1>7, <2>1, DetachType DEF RemoveItem, TypeOK, CallOK
<1>8. ASSUME NEW h \in Of(t), NEW to \in Of(t), NEW k \in Key,
             StoreExisting(t, h, k, to)
      PROVE  TypeOK'
  <2>1. Lookup(store, k) \in Item
    BY <1>1, <1>8, LookupIs DEF StoreExisting
  <2>2. store.val[Lookup(store, k)] \in Val \cup {NoVal}
    BY <1>1, <2>1 DEF StoreType
  <2> QED BY <1>1, <1>8, <2>1, <2>2, TouchType, RefType DEF StoreExisting, TypeOK
<1>9. ASSUME NEW size \in Request, Malloc(t, size)
      PROVE  TypeOK'
  <2>1. size \in 0..UIntMax
    BY ConstantsAssumption
  <2> QED BY <1>9, <2>1, ScavengeType DEF Malloc, TypeOK, CallOK
<1> QED BY <1>2, <1>3, <1>4, <1>5, <1>6, <1>7, <1>8, <1>9, StoreNewType DEF Client

LEMMA ContinueType ==
  ASSUME TypeOK, NEW t \in Thread, Continue(t) \/ EmptyStore(t)
  PROVE  TypeOK'
<1>1. /\ store \in StoreType /\ held \in [Handle -> Val \cup {NoVal}]
      /\ CallOK /\ call[t] \in CallType
  BY DEF TypeOK, CallOK
<1>2. CASE RejectRead(t)
  <2> DEFINE refs == store.refs[call[t].val]
  <2>1. refs \in Int
    BY <1>1, <1>2 DEF RejectRead, CallType, StoreType
  <2>2. [call[t] EXCEPT !.op = "write", !.read = refs] \in CallType
    BY <1>1, <1>2, <2>1 DEF RejectRead, CallType
  <2>3. refs > 0 =>
          call' = [call EXCEPT ![t] = [call[t] EXCEPT !.op = "write", !.read = refs]]
    BY <1>1, <1>2 DEF RejectRead, CallOK
  <2> HIDE DEF refs
  <2>4. CallOK'
    <3>1. CASE refs > 0
      BY <1>1, <2>2, <2>3, <3>1 DEF CallOK
    <3>2. CASE ~(refs > 0)
      BY <1>1, <1>2, <3>2, ReturnType DEF RejectRead, refs
    <3> QED BY <3>1, <3>2
  <2> QED BY <1>1, <1>2, <2>4 DEF RejectRead, TypeOK, CallOK
<1>3. CASE RejectWrite(t)
  <2>1. call[t].val \in Val /\ call[t].read - 1 \in Int
    BY <1>1, <1>3 DEF RejectWrite, CallType
  <2>2. [store.refs EXCEPT ![call[t].val] = call[t].read - 1] \in [Val -> Int]
    BY <1>1, <2>1 DEF StoreType
  <2>3. store' \in StoreType
    BY <1>1, <1>3, <2>2 DEF RejectWrite, StoreType
  <2> QED BY <1>1, <1>3, <2>3, ReturnType DEF RejectWrite, TypeOK, CallOK
<1>4. CASE ScavengeResume(t)
  <2> DEFINE x == Victim(store, Oldest(store))
  <2>1. CASE call[t].count < call[t].tofree /\ x # NoItem
    <3>1. x \in Item
      BY <1>1, <2>1, VictimListed, ListedIsItem
    <3>2. call[t].count + store.bytes[x] \in Nat
      BY <1>1, <3>1, ConstantsAssumption DEF CallType, StoreType
    <3> HIDE DEF x
    <3>3. [call[t] EXCEPT !.count = @ + store.bytes[x]] \in CallType
      BY <1>1, <3>2 DEF CallType
    <3>4. /\ store' = Evict(store, x)
          /\ call' = [call EXCEPT ![t] =
                        [call[t] EXCEPT !.count = @ + store.bytes[x]]]
      BY <1>1, <1>4, <2>1 DEF ScavengeResume, CallOK, x
    <3> QED BY <1>1, <1>4, <3>1, <3>3, <3>4, EvictType
            DEF ScavengeResume, TypeOK, CallOK
  <2>2. CASE ~(call[t].count < call[t].tofree /\ x # NoItem)
    <3>1. call[t].asked \in 0..UIntMax /\ call[t].phase \in 0..17
      BY <1>1 DEF CallType
    <3>2. (Return(t) /\ UNCHANGED store) \/ Scavenge(t, call[t].asked, call[t].phase)
      BY <1>4, <2>2 DEF ScavengeResume
    <3>3. store' \in StoreType /\ CallOK'
      BY <1>1, <3>1, <3>2, ScavengeType, ReturnType
    <3> QED BY <1>1, <1>4, <3>3 DEF ScavengeResume, TypeOK, CallOK
  <2> QED BY <2>1, <2>2
<1>5. CASE OutOfMemory(t)
  BY <1>1, <1>5, ReturnType DEF OutOfMemory, TypeOK, CallOK
<1>6. CASE EmptyStore(t)
  <2>1. CASE store.lru = << >>
    BY <1>1, <1>6, <2>1, ReturnType DEF EmptyStore, TypeOK, CallOK
  <2>2. CASE store.lru # << >>
    <3>1. Head(store.lru) \in Item
      BY <1>1, <2>2, HeadTailProperties DEF StoreType
    <3>2. [call[t] EXCEPT !.op = "empty"] \in CallType
      BY <1>1 DEF CallType
    <3>3. /\ store' = Evict(store, Head(store.lru)) /\ held' = held
          /\ call' = [call EXCEPT ![t] = [call[t] EXCEPT !.op = "empty"]]
      BY <1>1, <1>6, <2>2 DEF EmptyStore, CallOK
    <3> QED BY <1>1, <3>1, <3>2, <3>3, EvictType DEF TypeOK, CallOK
  <2> QED BY <2>1, <2>2
<1> QED BY <1>2, <1>3, <1>4, <1>5, <1>6, StoreResumeType DEF Continue

\* Type correctness of the store, for every number of threads, values, items
\* and keys, every size of store and integers, and with every thread free to
\* close documents and take items back.
THEOREM TypeCorrect == Spec => []TypeOK
<1>1. Init => TypeOK
  <2> SUFFICES ASSUME Init PROVE TypeOK
    OBVIOUS
  <2>1. << >> \in Seq(Item) /\ 0 \in 0..UIntMax /\ Static \subseteq Val
    BY ConstantsAssumption DEF Val
  <2>2. store \in StoreType
    BY <2>1 DEF Init, StoreType
  <2> QED BY <2>2, IdleType DEF Init, TypeOK
<1>2. TypeOK /\ [Next]_vars => TypeOK'
  <2>1. ASSUME TypeOK, Next PROVE TypeOK'
    BY <2>1, ClientType, ContinueType DEF Next
  <2>2. ASSUME TypeOK, UNCHANGED vars PROVE TypeOK'
    BY <2>2 DEF vars, TypeOK
  <2> QED BY <2>1, <2>2
<1> QED BY <1>1, <1>2, PTL DEF Spec

-----------------------------------------------------------------------------
(* When the counts are exact                                               *)

\* The uses of the store in which nothing takes its items away from threads
\* that are between two stretches: with a maximum, nobody closes documents or
\* takes items back, there are no static values, and a value is stored before
\* it is shared.  Without a maximum there is nobody between two stretches of
\* fz_store_item, and everything is allowed.
Undisturbed ==
  \/ StoreMax = 0
  \/ Static = {} /\ Closers = {} /\ Removers = {} /\ ~StoreShared

-----------------------------------------------------------------------------
(* The invariant                                                           *)

Occurrences(f, v) == Cardinality({x \in DOMAIN f : f[x] = v})

\* the value each thread pins, and the one each has yet to give up
Pins(s, c) ==
  [t \in Thread |-> IF c[t].prev = NoItem THEN NoVal ELSE s.val[c[t].prev]]
Rejects(c) ==
  [t \in Thread |-> IF c[t].op \in {"reject", "write"} THEN c[t].val ELSE NoVal]

Typed(s, h, c) ==
  /\ s \in StoreType
  /\ h \in [Handle -> Val \cup {NoVal}]
  /\ c \in [Thread -> CallType]

\* The references of a value are counted, and it is allocated while there are
\* any; static values are not counted.
Counted(s, h, c) ==
  /\ \A v \in Obj :
       s.refs[v] = Occurrences(h, v) + Occurrences(s.val, v)
                   + Occurrences(Pins(s, c), v) + Occurrences(Rejects(c), v)
  /\ \A v \in Obj : v \in s.live <=> s.refs[v] > 0
  /\ \A v \in Static : v \in s.live /\ s.refs[v] = -1

\* Only ensure_space pins and stores, each thread an item of its own.
CallsDistinct(c) ==
  \A t \in Thread :
    /\ c[t].item # NoItem <=> c[t].op = "ensure"
    /\ c[t].prev # NoItem => c[t].op = "ensure"
    /\ c[t].op = "empty" => t \in Closers
    /\ \A u \in Thread : t # u /\ c[t].item # NoItem => c[t].item # c[u].item

Indexes(s, c) ==
  /\ \A k \in Indexed : s.hash[k] # NoItem =>
       s.key[s.hash[k]] = k /\ s.val[s.hash[k]] # NoVal
  /\ \A i \in Item : s.val[i] # NoVal =>
       /\ s.key[i] \in Indexed => s.hash[s.key[i]] = i
       /\ i \in Listed(s) \/ \E t \in Thread : c[t].item = i
  /\ \A i \in Listed(s) : s.val[i] # NoVal
  /\ IsInjective(s.lru)

\* What a thread between two stretches goes on from is still there.
Stays(s, c) ==
  \A t \in Thread :
    /\ c[t].prev # NoItem => c[t].prev \in Listed(s)
    /\ c[t].item # NoItem => s.val[c[t].item] # NoVal

\* v is in variables of thread t and of no other.
OwnedBy(h, v, t) ==
  /\ \E x \in Of(t) : h[x] = v
  /\ \A x \in Handle : h[x] = v => x \in Of(t)

\* With a maximum: who stores a value holds it; until somebody has found it,
\* and when it has been rejected, nobody else refers to it.
Owned(s, h, c) ==
  \A t \in Thread :
    /\ c[t].op = "ensure" =>
         LET i == c[t].item
         IN  /\ \E x \in Of(t) : h[x] = s.val[i]
             /\ i \in Listed(s) => s.key[i] \in Indexed
             /\ i \notin Listed(s) =>
                  /\ OwnedBy(h, s.val[i], t)
                  /\ \A j \in Item : s.val[j] = s.val[i] => j = i
    /\ c[t].op \in {"reject", "write"} =>
         /\ OwnedBy(h, c[t].val, t)
         /\ \A j \in Item : s.val[j] # c[t].val
    /\ c[t].op = "write" => c[t].read = s.refs[c[t].val]

Consistent(s, h, c) ==
  /\ Typed(s, h, c)
  /\ Counted(s, h, c)
  /\ CallsDistinct(c)
  /\ Indexes(s, c)
  /\ Stays(s, c)
  /\ StoreMax # 0 => Owned(s, h, c)

\* Without a maximum nothing is ever rejected, nor is space made.
Unhindered ==
  StoreMax = 0 =>
    \A t \in Thread : call[t].op \notin {"ensure", "reject", "write"}

IInv == Consistent(store, held, call) /\ Unhindered

-----------------------------------------------------------------------------
(* Counting                                                                *)

One(v, w) == IF v = w THEN 1 ELSE 0

LEMMA Finite ==
  /\ IsFiniteSet(Thread) /\ IsFiniteSet(Item) /\ IsFiniteSet(Handle)
  BY ConstantsAssumption, FS_Product DEF Handle

LEMMA OccursNat ==
  ASSUME NEW f, IsFiniteSet(DOMAIN f), NEW v
  PROVE  /\ Occurrences(f, v) \in Nat
         /\ Occurrences(f, v) > 0 <=> \E x \in DOMAIN f : f[x] = v
<1> DEFINE S == {x \in DOMAIN f : f[x] = v}
<1>1. IsFiniteSet(S)
  BY FS_Subset
<1>2. Cardinality(S) \in Nat /\ (Cardinality(S) = 0 <=> S = {})
  BY <1>1, FS_CardinalityType, FS_EmptySet
<1> QED BY <1>2 DEF Occurrences

\* A function changed at one point has one occurrence more of the new value
\* and one less of the old one.
LEMMA Changed ==
  ASSUME NEW f, IsFiniteSet(DOMAIN f), NEW x \in DOMAIN f, NEW w, NEW v
  PROVE  Occurrences([f EXCEPT ![x] = w], v)
           = Occurrences(f, v) + One(v, w) - One(v, f[x])
<1> DEFINE g == [f EXCEPT ![x] = w]
           S == {y \in DOMAIN f : f[y] = v}
           R == {y \in DOMAIN g : g[y] = v}
           B == S \ {x}
<1>1. IsFiniteSet(S) /\ IsFiniteSet(B)
  BY FS_Subset
<1>2. x \notin B /\ Cardinality(B) \in Nat /\ Cardinality(B \cup {x}) = Cardinality(B) + 1
  BY <1>1, FS_AddElement, FS_CardinalityType
<1>3. S = (IF v = f[x] THEN B \cup {x} ELSE B)
  OBVIOUS
<1>4. R = (IF v = w THEN B \cup {x} ELSE B)
  OBVIOUS
<1>5. Cardinality(S) = Cardinality(B) + One(v, f[x])
  BY <1>2, <1>3 DEF One
<1>6. Cardinality(R) = Cardinality(B) + One(v, w)
  BY <1>2, <1>4 DEF One
<1>7. One(v, w) \in {0, 1} /\ One(v, f[x]) \in {0, 1}
  BY DEF One
<1> HIDE DEF B
<1>8. Cardinality(R) = Cardinality(S) + One(v, w) - One(v, f[x])
  BY <1>2, <1>5, <1>6, <1>7
<1> QED BY <1>8 DEF Occurrences

\* The four counts of a value are naturals, and say who refers to it.
LEMMA CountsNat ==
  ASSUME NEW s, NEW h, NEW c, Typed(s, h, c), NEW v
  PROVE  /\ Occurrences(h, v) \in Nat
         /\ Occurrences(s.val, v) \in Nat
         /\ Occurrences(Pins(s, c), v) \in Nat
         /\ Occurrences(Rejects(c), v) \in Nat
         /\ Occurrences(h, v) > 0 <=> \E x \in Handle : h[x] = v
         /\ Occurrences(s.val, v) > 0 <=> \E i \in Item : s.val[i] = v
         /\ Occurrences(Pins(s, c), v) > 0 <=> \E t \in Thread : Pins(s, c)[t] = v
         /\ Occurrences(Rejects(c), v) > 0 <=> \E t \in Thread : Rejects(c)[t] = v
<1>1. /\ DOMAIN h = Handle /\ DOMAIN s.val = Item
      /\ DOMAIN Pins(s, c) = Thread /\ DOMAIN Rejects(c) = Thread
  BY DEF Typed, StoreType, Pins, Rejects
<1> HIDE DEF Typed
<1>2. /\ Occurrences(h, v) \in Nat
      /\ Occurrences(h, v) > 0 <=> \E x \in Handle : h[x] = v
  BY <1>1, Finite, OccursNat
<1>3. /\ Occurrences(s.val, v) \in Nat
      /\ Occurrences(s.val, v) > 0 <=> \E i \in Item : s.val[i] = v
  BY <1>1, Finite, OccursNat
<1>4. /\ Occurrences(Pins(s, c), v) \in Nat
      /\ Occurrences(Pins(s, c), v) > 0 <=> \E t \in Thread : Pins(s, c)[t] = v
  BY <1>1, Finite, OccursNat
<1>5. /\ Occurrences(Rejects(c), v) \in Nat
      /\ Occurrences(Rejects(c), v) > 0 <=> \E t \in Thread : Rejects(c)[t] = v
  BY <1>1, Finite, OccursNat
<1> QED BY <1>2, <1>3, <1>4, <1>5

-----------------------------------------------------------------------------
(* The changes that steps are made of                                      *)

\* Sizes do not matter here.
LEMMA SameStore ==
  ASSUME NEW s, NEW h, NEW c, Consistent(s, h, c), NEW r \in StoreType,
         r.refs = s.refs, r.live = s.live, r.val = s.val, r.key = s.key,
         r.hash = s.hash, r.lru = s.lru
  PROVE  Consistent(r, h, c)
<1>1. Listed(r) = Listed(s) /\ Pins(r, c) = Pins(s, c)
  BY DEF Listed, Pins
<1>2. Typed(r, h, c)
  BY DEF Consistent, Typed
<1>3. Counted(r, h, c)
  BY <1>1 DEF Consistent, Counted
<1>4. Indexes(r, c) /\ Stays(r, c)
  BY <1>1 DEF Consistent, Indexes, Stays
<1>5. Owned(s, h, c) => Owned(r, h, c)
  BY <1>1 DEF Owned
<1> QED BY <1>2, <1>3, <1>4, <1>5 DEF Consistent

\* Nor does what a call remembers besides its items and the rejected value.
LEMMA SameCalls ==
  ASSUME NEW s, NEW h, NEW c, Consistent(s, h, c), NEW d \in [Thread -> CallType],
         \A t \in Thread :
           /\ d[t].item = c[t].item /\ d[t].prev = c[t].prev
           /\ \/ /\ d[t].op = c[t].op
                 /\ d[t].op \in {"reject", "write"} =>
                      d[t].val = c[t].val /\ d[t].read = c[t].read
              \/ /\ c[t].op \notin {"ensure", "reject", "write"}
                 /\ d[t].op \notin {"ensure", "reject", "write"}
                 /\ d[t].op = "empty" => t \in Closers
  PROVE  Consistent(s, h, d)
<1>1. Pins(s, d) = Pins(s, c) /\ Rejects(d) = Rejects(c)
  BY DEF Pins, Rejects
<1>2. Typed(s, h, d)
  BY DEF Consistent, Typed
<1>3. Counted(s, h, d)
  BY <1>1 DEF Consistent, Counted
<1>4. CallsDistinct(d)
  BY DEF Consistent, CallsDistinct
<1>5. Indexes(s, d) /\ Stays(s, d)
  BY DEF Consistent, Indexes, Stays
<1>6. Owned(s, h, c) => Owned(s, h, d)
  <2> SUFFICES ASSUME Owned(s, h, c) PROVE Owned(s, h, d)
    OBVIOUS
  <2>1. ASSUME NEW t \in Thread
        PROVE  /\ d[t].op = "ensure" => c[t].op = "ensure" /\ d[t].item = c[t].item
               /\ d[t].op \in {"reject", "write"} =>
                    c[t].op = d[t].op /\ d[t].val = c[t].val /\ d[t].read = c[t].read
    OBVIOUS
  <2> QED BY <2>1 DEF Owned
<1> QED BY <1>2, <1>3, <1>4, <1>5, <1>6 DEF Consistent

\* An item that no thread is using between two stretches can be taken out.
LEMMA DetachKeeps ==
  ASSUME NEW s, NEW h, NEW c, Consistent(s, h, c),
         NEW x \in Item, s.val[x] # NoVal,
         \A t \in Thread : c[t].item # x /\ c[t].prev # x
  PROVE  Consistent(Detach(s, x), h, c)
<1> DEFINE r == Detach(s, x)
           v == s.val[x]
<1>1. /\ s \in StoreType /\ r \in StoreType /\ Typed(r, h, c) /\ v \in Val
      /\ v # NoVal /\ Typed(s, h, c)
  <2>1. s \in StoreType
    BY DEF Consistent, Typed
  <2> QED BY <2>1, DetachType DEF Consistent, Typed, StoreType
<1>2. /\ r.refs = [s.refs EXCEPT ![v] = IF @ > 0 THEN @ - 1 ELSE @]
      /\ r.live = IF s.refs[v] = 1 THEN s.live \ {v} ELSE s.live
      /\ r.val = [s.val EXCEPT ![x] = NoVal]
      /\ r.key = [s.key EXCEPT ![x] = NoKey]
      /\ r.hash = Unhashed(s, x)
      /\ r.lru = Without(s, x)
  BY DEF Detach
<1>3. Listed(r) = Listed(s) \ {x} /\ IsInjective(r.lru)
  BY <1>1, <1>2, WithoutIs DEF Consistent, Indexes, Listed
<1> HIDE DEF r
<1>4. Pins(r, c) = Pins(s, c)
  BY <1>1, <1>2 DEF Pins, StoreType, Typed, CallType
<1>5. Counted(r, h, c)
  <2>1. ASSUME NEW w \in Obj
        PROVE  /\ r.refs[w] = Occurrences(h, w) + Occurrences(r.val, w)
                   + Occurrences(Pins(r, c), w) + Occurrences(Rejects(c), w)
               /\ w \in r.live <=> r.refs[w] > 0
    <3>1. s.refs[w] = Occurrences(h, w) + Occurrences(s.val, w)
                   + Occurrences(Pins(s, c), w) + Occurrences(Rejects(c), w)
          /\ (w \in s.live <=> s.refs[w] > 0)
      BY DEF Consistent, Counted
    <3>2. Occurrences(r.val, w) = Occurrences(s.val, w) - One(w, v)
      <4>1. DOMAIN s.val = Item
        BY <1>1 DEF StoreType
      <4>2. Occurrences(r.val, w) = Occurrences(s.val, w) + One(w, NoVal) - One(w, v)
        BY <1>2, <4>1, Finite, Changed
      <4>3. One(w, NoVal) = 0 /\ One(w, v) \in Int
        BY ConstantsAssumption DEF One
      <4> QED BY <4>2, <4>3, <1>1, CountsNat
    <3>3. CASE w = v
      <4>1. s.refs[w] > 0
        BY <3>1, <3>3, <1>1, CountsNat
      <4>2. r.refs[w] = s.refs[w] - 1
        BY <4>1, <3>3, <1>1, <1>2 DEF StoreType
      <4> QED BY <4>1, <4>2, <3>1, <3>2, <3>3, <1>1, <1>2, <1>4, CountsNat DEF One
    <3>4. CASE w # v
      <4>1. r.refs[w] = s.refs[w]
        BY <3>4, <1>1, <1>2 DEF StoreType, Val
      <4> QED BY <4>1, <3>1, <3>2, <3>4, <1>1, <1>2, <1>4, CountsNat DEF One
    <3> QED BY <3>3, <3>4
  <2>2. ASSUME NEW w \in Static PROVE w \in r.live /\ r.refs[w] = -1
    BY <1>1, <1>2 DEF Consistent, Counted, StoreType, Val
  <2> QED BY <2>1, <2>2 DEF Counted
<1>6. Indexes(r, c)
  <2>1. /\ \A i \in Item : i # x => r.val[i] = s.val[i] /\ r.key[i] = s.key[i]
        /\ r.val[x] = NoVal
    BY <1>1, <1>2 DEF StoreType
  <2>2. \A k \in Indexed :
          r.hash[k] = IF k = s.key[x] THEN NoItem ELSE s.hash[k]
    BY <1>1, <1>2 DEF Unhashed, StoreType
  <2>3. \A k \in Indexed : s.hash[k] \in Item \cup {NoItem}
    BY <1>1 DEF StoreType
  <2>4. Indexes(s, c)
    BY DEF Consistent
  <2>5. \A k \in Indexed : r.hash[k] # NoItem =>
          r.key[r.hash[k]] = k /\ r.val[r.hash[k]] # NoVal
    BY <2>1, <2>2, <2>3, <2>4 DEF Indexes
  <2>6. \A i \in Item : r.val[i] # NoVal =>
          /\ r.key[i] \in Indexed => r.hash[r.key[i]] = i
          /\ i \in Listed(r) \/ \E t \in Thread : c[t].item = i
    BY <2>1, <2>2, <2>4, <1>1, <1>3 DEF Indexes
  <2>7. \A i \in Listed(r) : r.val[i] # NoVal
    BY <2>1, <2>4, <1>1, <1>3, ListedIsItem DEF Indexes
  <2> QED BY <2>5, <2>6, <2>7, <1>3 DEF Indexes
<1>7. Stays(r, c)
  <2>1. Stays(s, c) /\ c \in [Thread -> CallType]
    BY DEF Consistent, Typed
  <2> QED BY <2>1, <1>1, <1>2, <1>3 DEF Stays, StoreType, CallType
<1>8. Owned(s, h, c) => Owned(r, h, c)
  <2> SUFFICES ASSUME Owned(s, h, c), NEW t \in Thread
               PROVE  Owned(r, h, c)!(t)
    BY DEF Owned
  <2>1. c[t] \in CallType
    BY <1>1 DEF Typed
  <2>2. CASE c[t].op = "ensure"
    <3>1. /\ c[t].item \in Item /\ c[t].item # x
          /\ r.val[c[t].item] = s.val[c[t].item]
          /\ r.key[c[t].item] = s.key[c[t].item]
      BY <2>1, <2>2, <1>1, <1>2 DEF CallType, StoreType
    <3>2. s.val[c[t].item] # NoVal
      BY <3>1, ConstantsAssumption DEF Consistent, Stays
    <3>3. \A j \in Item : r.val[j] = s.val[j] \/ r.val[j] = NoVal
      BY <1>1, <1>2 DEF StoreType
    <3> QED BY <2>2, <3>1, <3>2, <3>3, <1>3 DEF Owned
  <2>3. CASE c[t].op \in {"reject", "write"}
    <3>1. c[t].val \in Val /\ c[t].val # NoVal /\ c[t].val # v
      BY <2>1, <2>3, ConstantsAssumption DEF CallType, Owned, Val
    <3>2. r.refs[c[t].val] = s.refs[c[t].val]
      BY <3>1, <1>1, <1>2 DEF StoreType
    <3>3. \A j \in Item : r.val[j] = s.val[j] \/ r.val[j] = NoVal
      BY <1>1, <1>2 DEF StoreType
    <3> QED BY <2>3, <3>1, <3>2, <3>3 DEF Owned
  <2>4. CASE c[t].op \notin {"ensure", "reject", "write"}
    BY <2>4
  <2> QED BY <2>2, <2>3, <2>4
<1> QED BY <1>1, <1>5, <1>6, <1>7, <1>8 DEF Consistent, r

\* ensure_space lets go of the item it has gone on from.
LEMMA UnpinKeeps ==
  ASSUME NEW s, NEW h, NEW c, Consistent(s, h, c), Static = {}, StoreMax # 0,
         NEW t \in Thread, c[t].prev # NoItem
  PROVE  Consistent(AddRefs(s, c[t].prev, -1), h, [c EXCEPT ![t].prev = NoItem])
<1> DEFINE p == c[t].prev
           v == s.val[p]
           r == AddRefs(s, p, -1)
           d == [c EXCEPT ![t].prev = NoItem]
<1>1. /\ Typed(s, h, c) /\ s \in StoreType /\ c \in [Thread -> CallType]
      /\ p \in Item /\ p \in Listed(s)
      /\ v \in Obj /\ v # NoVal /\ Val = Obj
  <2>1. Typed(s, h, c) /\ s \in StoreType /\ c \in [Thread -> CallType]
    BY DEF Consistent, Typed
  <2>2. p \in Listed(s) /\ p \in Item
    BY <2>1 DEF Consistent, Stays, CallType
  <2>3. v # NoVal
    BY <2>2 DEF Consistent, Indexes
  <2> QED BY <2>1, <2>2, <2>3 DEF StoreType, Val
<1>2. /\ r \in StoreType /\ d \in [Thread -> CallType] /\ Typed(r, h, d)
  <2>1. [c[t] EXCEPT !.prev = NoItem] \in CallType
    BY <1>1 DEF CallType
  <2>2. d \in [Thread -> CallType]
    BY <1>1, <2>1
  <2> QED BY <1>1, <2>2, AddRefsType DEF Typed
<1>3. /\ r.refs = [s.refs EXCEPT ![v] = @ - 1]
      /\ r.live = s.live /\ r.val = s.val /\ r.key = s.key /\ r.hash = s.hash
      /\ r.lru = s.lru /\ Listed(r) = Listed(s)
  <2>1. r = [s EXCEPT !.refs[v] = @ + (-1)]
    BY DEF AddRefs
  <2> QED BY <2>1, <1>1 DEF StoreType, Listed
<1>4. /\ d[t].prev = NoItem /\ d[t].op = c[t].op /\ d[t].item = c[t].item
      /\ d[t].val = c[t].val /\ d[t].read = c[t].read
      /\ \A u \in Thread : u # t => d[u] = c[u]
  BY <1>1 DEF CallType
<1>5. Pins(r, d) = [Pins(s, c) EXCEPT ![t] = NoVal] /\ Pins(s, c)[t] = v
  BY <1>1, <1>3, <1>4 DEF Pins
<1>6. Rejects(d) = Rejects(c)
  BY <1>4 DEF Rejects
<1> HIDE DEF r, d, v
<1>7. Counted(r, h, d)
  <2>1. ASSUME NEW w \in Obj
        PROVE  /\ r.refs[w] = Occurrences(h, w) + Occurrences(r.val, w)
                   + Occurrences(Pins(r, d), w) + Occurrences(Rejects(d), w)
               /\ w \in r.live <=> r.refs[w] > 0
    <3>1. s.refs[w] = Occurrences(h, w) + Occurrences(s.val, w)
                   + Occurrences(Pins(s, c), w) + Occurrences(Rejects(c), w)
          /\ (w \in s.live <=> s.refs[w] > 0)
      BY DEF Consistent, Counted
    <3>2. Occurrences(Pins(r, d), w) = Occurrences(Pins(s, c), w) - One(w, v)
      <4>1. IsFiniteSet(DOMAIN Pins(s, c)) /\ t \in DOMAIN Pins(s, c)
        BY Finite DEF Pins
      <4>2. Occurrences([Pins(s, c) EXCEPT ![t] = NoVal], w)
              = Occurrences(Pins(s, c), w) + One(w, NoVal) - One(w, Pins(s, c)[t])
        BY <4>1, Changed
      <4>3. One(w, NoVal) = 0 /\ One(w, v) \in Int
        BY ConstantsAssumption DEF One
      <4> QED BY <4>2, <4>3, <1>1, <1>5, CountsNat
    <3>3. r.refs[w] = s.refs[w] - One(w, v)
      BY <1>1, <1>3 DEF One, StoreType, Val
    <3>4. w = v => Occurrences(s.val, w) > 0
      BY <1>1, CountsNat DEF v
    <3>5. Occurrences(Pins(r, d), w) \in Nat /\ One(w, v) \in {0, 1}
      BY <1>2, CountsNat DEF One
    <3>6. r.refs[w] > 0 <=> s.refs[w] > 0
      BY <3>1, <3>2, <3>3, <3>4, <3>5, <1>1, CountsNat DEF One
    <3> QED BY <3>1, <3>2, <3>3, <3>5, <3>6, <1>1, <1>3, <1>6, CountsNat
  <2> QED BY <2>1 DEF Counted
<1>8. CallsDistinct(d)
  BY <1>4 DEF Consistent, CallsDistinct
<1>9. Indexes(r, d) /\ Stays(r, d)
  BY <1>3, <1>4 DEF Consistent, Indexes, Stays
<1>10. Owned(r, h, d)
  <2> SUFFICES ASSUME NEW u \in Thread
               PROVE  Owned(r, h, d)!(u)
    BY DEF Owned
  <2>1. Owned(s, h, c)
    BY DEF Consistent
  <2>2. /\ d[u].op = c[u].op /\ d[u].item = c[u].item
        /\ d[u].val = c[u].val /\ d[u].read = c[u].read
    BY <1>4
  <2>3. c[u].op = "write" => r.refs[c[u].val] = s.refs[c[u].val]
    <3> SUFFICES ASSUME c[u].op = "write"
                 PROVE  r.refs[c[u].val] = s.refs[c[u].val]
      OBVIOUS
    <3>1. c[u].val # v
      BY <2>1, <1>1 DEF Owned, v
    <3> QED BY <3>1, <1>1, <1>3 DEF StoreType, CallType
  <2> QED BY <2>1, <2>2, <2>3, <1>3 DEF Owned
<1> QED BY <1>2, <1>7, <1>8, <1>9, <1>10 DEF Consistent, r, d

\* It pins an item on the list.
LEMMA PinKeeps ==
  ASSUME NEW s, NEW h, NEW c, Consistent(s, h, c), Static = {}, StoreMax # 0,
         NEW t \in Thread, c[t].op = "ensure", c[t].prev = NoItem,
         NEW p \in Listed(s)
  PROVE  Consistent(AddRefs(s, p, 1), h, [c EXCEPT ![t].prev = p])
<1> DEFINE v == s.val[p]
           r == AddRefs(s, p, 1)
           d == [c EXCEPT ![t].prev = p]
<1>1. /\ Typed(s, h, c) /\ s \in StoreType /\ c \in [Thread -> CallType]
      /\ p \in Item /\ p # NoItem
      /\ v \in Obj /\ v # NoVal /\ Val = Obj
  <2>1. Typed(s, h, c) /\ s \in StoreType /\ c \in [Thread -> CallType]
    BY DEF Consistent, Typed
  <2>2. p \in Item /\ p # NoItem
    BY <2>1, ListedIsItem, ConstantsAssumption
  <2>3. v # NoVal
    BY DEF Consistent, Indexes
  <2> QED BY <2>1, <2>2, <2>3 DEF StoreType, Val
<1>2. /\ r \in StoreType /\ d \in [Thread -> CallType] /\ Typed(r, h, d)
  <2>1. [c[t] EXCEPT !.prev = p] \in CallType
    BY <1>1 DEF CallType
  <2>2. d \in [Thread -> CallType]
    BY <1>1, <2>1
  <2> QED BY <1>1, <2>2, AddRefsType DEF Typed
<1>3. /\ r.refs = [s.refs EXCEPT ![v] = @ + 1]
      /\ r.live = s.live /\ r.val = s.val /\ r.key = s.key /\ r.hash = s.hash
      /\ r.lru = s.lru /\ Listed(r) = Listed(s)
  <2>1. r = [s EXCEPT !.refs[v] = @ + 1]
    BY <1>1 DEF AddRefs
  <2> QED BY <2>1, <1>1 DEF StoreType, Listed
<1>4. /\ d[t].prev = p /\ d[t].op = c[t].op /\ d[t].item = c[t].item
      /\ d[t].val = c[t].val /\ d[t].read = c[t].read
      /\ \A u \in Thread : u # t => d[u] = c[u]
  BY <1>1 DEF CallType
<1>5. Pins(r, d) = [Pins(s, c) EXCEPT ![t] = v] /\ Pins(s, c)[t] = NoVal
  <2>1. Pins(r, d)[t] = v
    BY <1>1, <1>3, <1>4 DEF Pins
  <2>2. \A u \in Thread : u # t => Pins(r, d)[u] = Pins(s, c)[u]
    BY <1>3, <1>4 DEF Pins
  <2> HIDE DEF r, d, v
  <2>3. Pins(s, c)[t] = NoVal
    BY DEF Pins
  <2> QED BY <2>1, <2>2, <2>3, Zenon DEF Pins
<1>6. Rejects(d) = Rejects(c)
  BY <1>4 DEF Rejects
<1> HIDE DEF r, d, v
<1>7. Counted(r, h, d)
  <2>1. ASSUME NEW w \in Obj
        PROVE  /\ r.refs[w] = Occurrences(h, w) + Occurrences(r.val, w)
                   + Occurrences(Pins(r, d), w) + Occurrences(Rejects(d), w)
               /\ w \in r.live <=> r.refs[w] > 0
    <3>1. s.refs[w] = Occurrences(h, w) + Occurrences(s.val, w)
                   + Occurrences(Pins(s, c), w) + Occurrences(Rejects(c), w)
          /\ (w \in s.live <=> s.refs[w] > 0)
      BY DEF Consistent, Counted
    <3>2. Occurrences(Pins(r, d), w) = Occurrences(Pins(s, c), w) + One(w, v)
      <4>1. IsFiniteSet(DOMAIN Pins(s, c)) /\ t \in DOMAIN Pins(s, c)
        BY Finite DEF Pins
      <4>2. Occurrences([Pins(s, c) EXCEPT ![t] = v], w)
              = Occurrences(Pins(s, c), w) + One(w, v) - One(w, Pins(s, c)[t])
        BY <4>1, Changed
      <4>3. One(w, NoVal) = 0 /\ One(w, v) \in Int
        BY ConstantsAssumption DEF One
      <4> QED BY <4>2, <4>3, <1>1, <1>5, CountsNat
    <3>3. r.refs[w] = s.refs[w] + One(w, v)
      BY <1>1, <1>3 DEF One, StoreType, Val
    <3>4. w = v => Occurrences(s.val, w) > 0
      BY <1>1, CountsNat DEF v
    <3>5. One(w, v) \in {0, 1}
      BY DEF One
    <3>6. r.refs[w] > 0 <=> s.refs[w] > 0
      BY <3>1, <3>3, <3>4, <3>5, <1>1, CountsNat DEF One
    <3> QED BY <3>1, <3>2, <3>3, <3>5, <3>6, <1>1, <1>3, <1>6, CountsNat
  <2> QED BY <2>1 DEF Counted
<1>8. CallsDistinct(d)
  BY <1>4 DEF Consistent, CallsDistinct
<1>9. Indexes(r, d) /\ Stays(r, d)
  BY <1>3, <1>4 DEF Consistent, Indexes, Stays
<1>10. Owned(r, h, d)
  <2> SUFFICES ASSUME NEW u \in Thread
               PROVE  Owned(r, h, d)!(u)
    BY DEF Owned
  <2>1. Owned(s, h, c)
    BY DEF Consistent
  <2>2. /\ d[u].op = c[u].op /\ d[u].item = c[u].item
        /\ d[u].val = c[u].val /\ d[u].read = c[u].read
    BY <1>4
  <2>3. c[u].op = "write" => r.refs[c[u].val] = s.refs[c[u].val]
    <3> SUFFICES ASSUME c[u].op = "write"
                 PROVE  r.refs[c[u].val] = s.refs[c[u].val]
      OBVIOUS
    <3>1. c[u].val # v
      BY <2>1, <1>1 DEF Owned, v
    <3> QED BY <3>1, <1>1, <1>3 DEF StoreType, CallType
  <2> QED BY <2>1, <2>2, <2>3, <1>3 DEF Owned
<1> QED BY <1>2, <1>7, <1>8, <1>9, <1>10 DEF Consistent, r, d

\* An item that was found moves to the head of the list.
LEMMA TouchKeeps ==
  ASSUME NEW s, NEW h, NEW c, Consistent(s, h, c),
         NEW i \in Item, s.val[i] # NoVal, i \in Listed(s) \/ s.key[i] \in Indexed
  PROVE  Consistent(Touch(s, i), h, c)
<1> DEFINE r == Touch(s, i)
<1>1. s \in StoreType /\ c \in [Thread -> CallType] /\ r \in StoreType /\ Typed(r, h, c)
  BY TouchType DEF Consistent, Typed
<1>2. /\ r.refs = s.refs /\ r.live = s.live /\ r.val = s.val /\ r.key = s.key
      /\ r.hash = s.hash /\ r.lru = ToHead(s, i)
  BY <1>1 DEF Touch, StoreType
<1>3. Listed(r) = Listed(s) \cup {i} /\ IsInjective(r.lru)
  BY <1>1, <1>2, ToHeadIs DEF Consistent, Indexes, Listed
<1> HIDE DEF r
<1>4. Counted(r, h, c)
  <2>1. Pins(r, c) = Pins(s, c)
    BY <1>2 DEF Pins
  <2> QED BY <2>1, <1>2 DEF Consistent, Counted
<1>5. Indexes(r, c) /\ Stays(r, c)
  BY <1>2, <1>3 DEF Consistent, Indexes, Stays
<1>6. Owned(s, h, c) => Owned(r, h, c)
  BY <1>2, <1>3 DEF Owned
<1> QED BY <1>1, <1>4, <1>5, <1>6 DEF Consistent, r

\* A variable takes a reference to a value that somebody refers to already.
LEMMA RefKeeps ==
  ASSUME NEW s, NEW h, NEW c, Consistent(s, h, c),
         NEW x \in Handle, h[x] = NoVal, NEW v \in Val,
         \/ \E y \in Handle : h[y] = v
         \/ \E i \in Item : s.val[i] = v
         \/ v \in Static,
         StoreMax # 0 =>
           \A t \in Thread :
             /\ c[t].op = "ensure" /\ c[t].item \notin Listed(s) =>
                  s.val[c[t].item] # v
             /\ c[t].op \in {"reject", "write"} => c[t].val # v
  PROVE  Consistent(Ref(s, v), [h EXCEPT ![x] = v], c)
<1> DEFINE r == Ref(s, v)
           g == [h EXCEPT ![x] = v]
<1>1. /\ Typed(s, h, c) /\ s \in StoreType /\ c \in [Thread -> CallType]
      /\ r \in StoreType /\ Typed(r, g, c)
      /\ h \in [Handle -> Val \cup {NoVal}]
      /\ v # NoVal
  BY RefType, ConstantsAssumption DEF Consistent, Typed, Val
<1>2. /\ r.refs = IF s.refs[v] > 0 THEN [s.refs EXCEPT ![v] = @ + 1] ELSE s.refs
      /\ r.live = s.live /\ r.val = s.val /\ r.key = s.key /\ r.hash = s.hash
      /\ r.lru = s.lru /\ Listed(r) = Listed(s)
  BY <1>1 DEF Ref, StoreType, Listed
<1>3. g[x] = v /\ \A y \in Handle : y # x => g[y] = h[y]
  BY <1>1
<1>4. Pins(r, c) = Pins(s, c)
  BY <1>2 DEF Pins
<1> HIDE DEF r
<1>5. Counted(r, g, c)
  <2>1. ASSUME NEW w \in Obj
        PROVE  /\ r.refs[w] = Occurrences(g, w) + Occurrences(r.val, w)
                   + Occurrences(Pins(r, c), w) + Occurrences(Rejects(c), w)
               /\ w \in r.live <=> r.refs[w] > 0
    <3>1. s.refs[w] = Occurrences(h, w) + Occurrences(s.val, w)
                   + Occurrences(Pins(s, c), w) + Occurrences(Rejects(c), w)
          /\ (w \in s.live <=> s.refs[w] > 0)
      BY DEF Consistent, Counted
    <3>2. Occurrences(g, w) = Occurrences(h, w) + One(w, v)
      <4>1. IsFiniteSet(DOMAIN h) /\ x \in DOMAIN h
        BY <1>1, Finite
      <4>2. Occurrences(g, w) = Occurrences(h, w) + One(w, v) - One(w, h[x])
        BY <4>1, Changed
      <4>3. One(w, NoVal) = 0 /\ One(w, v) \in Int
        BY ConstantsAssumption DEF One
      <4> QED BY <4>2, <4>3, <1>1, CountsNat
    <3>3. CASE w = v
      <4>1. v \notin Static
        BY <3>3, ConstantsAssumption
      <4>2. Occurrences(h, w) > 0 \/ Occurrences(s.val, w) > 0
        BY <3>3, <4>1, <1>1, CountsNat
      <4>3. s.refs[w] > 0
        BY <3>1, <4>2, <1>1, CountsNat
      <4>4. r.refs[w] = s.refs[w] + 1
        BY <3>3, <4>3, <1>1, <1>2 DEF StoreType
      <4>5. One(w, v) = 1
        BY <3>3 DEF One
      <4> HIDE DEF g
      <4> QED BY <3>1, <3>2, <4>3, <4>4, <4>5, <1>1, <1>2, <1>4, CountsNat
    <3>4. CASE w # v
      <4>1. r.refs[w] = s.refs[w]
        BY <3>4, <1>1, <1>2 DEF StoreType, Val
      <4>2. One(w, v) = 0
        BY <3>4 DEF One
      <4> HIDE DEF g
      <4> QED BY <3>1, <3>2, <4>1, <4>2, <1>1, <1>2, <1>4, CountsNat
    <3> QED BY <3>3, <3>4
  <2>2. ASSUME NEW w \in Static PROVE w \in r.live /\ r.refs[w] = -1
    BY <1>1, <1>2 DEF Consistent, Counted, StoreType, Val
  <2> QED BY <2>1, <2>2 DEF Counted
<1>6. Indexes(r, c) /\ Stays(r, c)
  BY <1>2 DEF Consistent, Indexes, Stays
<1> HIDE DEF g
<1>7. StoreMax # 0 => Owned(r, g, c)
  <2> SUFFICES ASSUME StoreMax # 0, NEW t \in Thread
               PROVE  Owned(r, g, c)!(t)
    BY DEF Owned
  <2>1. Owned(s, h, c) /\ Of(t) \subseteq Handle
    BY DEF Consistent, Of, Handle
  <2>2. CASE c[t].op = "ensure"
    <3> DEFINE i == c[t].item
    <3>1. s.val[i] # NoVal
      BY <2>2 DEF Consistent, Stays, CallsDistinct
    <3>2. \E y \in Of(t) : g[y] = s.val[i]
      <4>1. PICK y \in Of(t) : h[y] = s.val[i]
        BY <2>1, <2>2 DEF Owned
      <4>2. y # x
        BY <3>1, <4>1
      <4> QED BY <4>1, <4>2, <2>1, <1>3
    <3>3. i \notin Listed(s) => OwnedBy(g, s.val[i], t)
      <4> SUFFICES ASSUME i \notin Listed(s) PROVE OwnedBy(g, s.val[i], t)
        OBVIOUS
      <4>1. OwnedBy(h, s.val[i], t) /\ s.val[i] # v
        BY <2>1, <2>2 DEF Owned
      <4> QED BY <4>1, <3>2, <1>3 DEF OwnedBy
    <3> QED BY <2>1, <2>2, <3>2, <3>3, <1>2 DEF Owned
  <2>3. CASE c[t].op \in {"reject", "write"}
    <3>1. /\ OwnedBy(h, c[t].val, t) /\ c[t].val # v /\ c[t].val \in Val
          /\ c[t].val # NoVal
      BY <2>1, <2>3, <1>1, ConstantsAssumption DEF Owned, CallType, Val
    <3>2. OwnedBy(g, c[t].val, t)
      <4>1. PICK y \in Of(t) : h[y] = c[t].val
        BY <3>1 DEF OwnedBy
      <4>2. g[y] = c[t].val
        BY <4>1, <3>1, <2>1, <1>3
      <4> QED BY <4>2, <3>1, <1>3 DEF OwnedBy
    <3>3. r.refs[c[t].val] = s.refs[c[t].val]
      BY <3>1, <1>1, <1>2 DEF StoreType
    <3> QED BY <2>1, <2>3, <3>2, <3>3, <1>2 DEF Owned
  <2>4. CASE c[t].op \notin {"ensure", "reject", "write"}
    BY <2>4
  <2> QED BY <2>2, <2>3, <2>4
<1> QED BY <1>1, <1>5, <1>6, <1>7 DEF Consistent, r, g

\* A value is created, with one reference.
LEMMA CreateKeeps ==
  ASSUME NEW s, NEW h, NEW c, Consistent(s, h, c),
         NEW x \in Handle, h[x] = NoVal, NEW v \in Obj, v \notin s.live
  PROVE  Consistent([s EXCEPT !.refs[v] = 1, !.live = @ \cup {v}],
                    [h EXCEPT ![x] = v], c)
<1> DEFINE r == [s EXCEPT !.refs[v] = 1, !.live = @ \cup {v}]
           g == [h EXCEPT ![x] = v]
<1>1. /\ Typed(s, h, c) /\ s \in StoreType /\ c \in [Thread -> CallType]
      /\ h \in [Handle -> Val \cup {NoVal}] /\ v # NoVal /\ v \in Val
  BY ConstantsAssumption DEF Consistent, Typed, Val
<1>2. /\ r.refs = [s.refs EXCEPT ![v] = 1] /\ r.live = s.live \cup {v}
      /\ r.val = s.val /\ r.key = s.key /\ r.hash = s.hash
      /\ r.lru = s.lru /\ Listed(r) = Listed(s)
  BY <1>1 DEF StoreType, Listed
<1>3. /\ r \in StoreType /\ Typed(r, g, c)
      /\ g[x] = v /\ \A y \in Handle : y # x => g[y] = h[y]
  <2>1. [s.refs EXCEPT ![v] = 1] \in [Val -> Int]
    BY <1>1 DEF StoreType
  <2>2. r \in StoreType
    BY <1>1, <2>1 DEF StoreType
  <2> QED BY <1>1, <2>2 DEF Typed
<1>4. Pins(r, c) = Pins(s, c)
  BY <1>2 DEF Pins
<1> HIDE DEF r
<1>5. /\ Occurrences(h, v) = 0 /\ Occurrences(s.val, v) = 0
      /\ Occurrences(Pins(s, c), v) = 0 /\ Occurrences(Rejects(c), v) = 0
  <2>1. ~(s.refs[v] > 0)
        /\ s.refs[v] = Occurrences(h, v) + Occurrences(s.val, v)
                 + Occurrences(Pins(s, c), v) + Occurrences(Rejects(c), v)
    BY DEF Consistent, Counted
  <2> QED BY <2>1, <1>1, CountsNat
<1>6. /\ \A y \in Handle : h[y] # v
      /\ \A t \in Thread : Rejects(c)[t] # v
  BY <1>1, <1>5, CountsNat
<1>7. Counted(r, g, c)
  <2>1. ASSUME NEW w \in Obj
        PROVE  /\ r.refs[w] = Occurrences(g, w) + Occurrences(r.val, w)
                   + Occurrences(Pins(r, c), w) + Occurrences(Rejects(c), w)
               /\ w \in r.live <=> r.refs[w] > 0
    <3>1. s.refs[w] = Occurrences(h, w) + Occurrences(s.val, w)
                   + Occurrences(Pins(s, c), w) + Occurrences(Rejects(c), w)
          /\ (w \in s.live <=> s.refs[w] > 0)
      BY DEF Consistent, Counted
    <3>2. Occurrences(g, w) = Occurrences(h, w) + One(w, v)
      <4>1. IsFiniteSet(DOMAIN h) /\ x \in DOMAIN h
        BY <1>1, Finite
      <4>2. Occurrences(g, w) = Occurrences(h, w) + One(w, v) - One(w, h[x])
        BY <4>1, Changed
      <4>3. One(w, NoVal) = 0 /\ One(w, v) \in Int
        BY ConstantsAssumption DEF One
      <4> QED BY <4>2, <4>3, <1>1, CountsNat
    <3>3. CASE w = v
      <4>1. r.refs[w] = 1 /\ One(w, v) = 1 /\ w \in r.live
        BY <3>3, <1>1, <1>2 DEF StoreType, One
      <4> HIDE DEF g
      <4> QED BY <3>2, <3>3, <4>1, <1>2, <1>4, <1>5
    <3>4. CASE w # v
      <4>1. r.refs[w] = s.refs[w] /\ One(w, v) = 0
        BY <3>4, <1>1, <1>2 DEF StoreType, Val, One
      <4> HIDE DEF g
      <4> QED BY <3>1, <3>2, <3>4, <4>1, <1>1, <1>2, <1>4, CountsNat
    <3> QED BY <3>3, <3>4
  <2>2. ASSUME NEW w \in Static PROVE w \in r.live /\ r.refs[w] = -1
    BY <1>1, <1>2, ConstantsAssumption DEF Consistent, Counted, StoreType, Val
  <2> QED BY <2>1, <2>2 DEF Counted
<1>8. Indexes(r, c) /\ Stays(r, c)
  BY <1>2 DEF Consistent, Indexes, Stays
<1> HIDE DEF g
<1>9. Owned(s, h, c) => Owned(r, g, c)
  <2> SUFFICES ASSUME Owned(s, h, c), NEW t \in Thread
               PROVE  Owned(r, g, c)!(t)
    BY DEF Owned
  <2>1. Of(t) \subseteq Handle
    BY DEF Of, Handle
  <2>2. CASE c[t].op = "ensure"
    <3> DEFINE i == c[t].item
    <3>1. PICK y \in Of(t) : h[y] = s.val[i]
      BY <2>2 DEF Owned
    <3>2. s.val[i] # NoVal
      BY <2>2 DEF Consistent, Stays, CallsDistinct
    <3>3. g[y] = s.val[i] /\ s.val[i] # v
      BY <3>1, <3>2, <2>1, <1>3, <1>6
    <3>4. i \notin Listed(s) => OwnedBy(g, s.val[i], t)
      BY <3>3, <2>2, <1>3 DEF Owned, OwnedBy
    <3> QED BY <2>2, <3>3, <3>4, <1>2 DEF Owned
  <2>3. CASE c[t].op \in {"reject", "write"}
    <3>1. c[t].val \in Val /\ c[t].val # NoVal /\ OwnedBy(h, c[t].val, t)
      BY <2>3, <1>1, ConstantsAssumption DEF Owned, CallType, Val
    <3>2. c[t].val # v
      BY <2>3, <1>6 DEF Rejects
    <3>3. OwnedBy(g, c[t].val, t)
      <4>1. PICK y \in Of(t) : h[y] = c[t].val
        BY <3>1 DEF OwnedBy
      <4>2. g[y] = c[t].val
        BY <4>1, <3>1, <2>1, <1>3
      <4> QED BY <4>2, <3>1, <3>2, <1>3 DEF OwnedBy
    <3>4. r.refs[c[t].val] = s.refs[c[t].val]
      BY <3>1, <3>2, <1>1, <1>2 DEF StoreType
    <3> QED BY <2>3, <3>3, <3>4, <1>2 DEF Owned
  <2>4. CASE c[t].op \notin {"ensure", "reject", "write"}
    BY <2>4
  <2> QED BY <2>2, <2>3, <2>4
<1> QED BY <1>3, <1>7, <1>8, <1>9 DEF Consistent, r, g

\* A variable of a thread that is in no call gives its reference up.
LEMMA DropKeeps ==
  ASSUME NEW s, NEW h, NEW c, Consistent(s, h, c),
         NEW t \in Thread, c[t].op \notin {"ensure", "reject", "write"},
         NEW x \in Of(t), h[x] # NoVal
  PROVE  Consistent(IF s.refs[h[x]] < 0 THEN s
                    ELSE [s EXCEPT !.refs[h[x]] = @ - 1,
                                   !.live = IF s.refs[h[x]] = 1
                                            THEN @ \ {h[x]} ELSE @],
                    [h EXCEPT ![x] = NoVal], c)
<1> DEFINE v == h[x]
           q == [s EXCEPT !.refs[v] = @ - 1,
                          !.live = IF s.refs[v] = 1 THEN @ \ {v} ELSE @]
           r == IF s.refs[v] < 0 THEN s ELSE q
           g == [h EXCEPT ![x] = NoVal]
<1>1. /\ Typed(s, h, c) /\ s \in StoreType /\ c \in [Thread -> CallType]
      /\ h \in [Handle -> Val \cup {NoVal}] /\ x \in Handle
      /\ v # NoVal /\ v \in Val
  BY DEF Consistent, Typed, Of, Handle
<1>2. /\ r.refs = IF s.refs[v] < 0 THEN s.refs ELSE [s.refs EXCEPT ![v] = @ - 1]
      /\ r.live = IF s.refs[v] = 1 THEN s.live \ {v} ELSE s.live
      /\ r.val = s.val /\ r.key = s.key /\ r.hash = s.hash
      /\ r.lru = s.lru /\ Listed(r) = Listed(s)
  BY <1>1 DEF StoreType, Listed
<1>3. /\ r \in StoreType /\ Typed(r, g, c)
      /\ g[x] = NoVal /\ \A y \in Handle : y # x => g[y] = h[y]
  <2>1. [s.refs EXCEPT ![v] = @ - 1] \in [Val -> Int]
    BY <1>1 DEF StoreType
  <2>2. r \in StoreType
    BY <1>1, <2>1 DEF StoreType
  <2> QED BY <1>1, <2>2 DEF Typed
<1>4. Pins(r, c) = Pins(s, c)
  BY <1>2 DEF Pins
<1> HIDE DEF r
<1>5. Counted(r, g, c)
  <2>1. ASSUME NEW w \in Obj
        PROVE  /\ r.refs[w] = Occurrences(g, w) + Occurrences(r.val, w)
                   + Occurrences(Pins(r, c), w) + Occurrences(Rejects(c), w)
               /\ w \in r.live <=> r.refs[w] > 0
    <3>1. s.refs[w] = Occurrences(h, w) + Occurrences(s.val, w)
                   + Occurrences(Pins(s, c), w) + Occurrences(Rejects(c), w)
          /\ (w \in s.live <=> s.refs[w] > 0)
      BY DEF Consistent, Counted
    <3>2. Occurrences(g, w) = Occurrences(h, w) - One(w, v)
      <4>1. IsFiniteSet(DOMAIN h) /\ x \in DOMAIN h
        BY <1>1, Finite
      <4>2. Occurrences(g, w) = Occurrences(h, w) + One(w, NoVal) - One(w, v)
        BY <4>1, Changed
      <4>3. One(w, NoVal) = 0 /\ One(w, v) \in Int
        BY ConstantsAssumption DEF One
      <4> QED BY <4>2, <4>3, <1>1, CountsNat
    <3>3. CASE w = v
      <4>1. Occurrences(h, w) > 0
        BY <3>3, <1>1, CountsNat
      <4>2. s.refs[w] > 0
        BY <3>1, <4>1, <1>1, CountsNat
      <4>3. r.refs[w] = s.refs[w] - 1
        BY <3>3, <4>2, <1>1, <1>2 DEF StoreType
      <4>4. One(w, v) = 1
        BY <3>3 DEF One
      <4>5. w \in r.live <=> s.refs[w] # 1
        BY <3>1, <3>3, <4>2, <1>2
      <4> HIDE DEF g, v
      <4> QED BY <3>1, <3>2, <4>2, <4>3, <4>4, <4>5, <1>1, <1>2, <1>4, CountsNat
    <3>4. CASE w # v
      <4>1. r.refs[w] = s.refs[w] /\ One(w, v) = 0
        BY <3>4, <1>1, <1>2 DEF StoreType, Val, One
      <4> HIDE DEF g, v
      <4> QED BY <3>1, <3>2, <3>4, <4>1, <1>1, <1>2, <1>4, CountsNat
    <3> QED BY <3>3, <3>4
  <2>2. ASSUME NEW w \in Static PROVE w \in r.live /\ r.refs[w] = -1
    <3>1. w \in s.live /\ s.refs[w] = -1 /\ w \in Val
      BY DEF Consistent, Counted, Val
    <3> QED BY <3>1, <1>1, <1>2 DEF StoreType
  <2> QED BY <2>1, <2>2 DEF Counted
<1>6. Indexes(r, c) /\ Stays(r, c)
  BY <1>2 DEF Consistent, Indexes, Stays
<1> HIDE DEF g
<1>7. Owned(s, h, c) => Owned(r, g, c)
  <2> SUFFICES ASSUME Owned(s, h, c), NEW u \in Thread
               PROVE  Owned(r, g, c)!(u)
    BY DEF Owned
  <2>1. Of(u) \subseteq Handle
    BY DEF Of, Handle
  <2>2. CASE c[u].op = "ensure"
    <3> DEFINE i == c[u].item
    <3>1. PICK y \in Of(u) : h[y] = s.val[i]
      BY <2>2 DEF Owned
    <3>2. u # t
      BY <2>2
    <3>3. y # x
      BY <3>2 DEF Of
    <3>4. g[y] = s.val[i]
      BY <3>1, <3>3, <2>1, <1>3
    <3>5. s.val[i] # NoVal
      BY <2>2 DEF Consistent, Stays, CallsDistinct
    <3>6. i \notin Listed(s) => OwnedBy(g, s.val[i], u)
      BY <3>4, <3>5, <2>2, <1>3 DEF Owned, OwnedBy
    <3> QED BY <2>2, <3>4, <3>6, <1>2 DEF Owned
  <2>3. CASE c[u].op \in {"reject", "write"}
    <3> DEFINE w == c[u].val
    <3>1. w \in Val /\ w # NoVal /\ OwnedBy(h, w, u)
      BY <2>3, <1>1, ConstantsAssumption DEF Owned, CallType, Val
    <3>2. x \notin Of(u)
      BY <2>3 DEF Of
    <3>3. w # v
      BY <3>1, <3>2, <1>1 DEF OwnedBy
    <3>4. OwnedBy(g, w, u)
      <4>1. PICK y \in Of(u) : h[y] = w
        BY <3>1 DEF OwnedBy
      <4>2. g[y] = w
        BY <4>1, <3>2, <2>1, <1>3
      <4> QED BY <4>2, <3>1, <1>3 DEF OwnedBy
    <3>5. r.refs[w] = s.refs[w]
      BY <3>1, <3>3, <1>1, <1>2 DEF StoreType
    <3> QED BY <2>3, <3>4, <3>5, <1>2 DEF Owned
  <2>4. CASE c[u].op \notin {"ensure", "reject", "write"}
    BY <2>4
  <2> QED BY <2>2, <2>3, <2>4
<1> QED BY <1>3, <1>5, <1>6, <1>7 DEF Consistent, r, g

\* fz_store_item makes an item and puts it in the hash; making space for it
\* comes next.
Entering(c, t, i) == [c EXCEPT ![t] = [Idle EXCEPT !.op = "ensure", !.item = i]]

LEMMA EnterKeeps ==
  ASSUME NEW s, NEW h, NEW c, Consistent(s, h, c),
         NEW t \in Thread, c[t] = Idle, NEW x \in Of(t), h[x] # NoVal,
         NEW k \in Key, k \in Indexed => s.hash[k] = NoItem,
         NEW i \in Item, s.val[i] = NoVal, NEW n \in 0..UIntMax,
         StoreMax # 0 => /\ \A y \in Handle : h[y] = h[x] => y \in Of(t)
                         /\ \A j \in Item : s.val[j] # h[x]
  PROVE  Consistent(Ref([s EXCEPT !.val[i] = h[x], !.key[i] = k, !.bytes[i] = n,
                                  !.hash = IF k \in Indexed
                                           THEN [@ EXCEPT ![k] = i] ELSE @], h[x]),
                    h, Entering(c, t, i))
<1> DEFINE v == h[x]
           hash == IF k \in Indexed THEN [s.hash EXCEPT ![k] = i] ELSE s.hash
           q == [s EXCEPT !.val[i] = v, !.key[i] = k, !.bytes[i] = n,
                          !.hash = IF k \in Indexed
                                   THEN [@ EXCEPT ![k] = i] ELSE @]
           r == Ref(q, v)
           d == Entering(c, t, i)
<1>1. /\ Typed(s, h, c) /\ s \in StoreType /\ c \in [Thread -> CallType]
      /\ h \in [Handle -> Val \cup {NoVal}] /\ x \in Handle
      /\ v # NoVal /\ v \in Val /\ i # NoItem /\ Of(t) \subseteq Handle
  BY ConstantsAssumption DEF Consistent, Typed, Of, Handle
<1>2. /\ q \in StoreType
      /\ q.refs = s.refs /\ q.live = s.live /\ q.val = [s.val EXCEPT ![i] = v]
      /\ q.key = [s.key EXCEPT ![i] = k] /\ q.hash = hash /\ q.lru = s.lru
  <2>1. hash \in [Indexed -> Item \cup {NoItem}]
    BY <1>1 DEF StoreType
  <2>2. /\ [s.val EXCEPT ![i] = v] \in [Item -> Val \cup {NoVal}]
        /\ [s.key EXCEPT ![i] = k] \in [Item -> Key \cup {NoKey}]
        /\ [s.bytes EXCEPT ![i] = n] \in [Item -> 0..UIntMax]
    BY <1>1 DEF StoreType
  <2> QED BY <1>1, <2>1, <2>2 DEF StoreType
<1> HIDE DEF q, v
<1>3. /\ r \in StoreType
      /\ r.refs = IF s.refs[v] > 0 THEN [s.refs EXCEPT ![v] = @ + 1] ELSE s.refs
      /\ r.live = s.live /\ r.val = [s.val EXCEPT ![i] = v]
      /\ r.key = [s.key EXCEPT ![i] = k] /\ r.hash = hash /\ r.lru = s.lru
      /\ Listed(r) = Listed(s)
  BY <1>2, RefType DEF Ref, StoreType, Listed
<1>4. /\ d \in [Thread -> CallType] /\ Typed(r, h, d)
      /\ d[t].op = "ensure" /\ d[t].item = i /\ d[t].prev = NoItem
      /\ \A u \in Thread : u # t => d[u] = c[u]
      /\ c[t].op = "idle" /\ c[t].prev = NoItem /\ c[t].item = NoItem
  <2>1. [Idle EXCEPT !.op = "ensure", !.item = i] \in CallType
    BY IdleType DEF CallType
  <2>2. d \in [Thread -> CallType]
    BY <1>1, <2>1 DEF Entering
  <2>3. d[t].op = "ensure" /\ d[t].item = i /\ d[t].prev = NoItem
    BY <1>1 DEF Entering, Idle
  <2>4. \A u \in Thread : u # t => d[u] = c[u]
    BY <1>1 DEF Entering
  <2>5. c[t].op = "idle" /\ c[t].prev = NoItem /\ c[t].item = NoItem
    BY DEF Idle
  <2> HIDE DEF r, d
  <2> QED BY <1>1, <1>3, <2>2, <2>3, <2>4, <2>5 DEF Typed
<1> HIDE DEF r, d
<1>5. /\ i \notin Listed(s)
      /\ \A u \in Thread : c[u].item # i /\ c[u].prev # i
      /\ \A j \in Item : s.key[j] = k /\ k \in Indexed => s.val[j] = NoVal
  <2>1. \A j \in Item : s.key[j] = k /\ k \in Indexed => s.val[j] = NoVal
    BY ConstantsAssumption DEF Consistent, Indexes
  <2> QED BY <1>1, <2>1 DEF Consistent, Indexes, Stays
<1>6. Pins(r, d) = Pins(s, c) /\ Rejects(d) = Rejects(c)
  <2>1. \A u \in Thread : d[u].prev = c[u].prev
    BY <1>4
  <2>2. \A u \in Thread : c[u].prev # NoItem => r.val[c[u].prev] = s.val[c[u].prev]
    BY <1>1, <1>3, <1>5 DEF StoreType, CallType
  <2>3. Pins(r, d) = Pins(s, c)
    BY <2>1, <2>2 DEF Pins
  <2> QED BY <2>3, <1>4 DEF Rejects
<1>7. Counted(r, h, d)
  <2>1. ASSUME NEW w \in Obj
        PROVE  /\ r.refs[w] = Occurrences(h, w) + Occurrences(r.val, w)
                   + Occurrences(Pins(r, d), w) + Occurrences(Rejects(d), w)
               /\ w \in r.live <=> r.refs[w] > 0
    <3>1. s.refs[w] = Occurrences(h, w) + Occurrences(s.val, w)
                   + Occurrences(Pins(s, c), w) + Occurrences(Rejects(c), w)
          /\ (w \in s.live <=> s.refs[w] > 0)
      BY DEF Consistent, Counted
    <3>2. Occurrences(r.val, w) = Occurrences(s.val, w) + One(w, v)
      <4>1. IsFiniteSet(DOMAIN s.val) /\ i \in DOMAIN s.val
        BY <1>1, Finite DEF StoreType
      <4>2. Occurrences([s.val EXCEPT ![i] = v], w)
              = Occurrences(s.val, w) + One(w, v) - One(w, s.val[i])
        BY <4>1, Changed
      <4>3. One(w, NoVal) = 0 /\ One(w, v) \in Int
        BY ConstantsAssumption DEF One
      <4> QED BY <4>2, <4>3, <1>1, <1>3, CountsNat
    <3>3. CASE w = v
      <4>1. Occurrences(h, w) > 0
        BY <3>3, <1>1, CountsNat DEF v
      <4>2. s.refs[w] > 0
        BY <3>1, <4>1, <1>1, CountsNat
      <4>3. r.refs[w] = s.refs[w] + 1 /\ One(w, v) = 1
        BY <3>3, <4>2, <1>1, <1>3 DEF StoreType, One
      <4> QED BY <3>1, <3>2, <4>2, <4>3, <1>1, <1>3, <1>6, CountsNat
    <3>4. CASE w # v
      <4>1. r.refs[w] = s.refs[w] /\ One(w, v) = 0
        BY <3>4, <1>1, <1>3 DEF StoreType, Val, One
      <4> QED BY <3>1, <3>2, <4>1, <1>1, <1>3, <1>6, CountsNat
    <3> QED BY <3>3, <3>4
  <2>2. ASSUME NEW w \in Static PROVE w \in r.live /\ r.refs[w] = -1
    <3>1. w \in s.live /\ s.refs[w] = -1 /\ w \in Val
      BY DEF Consistent, Counted, Val
    <3> QED BY <3>1, <1>1, <1>3 DEF StoreType
  <2> QED BY <2>1, <2>2 DEF Counted
<1>8. CallsDistinct(d)
  BY <1>1, <1>4, <1>5 DEF Consistent, CallsDistinct
<1>9. Indexes(r, d)
  <2>1. /\ \A j \in Item : j # i => r.val[j] = s.val[j] /\ r.key[j] = s.key[j]
        /\ r.val[i] = v /\ r.key[i] = k
    BY <1>1, <1>3 DEF StoreType
  <2>2. \A m \in Indexed : r.hash[m] = IF m = k THEN i ELSE s.hash[m]
    BY <1>1, <1>3 DEF StoreType
  <2>3. \A m \in Indexed : s.hash[m] \in Item \cup {NoItem}
    BY <1>1 DEF StoreType
  <2>4. Indexes(s, c)
    BY DEF Consistent
  <2>5. \A m \in Indexed : r.hash[m] # NoItem =>
          r.key[r.hash[m]] = m /\ r.val[r.hash[m]] # NoVal
    BY <2>1, <2>2, <2>3, <2>4, <1>1 DEF Indexes
  <2>6. \A j \in Item : r.val[j] # NoVal =>
          /\ r.key[j] \in Indexed => r.hash[r.key[j]] = j
          /\ j \in Listed(r) \/ \E u \in Thread : d[u].item = j
    <3> SUFFICES ASSUME NEW j \in Item, r.val[j] # NoVal
                 PROVE  /\ r.key[j] \in Indexed => r.hash[r.key[j]] = j
                        /\ j \in Listed(r) \/ \E u \in Thread : d[u].item = j
      OBVIOUS
    <3>1. CASE j = i
      BY <3>1, <2>1, <2>2, <1>4
    <3>2. CASE j # i
      <4>1. r.key[j] \in Indexed => r.hash[r.key[j]] = j
        BY <3>2, <2>1, <2>2, <2>4, <1>5 DEF Indexes
      <4>2. j \in Listed(s) \/ \E u \in Thread : c[u].item = j
        BY <3>2, <2>1, <2>4 DEF Indexes
      <4>3. \A u \in Thread : c[u].item = j => d[u].item = j
        BY <1>4, ConstantsAssumption
      <4> QED BY <4>1, <4>2, <4>3, <1>3
    <3> QED BY <3>1, <3>2
  <2>7. \A j \in Listed(r) : r.val[j] # NoVal
    BY <2>1, <2>4, <1>1, <1>3, <1>5, ListedIsItem DEF Indexes
  <2>8. IsInjective(r.lru)
    BY <2>4, <1>3 DEF Indexes
  <2> QED BY <2>5, <2>6, <2>7, <2>8 DEF Indexes
<1>10. Stays(r, d)
  <2>1. \A j \in Item : s.val[j] # NoVal => r.val[j] # NoVal
    BY <1>1, <1>3 DEF StoreType
  <2>2. r.val[i] # NoVal
    BY <1>1, <1>3 DEF StoreType
  <2>3. ASSUME NEW u \in Thread
        PROVE  /\ d[u].prev # NoItem => d[u].prev \in Listed(r)
               /\ d[u].item # NoItem => r.val[d[u].item] # NoVal
    <3>1. CASE u = t
      BY <3>1, <2>2, <1>4
    <3>2. CASE u # t
      <4>1. c[u].item # NoItem => c[u].item \in Item /\ s.val[c[u].item] # NoVal
        BY <1>1 DEF CallType, Consistent, Stays
      <4> QED BY <3>2, <4>1, <2>1, <1>3, <1>4 DEF Consistent, Stays
    <3> QED BY <3>1, <3>2
  <2> QED BY <2>3 DEF Stays
<1>11. StoreMax # 0 => Owned(r, h, d)
  <2> SUFFICES ASSUME StoreMax # 0, NEW u \in Thread
               PROVE  Owned(r, h, d)!(u)
    BY DEF Owned
  <2>1. /\ Owned(s, h, c) /\ c[u] \in CallType
        /\ \A y \in Handle : h[y] = v => y \in Of(t)
        /\ \A j \in Item : s.val[j] # v
    BY <1>1 DEF Consistent, v
  <2>2. /\ \A j \in Item : j # i => r.val[j] = s.val[j] /\ r.key[j] = s.key[j]
        /\ r.val[i] = v
    BY <1>1, <1>3 DEF StoreType
  <2>3. CASE u = t
    <3>1. OwnedBy(h, v, t)
      BY <2>1 DEF OwnedBy, v
    <3> QED BY <2>1, <2>2, <2>3, <3>1, <1>3, <1>4, <1>5 DEF OwnedBy
  <2>4. CASE u # t /\ c[u].op = "ensure"
    <3>1. c[u].item \in Item /\ c[u].item # i /\ d[u] = c[u]
      BY <2>1, <2>4, <1>4, <1>5 DEF CallType
    <3>2. s.val[c[u].item] # v /\ r.val[c[u].item] = s.val[c[u].item]
          /\ r.key[c[u].item] = s.key[c[u].item]
      BY <2>1, <2>2, <3>1
    <3> QED BY <2>1, <2>2, <2>4, <3>1, <3>2, <1>3 DEF Owned
  <2>5. CASE u # t /\ c[u].op \in {"reject", "write"}
    <3>1. c[u].val \in Val /\ d[u] = c[u] /\ OwnedBy(h, c[u].val, u)
      BY <2>1, <2>5, <1>4 DEF CallType, Owned
    <3>2. c[u].val # v
      <4>1. x \notin Of(u)
        BY <2>5 DEF Of
      <4> QED BY <4>1, <3>1, <1>1 DEF OwnedBy, v
    <3>3. r.refs[c[u].val] = s.refs[c[u].val]
      BY <3>1, <3>2, <1>1, <1>3 DEF StoreType
    <3> QED BY <2>1, <2>2, <2>5, <3>1, <3>2, <3>3 DEF Owned
  <2>6. CASE u # t /\ c[u].op \notin {"ensure", "reject", "write"}
    BY <2>6, <1>4
  <2> QED BY <2>3, <2>4, <2>5, <2>6
<1> QED BY <1>4, <1>7, <1>8, <1>9, <1>10, <1>11 DEF Consistent, r, d, q, v

\* There was space: the item goes to the head of the list.
LEMMA AcceptKeeps ==
  ASSUME NEW s, NEW h, NEW c, Consistent(s, h, c),
         NEW t \in Thread, c[t].op = "ensure", c[t].prev = NoItem
  PROVE  Consistent(Accept(s, c[t].item), h, [c EXCEPT ![t] = Idle])
<1> DEFINE i == c[t].item
           r == Accept(s, i)
           d == [c EXCEPT ![t] = Idle]
<1>1. /\ Typed(s, h, c) /\ s \in StoreType /\ c \in [Thread -> CallType]
      /\ i \in Item /\ i # NoItem
  BY ConstantsAssumption DEF Consistent, Typed, CallType
<1>2. /\ r \in StoreType /\ d \in [Thread -> CallType] /\ Typed(r, h, d)
      /\ d[t].op = "idle" /\ d[t].item = NoItem /\ d[t].prev = NoItem
      /\ \A u \in Thread : u # t => d[u] = c[u]
  <2>1. r \in StoreType
    BY <1>1, AcceptType
  <2>2. d \in [Thread -> CallType]
    BY <1>1, IdleType
  <2> QED BY <1>1, <2>1, <2>2 DEF Typed, Idle
<1>3. /\ r.refs = s.refs /\ r.live = s.live /\ r.val = s.val /\ r.key = s.key
      /\ r.hash = s.hash /\ r.lru = ToHead(s, i)
  BY <1>1 DEF Accept, StoreType
<1>4. Listed(r) = Listed(s) \cup {i} /\ IsInjective(r.lru)
  BY <1>1, <1>3, ToHeadIs DEF Consistent, Indexes, Listed
<1>5. s.val[i] # NoVal /\ \A u \in Thread : u # t => c[u].item # i
  BY <1>1 DEF Consistent, Stays, CallsDistinct
<1> HIDE DEF r, d, i
<1>6. Counted(r, h, d)
  <2>1. Pins(r, d) = Pins(s, c) /\ Rejects(d) = Rejects(c)
    BY <1>2, <1>3 DEF Pins, Rejects
  <2> QED BY <2>1, <1>3 DEF Consistent, Counted
<1>7. CallsDistinct(d)
  BY <1>2 DEF Consistent, CallsDistinct
<1>8. Indexes(r, d)
  <2>1. Indexes(s, c)
    BY DEF Consistent
  <2>2. ASSUME NEW j \in Item, s.val[j] # NoVal
        PROVE  j \in Listed(r) \/ \E u \in Thread : d[u].item = j
    BY <2>1, <2>2, <1>2, <1>4 DEF Indexes, i
  <2> QED BY <2>1, <2>2, <1>3, <1>4, <1>5 DEF Indexes
<1>9. Stays(r, d)
  BY <1>2, <1>3, <1>4 DEF Consistent, Stays
<1>10. Owned(s, h, c) => Owned(r, h, d)
  <2> SUFFICES ASSUME Owned(s, h, c), NEW u \in Thread
               PROVE  Owned(r, h, d)!(u)
    BY DEF Owned
  <2>1. CASE u = t
    BY <2>1, <1>2
  <2>2. CASE u # t
    BY <2>2, <1>2, <1>3, <1>4, <1>5 DEF Owned
  <2> QED BY <2>1, <2>2
<1> QED BY <1>2, <1>6, <1>7, <1>8, <1>9, <1>10 DEF Consistent, r, d, i

\* There was none, and nobody has found the item: it is freed, and the
\* reference to its value is yet to be given up.
LEMMA RejectKeeps ==
  ASSUME NEW s, NEW h, NEW c, Consistent(s, h, c), StoreMax # 0,
         NEW t \in Thread, c[t].op = "ensure", c[t].prev = NoItem,
         NEW i, i = c[t].item, i \notin Listed(s)
  PROVE  Consistent([s EXCEPT !.hash = Unhashed(s, i), !.val[i] = NoVal,
                              !.key[i] = NoKey, !.bytes[i] = 0], h,
                    [c EXCEPT ![t] = [Idle EXCEPT !.op = "reject",
                                                  !.val = s.val[i]]])
<1> DEFINE v == s.val[i]
           r == [s EXCEPT !.hash = Unhashed(s, i), !.val[i] = NoVal,
                          !.key[i] = NoKey, !.bytes[i] = 0]
           e == [Idle EXCEPT !.op = "reject", !.val = v]
           d == [c EXCEPT ![t] = e]
<1>1. /\ Typed(s, h, c) /\ s \in StoreType /\ c \in [Thread -> CallType]
      /\ i \in Item /\ i # NoItem /\ v # NoVal /\ v \in Val
  <2>1. Typed(s, h, c) /\ s \in StoreType /\ c \in [Thread -> CallType]
    BY DEF Consistent, Typed
  <2>2. i \in Item /\ i # NoItem
    BY <2>1, ConstantsAssumption DEF CallType
  <2>3. v # NoVal
    BY <2>2 DEF Consistent, Stays
  <2> QED BY <2>1, <2>2, <2>3 DEF StoreType
<1>2. /\ r \in StoreType
      /\ r.refs = s.refs /\ r.live = s.live /\ r.val = [s.val EXCEPT ![i] = NoVal]
      /\ r.key = [s.key EXCEPT ![i] = NoKey] /\ r.hash = Unhashed(s, i)
      /\ r.lru = s.lru /\ Listed(r) = Listed(s)
  <2>1. Unhashed(s, i) \in [Indexed -> Item \cup {NoItem}]
    BY <1>1 DEF Unhashed, StoreType
  <2>2. /\ [s.val EXCEPT ![i] = NoVal] \in [Item -> Val \cup {NoVal}]
        /\ [s.key EXCEPT ![i] = NoKey] \in [Item -> Key \cup {NoKey}]
        /\ [s.bytes EXCEPT ![i] = 0] \in [Item -> 0..UIntMax]
    BY <1>1, ConstantsAssumption DEF StoreType
  <2> QED BY <1>1, <2>1, <2>2 DEF StoreType, Listed
<1> HIDE DEF r, v
<1>3. /\ d \in [Thread -> CallType] /\ Typed(r, h, d)
      /\ d[t].op = "reject" /\ d[t].val = v /\ d[t].item = NoItem
      /\ d[t].prev = NoItem
      /\ \A u \in Thread : u # t => d[u] = c[u]
  <2>1. e \in CallType
    BY <1>1, IdleType DEF CallType
  <2>2. /\ e.op = "reject" /\ e.val = v /\ e.item = NoItem /\ e.prev = NoItem
    BY DEF Idle
  <2> HIDE DEF e
  <2> QED BY <1>1, <1>2, <2>1, <2>2 DEF Typed
<1> HIDE DEF d
<1>4. /\ \A u \in Thread : u # t => c[u].item # i
      /\ \A u \in Thread : c[u].prev # i
  BY <1>1 DEF Consistent, CallsDistinct, Stays
<1>5. /\ OwnedBy(h, v, t)
      /\ \A j \in Item : s.val[j] = v => j = i
  BY DEF Consistent, Owned, v
<1>6. Pins(r, d) = Pins(s, c)
  <2>1. \A u \in Thread : d[u].prev = c[u].prev
    BY <1>3
  <2>2. \A u \in Thread : c[u].prev # NoItem => r.val[c[u].prev] = s.val[c[u].prev]
    BY <1>1, <1>2, <1>4 DEF StoreType, CallType
  <2> QED BY <2>1, <2>2 DEF Pins
<1>7. Rejects(d) = [Rejects(c) EXCEPT ![t] = v] /\ Rejects(c)[t] = NoVal
  <2>1. Rejects(d)[t] = v
    BY <1>3 DEF Rejects
  <2>2. \A u \in Thread : u # t => Rejects(d)[u] = Rejects(c)[u]
    BY <1>3 DEF Rejects
  <2>3. Rejects(c)[t] = NoVal
    BY DEF Rejects
  <2> QED BY <2>1, <2>2, <2>3, Zenon DEF Rejects
<1>8. Counted(r, h, d)
  <2>1. ASSUME NEW w \in Obj
        PROVE  /\ r.refs[w] = Occurrences(h, w) + Occurrences(r.val, w)
                   + Occurrences(Pins(r, d), w) + Occurrences(Rejects(d), w)
               /\ w \in r.live <=> r.refs[w] > 0
    <3>1. s.refs[w] = Occurrences(h, w) + Occurrences(s.val, w)
                   + Occurrences(Pins(s, c), w) + Occurrences(Rejects(c), w)
          /\ (w \in s.live <=> s.refs[w] > 0)
      BY DEF Consistent, Counted
    <3>2. One(w, NoVal) = 0 /\ One(w, v) \in Int
      BY ConstantsAssumption DEF One
    <3>3. Occurrences(r.val, w) = Occurrences(s.val, w) - One(w, v)
      <4>1. IsFiniteSet(DOMAIN s.val) /\ i \in DOMAIN s.val
        BY <1>1, Finite DEF StoreType
      <4>2. Occurrences([s.val EXCEPT ![i] = NoVal], w)
              = Occurrences(s.val, w) + One(w, NoVal) - One(w, v)
        BY <4>1, Changed DEF v
      <4>3. Occurrences(s.val, w) \in Nat
        BY <1>1, CountsNat
      <4>4. Occurrences(r.val, w) = Occurrences([s.val EXCEPT ![i] = NoVal], w)
        BY <1>2
      <4> QED BY <4>2, <4>3, <4>4, <3>2
    <3>4. Occurrences(Rejects(d), w) = Occurrences(Rejects(c), w) + One(w, v)
      <4>1. IsFiniteSet(DOMAIN Rejects(c)) /\ t \in DOMAIN Rejects(c)
        BY Finite DEF Rejects
      <4>2. Occurrences([Rejects(c) EXCEPT ![t] = v], w)
              = Occurrences(Rejects(c), w) + One(w, v) - One(w, Rejects(c)[t])
        BY <4>1, Changed
      <4> QED BY <4>2, <3>2, <1>1, <1>7, CountsNat
    <3> QED BY <3>1, <3>2, <3>3, <3>4, <1>1, <1>2, <1>6, CountsNat
  <2>2. ASSUME NEW w \in Static PROVE w \in r.live /\ r.refs[w] = -1
    BY <1>2 DEF Consistent, Counted
  <2> QED BY <2>1, <2>2 DEF Counted
<1>9. CallsDistinct(d)
  BY <1>3 DEF Consistent, CallsDistinct
<1>10. Indexes(r, d)
  <2>1. /\ \A j \in Item : j # i => r.val[j] = s.val[j] /\ r.key[j] = s.key[j]
        /\ r.val[i] = NoVal
    BY <1>1, <1>2 DEF StoreType
  <2>2. \A k \in Indexed :
          r.hash[k] = IF k = s.key[i] THEN NoItem ELSE s.hash[k]
    BY <1>1, <1>2 DEF Unhashed, StoreType
  <2>3. \A k \in Indexed : s.hash[k] \in Item \cup {NoItem}
    BY <1>1 DEF StoreType
  <2>4. Indexes(s, c) /\ s.val[i] # NoVal
    BY <1>1 DEF Consistent, v
  <2>5. \A k \in Indexed : r.hash[k] # NoItem =>
          r.key[r.hash[k]] = k /\ r.val[r.hash[k]] # NoVal
    BY <2>1, <2>2, <2>3, <2>4, <1>1 DEF Indexes
  <2>6. \A j \in Item : r.val[j] # NoVal =>
          /\ r.key[j] \in Indexed => r.hash[r.key[j]] = j
          /\ j \in Listed(r) \/ \E u \in Thread : d[u].item = j
    <3> SUFFICES ASSUME NEW j \in Item, r.val[j] # NoVal
                 PROVE  /\ r.key[j] \in Indexed => r.hash[r.key[j]] = j
                        /\ j \in Listed(r) \/ \E u \in Thread : d[u].item = j
      OBVIOUS
    <3>1. j # i
      BY <2>1
    <3>2. r.key[j] \in Indexed => r.hash[r.key[j]] = j
      BY <3>1, <2>1, <2>2, <2>4, <1>1 DEF Indexes
    <3>3. j \in Listed(s) \/ \E u \in Thread : c[u].item = j
      BY <3>1, <2>1, <2>4 DEF Indexes
    <3>4. \A u \in Thread : c[u].item = j => d[u].item = j
      BY <3>1, <1>3
    <3> QED BY <3>2, <3>3, <3>4, <1>2
  <2>7. \A j \in Listed(r) : r.val[j] # NoVal
    BY <2>1, <2>4, <1>1, <1>2, ListedIsItem DEF Indexes
  <2>8. IsInjective(r.lru)
    BY <2>4, <1>2 DEF Indexes
  <2> QED BY <2>5, <2>6, <2>7, <2>8 DEF Indexes
<1>11. Stays(r, d)
  <2>1. \A j \in Item : j # i => r.val[j] = s.val[j]
    BY <1>1, <1>2 DEF StoreType
  <2>2. \A u \in Thread : c[u].item \in Item \cup {NoItem}
    BY <1>1 DEF CallType
  <2> QED BY <2>1, <2>2, <1>2, <1>3, <1>4 DEF Consistent, Stays
<1>12. Owned(r, h, d)
  <2> SUFFICES ASSUME NEW u \in Thread
               PROVE  Owned(r, h, d)!(u)
    BY DEF Owned
  <2>1. Owned(s, h, c) /\ c[u] \in CallType
    BY <1>1 DEF Consistent
  <2>2. /\ \A j \in Item : j # i => r.val[j] = s.val[j] /\ r.key[j] = s.key[j]
        /\ r.val[i] = NoVal
    BY <1>1, <1>2 DEF StoreType
  <2>3. CASE u = t
    <3>1. \A j \in Item : r.val[j] # v
      BY <2>2, <1>1, <1>5
    <3> QED BY <2>3, <3>1, <1>3, <1>5
  <2>4. CASE u # t /\ c[u].op = "ensure"
    <3>1. c[u].item \in Item /\ c[u].item # i /\ d[u] = c[u]
          /\ s.val[c[u].item] # NoVal
      BY <2>1, <2>4, <1>3, <1>4, ConstantsAssumption DEF CallType, Consistent, Stays
    <3> QED BY <2>1, <2>2, <2>4, <3>1, <1>2 DEF Owned
  <2>5. CASE u # t /\ c[u].op \in {"reject", "write"}
    <3>1. c[u].val \in Val /\ c[u].val # NoVal /\ d[u] = c[u]
      BY <2>1, <2>5, <1>3, ConstantsAssumption DEF CallType, Val
    <3> QED BY <2>1, <2>2, <2>5, <3>1, <1>2 DEF Owned
  <2>6. CASE u # t /\ c[u].op \notin {"ensure", "reject", "write"}
    BY <2>6, <1>3
  <2> QED BY <2>3, <2>4, <2>5, <2>6
<1> QED BY <1>3, <1>8, <1>9, <1>10, <1>11, <1>12 DEF Consistent, r, d, v

\* The count of the rejected value is read ...
LEMMA ReadKeeps ==
  ASSUME NEW s, NEW h, NEW c, Consistent(s, h, c),
         NEW t \in Thread, c[t].op = "reject"
  PROVE  Consistent(s, h, [c EXCEPT ![t].op = "write",
                                    ![t].read = s.refs[c[t].val]])
<1> DEFINE e == [c[t] EXCEPT !.op = "write", !.read = s.refs[c[t].val]]
           d == [c EXCEPT ![t].op = "write", ![t].read = s.refs[c[t].val]]
<1>1. Typed(s, h, c) /\ s \in StoreType /\ c \in [Thread -> CallType]
  BY DEF Consistent, Typed
<1>2. /\ d \in [Thread -> CallType] /\ Typed(s, h, d)
      /\ d[t].op = "write" /\ d[t].val = c[t].val /\ d[t].item = c[t].item
      /\ d[t].prev = c[t].prev /\ d[t].read = s.refs[c[t].val]
      /\ \A u \in Thread : u # t => d[u] = c[u]
  <2>1. d = [c EXCEPT ![t] = e]
    BY <1>1
  <2>2. /\ e \in CallType /\ e.op = "write" /\ e.val = c[t].val
        /\ e.item = c[t].item /\ e.prev = c[t].prev /\ e.read = s.refs[c[t].val]
    BY <1>1 DEF CallType, StoreType
  <2> HIDE DEF e, d
  <2> QED BY <1>1, <2>1, <2>2 DEF Typed
<1> HIDE DEF d
<1>3. Pins(s, d) = Pins(s, c) /\ Rejects(d) = Rejects(c)
  BY <1>2 DEF Pins, Rejects
<1>4. Counted(s, h, d)
  BY <1>3 DEF Consistent, Counted
<1>5. CallsDistinct(d) /\ Indexes(s, d) /\ Stays(s, d)
  BY <1>2 DEF Consistent, CallsDistinct, Indexes, Stays
<1>6. Owned(s, h, c) => Owned(s, h, d)
  <2> SUFFICES ASSUME Owned(s, h, c), NEW u \in Thread
               PROVE  Owned(s, h, d)!(u)
    BY DEF Owned
  <2>1. CASE u = t
    BY <2>1, <1>2 DEF Owned
  <2>2. CASE u # t
    BY <2>2, <1>2 DEF Owned
  <2> QED BY <2>1, <2>2
<1> QED BY <1>2, <1>4, <1>5, <1>6 DEF Consistent, d

\* ... and written, one less: nobody has changed it in between.
LEMMA WriteKeeps ==
  ASSUME NEW s, NEW h, NEW c, Consistent(s, h, c), StoreMax # 0, Static = {},
         NEW t \in Thread, c[t].op = "write"
  PROVE  Consistent([s EXCEPT !.refs[c[t].val] = c[t].read - 1], h,
                    [c EXCEPT ![t] = Idle])
<1> DEFINE v == c[t].val
           r == [s EXCEPT !.refs[v] = c[t].read - 1]
           d == [c EXCEPT ![t] = Idle]
<1>1. /\ Typed(s, h, c) /\ s \in StoreType /\ c \in [Thread -> CallType]
      /\ v \in Val /\ Val = Obj /\ v # NoVal /\ Owned(s, h, c)
      /\ c[t].read = s.refs[v] /\ OwnedBy(h, v, t)
      /\ Of(t) \subseteq Handle
  <2>1. /\ Typed(s, h, c) /\ s \in StoreType /\ c \in [Thread -> CallType]
        /\ Owned(s, h, c)
    BY DEF Consistent, Typed
  <2>2. c[t].read = s.refs[v] /\ OwnedBy(h, v, t)
    BY <2>1 DEF Owned
  <2> QED BY <2>1, <2>2, ConstantsAssumption DEF CallType, Val, Of, Handle
<1>2. /\ r.refs = [s.refs EXCEPT ![v] = @ - 1]
      /\ r.live = s.live /\ r.val = s.val /\ r.key = s.key /\ r.hash = s.hash
      /\ r.lru = s.lru /\ Listed(r) = Listed(s)
  BY <1>1 DEF StoreType, Listed
<1>3. r \in StoreType
  <2>1. [s.refs EXCEPT ![v] = c[t].read - 1] \in [Val -> Int]
    BY <1>1 DEF StoreType
  <2> QED BY <1>1, <2>1 DEF StoreType
<1>4. /\ d \in [Thread -> CallType] /\ Typed(r, h, d)
      /\ d[t].op = "idle" /\ d[t].item = NoItem /\ d[t].prev = NoItem
      /\ c[t].item = NoItem /\ c[t].prev = NoItem
      /\ \A u \in Thread : u # t => d[u] = c[u]
  <2>1. d \in [Thread -> CallType]
    BY <1>1, IdleType
  <2>2. c[t].item = NoItem /\ c[t].prev = NoItem
    BY DEF Consistent, CallsDistinct
  <2> QED BY <1>1, <1>3, <2>1, <2>2 DEF Typed, Idle
<1> HIDE DEF r, d
<1>5. Pins(r, d) = Pins(s, c)
  BY <1>2, <1>4 DEF Pins
<1>6. Rejects(d) = [Rejects(c) EXCEPT ![t] = NoVal] /\ Rejects(c)[t] = v
  <2>1. Rejects(d)[t] = NoVal
    BY <1>4 DEF Rejects
  <2>2. \A u \in Thread : u # t => Rejects(d)[u] = Rejects(c)[u]
    BY <1>4 DEF Rejects
  <2>3. Rejects(c)[t] = v
    BY DEF Rejects
  <2> HIDE DEF v
  <2> QED BY <2>1, <2>2, <2>3, Zenon DEF Rejects
<1> HIDE DEF v
<1>7. Counted(r, h, d)
  <2>1. ASSUME NEW w \in Obj
        PROVE  /\ r.refs[w] = Occurrences(h, w) + Occurrences(r.val, w)
                   + Occurrences(Pins(r, d), w) + Occurrences(Rejects(d), w)
               /\ w \in r.live <=> r.refs[w] > 0
    <3>1. s.refs[w] = Occurrences(h, w) + Occurrences(s.val, w)
                   + Occurrences(Pins(s, c), w) + Occurrences(Rejects(c), w)
          /\ (w \in s.live <=> s.refs[w] > 0)
      BY DEF Consistent, Counted
    <3>2. Occurrences(Rejects(d), w) = Occurrences(Rejects(c), w) - One(w, v)
      <4>1. IsFiniteSet(DOMAIN Rejects(c)) /\ t \in DOMAIN Rejects(c)
        BY Finite DEF Rejects
      <4>2. Occurrences([Rejects(c) EXCEPT ![t] = NoVal], w)
              = Occurrences(Rejects(c), w) + One(w, NoVal) - One(w, Rejects(c)[t])
        BY <4>1, Changed
      <4>3. One(w, NoVal) = 0 /\ One(w, v) \in Int
        BY ConstantsAssumption DEF One
      <4> QED BY <4>2, <4>3, <1>1, <1>6, CountsNat
    <3>3. r.refs[w] = s.refs[w] - One(w, v)
      BY <1>1, <1>2 DEF One, StoreType, Val
    <3>4. w = v => Occurrences(h, w) > 0
      BY <1>1, CountsNat DEF OwnedBy
    <3>5. Occurrences(Rejects(d), w) \in Nat /\ One(w, v) \in {0, 1}
      BY <1>4, CountsNat DEF One
    <3>6. r.refs[w] > 0 <=> s.refs[w] > 0
      BY <3>1, <3>2, <3>3, <3>4, <3>5, <1>1, CountsNat DEF One
    <3> QED BY <3>1, <3>2, <3>3, <3>5, <3>6, <1>1, <1>2, <1>5, CountsNat
  <2> QED BY <2>1 DEF Counted
<1>8. CallsDistinct(d) /\ Stays(r, d)
  BY <1>2, <1>4 DEF Consistent, CallsDistinct, Stays
<1>9. Indexes(r, d)
  <2>1. \A u \in Thread : d[u].item = c[u].item
    BY <1>4
  <2> QED BY <2>1, <1>2 DEF Consistent, Indexes
<1>10. Owned(r, h, d)
  <2> SUFFICES ASSUME NEW u \in Thread
               PROVE  Owned(r, h, d)!(u)
    BY DEF Owned
  <2>1. CASE u = t
    BY <2>1, <1>4
  <2>2. CASE u # t
    <3>1. c[u].op = "write" => r.refs[c[u].val] = s.refs[c[u].val]
      <4> SUFFICES ASSUME c[u].op = "write"
                   PROVE  r.refs[c[u].val] = s.refs[c[u].val]
        OBVIOUS
      <4>1. OwnedBy(h, c[u].val, u) /\ c[u].val \in Val
        BY <1>1 DEF Owned, CallType
      <4>2. \A y \in Of(u) : y \notin Of(t)
        BY <2>2 DEF Of
      <4>3. c[u].val # v
        BY <4>1, <4>2, <1>1 DEF OwnedBy
      <4> QED BY <4>1, <4>3, <1>1, <1>2 DEF StoreType
    <3> QED BY <2>2, <3>1, <1>1, <1>2, <1>4 DEF Owned
  <2> QED BY <2>1, <2>2
<1> QED BY <1>4, <1>7, <1>8, <1>9, <1>10 DEF Consistent, r, d, v

-----------------------------------------------------------------------------
(* The steps                                                               *)

\* What has a count of one is the store's alone.
LEMMA EvictableIsUnused ==
  ASSUME NEW s, NEW h, NEW c, Consistent(s, h, c), StoreMax # 0, Static = {},
         NEW x \in Evictable(s)
  PROVE  /\ x \in Item /\ x \in Listed(s) /\ s.val[x] # NoVal
         /\ \A t \in Thread : c[t].item # x /\ c[t].prev # x
         /\ \A y \in Handle : h[y] # s.val[x]
<1> DEFINE v == s.val[x]
<1>1. Typed(s, h, c) /\ s \in StoreType /\ Owned(s, h, c)
  BY DEF Consistent, Typed
<1>2. x \in Listed(s) /\ x \in Item /\ x # NoItem /\ s.refs[v] = 1
  BY <1>1, ListedIsItem, ConstantsAssumption DEF Evictable
<1>3. v # NoVal /\ v \in Obj
  <2>1. v # NoVal
    BY <1>2 DEF Consistent, Indexes
  <2> QED BY <1>1, <1>2, <2>1 DEF StoreType, Val
<1>4. s.refs[v] = Occurrences(h, v) + Occurrences(s.val, v)
                   + Occurrences(Pins(s, c), v) + Occurrences(Rejects(c), v)
  BY <1>3 DEF Consistent, Counted
<1>5. Occurrences(s.val, v) > 0
  BY <1>1, <1>2, CountsNat
<1>6. Occurrences(h, v) = 0 /\ Occurrences(Pins(s, c), v) = 0
  <2> HIDE DEF v
  <2> QED BY <1>1, <1>2, <1>4, <1>5, CountsNat
<1>7. /\ \A y \in Handle : h[y] # v
      /\ \A t \in Thread : Pins(s, c)[t] # v
  BY <1>1, <1>6, CountsNat
<1>8. ASSUME NEW t \in Thread PROVE c[t].prev # x
  BY <1>2, <1>7 DEF Pins
<1>9. ASSUME NEW t \in Thread PROVE c[t].item # x
  <2> SUFFICES ASSUME c[t].item = x PROVE FALSE
    OBVIOUS
  <2>1. c[t].op = "ensure"
    BY <1>2 DEF Consistent, CallsDistinct
  <2> QED BY <2>1, <1>1, <1>7 DEF Owned, Of, Handle
<1> QED BY <1>2, <1>3, <1>7, <1>8, <1>9

LEMMA EvictKeeps ==
  ASSUME NEW s, NEW h, NEW c, Consistent(s, h, c),
         NEW x \in Item, s.val[x] # NoVal,
         \A t \in Thread : c[t].item # x /\ c[t].prev # x
  PROVE  Consistent(Evict(s, x), h, c)
<1> DEFINE r == Detach(s, x)
           q == Evict(s, x)
<1>1. Consistent(r, h, c) /\ s \in StoreType
  BY DetachKeeps DEF Consistent, Typed
<1>2. r \in StoreType /\ q \in StoreType
  BY <1>1, DetachType, EvictType
<1>3. /\ q.refs = r.refs /\ q.live = r.live /\ q.val = r.val /\ q.key = r.key
      /\ q.hash = r.hash /\ q.lru = r.lru
  <2>1. q = [r EXCEPT !.size = UInt(@ - s.bytes[x])]
    BY DEF Evict
  <2> HIDE DEF r, q
  <2> QED BY <1>2, <2>1 DEF StoreType
<1> HIDE DEF r, q
<1>4. Consistent(q, h, c)
  BY <1>1, <1>2, <1>3, SameStore
<1> QED BY <1>4 DEF q

\* Thread t is making space for its item in a store s, in the middle of a
\* stretch; c is call with its place in it.
Making(t, s, c, i) ==
  /\ Consistent(s, held, c)
  /\ StoreMax # 0 /\ Static = {}
  /\ CallOK
  /\ \A u \in Thread : u # t => c[u] = call[u]
  /\ c[t].op = "ensure" /\ c[t].prev = NoItem /\ c[t].item = i

LEMMA EvictForKeeps ==
  ASSUME NEW t \in Thread, NEW s, NEW c, NEW i, Making(t, s, c, i),
         NEW x \in Evictable(s), NEW tofree \in Nat, NEW count \in Nat,
         EvictFor(t, s, i, x, tofree, count)
  PROVE  Consistent(store', held, call')
<1> DEFINE p == Prev(s, x)
           r == AddRefs(s, p, 1)
           d == [c EXCEPT ![t].prev = p]
           e == [Idle EXCEPT !.op = "ensure", !.item = i, !.prev = p,
                             !.tofree = tofree, !.count = count + s.bytes[x]]
<1>1. /\ Consistent(s, held, c) /\ StoreMax # 0 /\ Static = {} /\ CallOK
      /\ s \in StoreType /\ c \in [Thread -> CallType]
      /\ i \in Item /\ s.val[i] \in Val
  <2>1. /\ Consistent(s, held, c) /\ StoreMax # 0 /\ Static = {} /\ CallOK
        /\ c[t].op = "ensure" /\ c[t].item = i
    BY DEF Making
  <2>2. s \in StoreType /\ c \in [Thread -> CallType]
    BY <2>1 DEF Consistent, Typed
  <2>3. i \in Item
    BY <2>1, <2>2 DEF CallType
  <2>4. s.val[i] # NoVal
    BY <2>1, <2>3, ConstantsAssumption DEF Consistent, Stays
  <2> QED BY <2>1, <2>2, <2>3, <2>4 DEF StoreType
<1>2. /\ x \in Item /\ x \in Listed(s) /\ s.val[x] # NoVal
      /\ \A u \in Thread : c[u].item # x /\ c[u].prev # x
  BY <1>1, EvictableIsUnused
<1>3. /\ store' = Evict(r, x) /\ call' = [call EXCEPT ![t] = e]
      /\ CallOK'
  BY <1>1, <1>2, EvictForType DEF EvictFor
<1>4. p \in Listed(s) \cup {NoItem} /\ p # x
  <2>1. p \in Listed(s) \cup {NoItem}
    BY <1>1, <1>2, PrevIs
  <2>2. /\ Position(s, x) \in 1..Len(s.lru) /\ s.lru[Position(s, x)] = x
        /\ IsInjective(s.lru) /\ s.lru \in Seq(Item)
    BY <1>1, <1>2, PositionIs DEF Consistent, Indexes, StoreType
  <2>3. p # x
    <3>1. CASE Position(s, x) = 1
      BY <3>1, <1>2, ConstantsAssumption DEF Prev
    <3>2. CASE Position(s, x) # 1
      <4>1. Position(s, x) - 1 \in 1..Len(s.lru) /\ Position(s, x) - 1 # Position(s, x)
        BY <3>2, <2>2
      <4>2. s.lru[Position(s, x) - 1] # s.lru[Position(s, x)]
        BY <4>1, <2>2 DEF IsInjective
      <4> QED BY <3>2, <4>2, <2>2 DEF Prev
    <3> QED BY <3>1, <3>2
  <2> QED BY <2>1, <2>3
<1> HIDE DEF p
<1>5. Consistent(r, held, d) /\ r.val = s.val
  <2>1. CASE p = NoItem
    <3>1. r = s
      BY <2>1 DEF AddRefs
    <3>2. d = c
      BY <1>1, <2>1 DEF Making, CallType
    <3> QED BY <3>1, <3>2, <1>1
  <2>2. CASE p \in Listed(s)
    <3>1. Consistent(r, held, d)
      BY <1>1, <2>2, PinKeeps DEF Making
    <3>2. r.val = s.val
      BY <1>1 DEF AddRefs, StoreType
    <3> QED BY <3>1, <3>2
  <2> QED BY <2>1, <2>2, <1>4
<1>6. /\ d[t].op = "ensure" /\ d[t].item = i /\ d[t].prev = p
      /\ \A u \in Thread : u # t => d[u] = call[u]
  BY <1>1 DEF Making, CallType
<1> HIDE DEF r, d
<1>7. \A u \in Thread : d[u].item # x /\ d[u].prev # x
  BY <1>2, <1>4, <1>6 DEF Making
<1>8. Consistent(Evict(r, x), held, d)
  BY <1>2, <1>5, <1>7, EvictKeeps
<1>9. /\ call'[t] = e /\ e.op = "ensure" /\ e.item = i /\ e.prev = p
      /\ \A u \in Thread : u # t => call'[u] = call[u]
  <2>1. e.op = "ensure" /\ e.item = i /\ e.prev = p
    BY DEF Idle
  <2> HIDE DEF e
  <2> QED BY <2>1, <1>1, <1>3 DEF CallOK
<1> HIDE DEF e
<1>10. call' \in [Thread -> CallType]
  BY <1>3 DEF CallOK
<1>11. Consistent(Evict(r, x), held, call')
  BY <1>6, <1>8, <1>9, <1>10, SameCalls
<1> QED BY <1>3, <1>11

LEMMA AcceptedKeeps ==
  ASSUME NEW t \in Thread, NEW s, NEW c, NEW i, Consistent(s, held, c), CallOK,
         \A u \in Thread : u # t => c[u] = call[u],
         c[t].op = "ensure", c[t].prev = NoItem, c[t].item = i,
         store' = Accept(s, i), Return(t)
  PROVE  Consistent(store', held, call')
<1>1. c \in [Thread -> CallType]
  BY DEF Consistent, Typed
<1>2. call' = [c EXCEPT ![t] = Idle]
  BY <1>1 DEF CallOK, Return
<1> QED BY <1>2, AcceptKeeps

LEMMA GiveUpKeeps ==
  ASSUME NEW t \in Thread, NEW s, NEW c, NEW i, Making(t, s, c, i), GiveUp(t, s, i)
  PROVE  Consistent(store', held, call')
<1>1. CASE s.key[i] \in Indexed /\ i \in Listed(s)
  BY <1>1, AcceptedKeeps DEF Making, GiveUp
<1>2. CASE ~(s.key[i] \in Indexed /\ i \in Listed(s))
  <2> DEFINE e == [Idle EXCEPT !.op = "reject", !.val = s.val[i]]
  <2>1. i \notin Listed(s)
    BY <1>2 DEF Making, Consistent, Owned
  <2>2. c \in [Thread -> CallType]
    BY DEF Making, Consistent, Typed
  <2>3. /\ store' = [s EXCEPT !.hash = Unhashed(s, i), !.val[i] = NoVal,
                              !.key[i] = NoKey, !.bytes[i] = 0]
        /\ call' = [c EXCEPT ![t] = e]
    <3>1. /\ store' = [s EXCEPT !.hash = Unhashed(s, i), !.val[i] = NoVal,
                                !.key[i] = NoKey, !.bytes[i] = 0]
          /\ call' = [call EXCEPT ![t] = e]
      BY <1>2 DEF GiveUp
    <3> HIDE DEF e
    <3>2. [call EXCEPT ![t] = e] = [c EXCEPT ![t] = e]
      BY <2>2 DEF Making, CallOK
    <3> QED BY <3>1, <3>2
  <2>4. /\ Consistent(s, held, c) /\ StoreMax # 0 /\ c[t].op = "ensure"
        /\ c[t].prev = NoItem /\ i = c[t].item
    BY DEF Making
  <2>5. Consistent([s EXCEPT !.hash = Unhashed(s, i), !.val[i] = NoVal,
                             !.key[i] = NoKey, !.bytes[i] = 0], held,
                   [c EXCEPT ![t] = [Idle EXCEPT !.op = "reject",
                                                 !.val = s.val[i]]])
    BY <2>1, <2>4, RejectKeeps
  <2> QED BY <2>3, <2>5
<1> QED BY <1>1, <1>2

LEMMA EnsureSpaceKeeps ==
  ASSUME NEW t \in Thread, NEW s, NEW c, NEW i, Making(t, s, c, i),
         NEW tofree \in Nat, EnsureSpace(t, s, i, tofree)
  PROVE  Consistent(store', held, call')
<1> DEFINE x == Victim(s, Oldest(s))
<1>1. s \in StoreType
  BY DEF Making, Consistent, Typed
<1>2. CASE x = NoItem \/ EvictableSize(s) < tofree
  BY <1>2, GiveUpKeeps DEF EnsureSpace
<1>3. CASE ~(x = NoItem \/ EvictableSize(s) < tofree)
  <2>1. x \in Evictable(s)
    BY <1>1, <1>3, VictimIs
  <2>2. EvictFor(t, s, i, x, tofree, 0)
    BY <1>3 DEF EnsureSpace
  <2> QED BY <2>1, <2>2, EvictForKeeps
<1> QED BY <1>2, <1>3

LEMMA Mode ==
  ASSUME Undisturbed, IInv
  PROVE  /\ Consistent(store, held, call) /\ TypeOK /\ CallOK
         /\ StoreMax # 0 =>
              Static = {} /\ Closers = {} /\ Removers = {} /\ ~StoreShared
         /\ StoreMax = 0 =>
              \A t \in Thread :
                /\ call[t].op \notin {"ensure", "reject", "write"}
                /\ call[t].item = NoItem /\ call[t].prev = NoItem
<1>1. Consistent(store, held, call) /\ Unhindered
  BY DEF IInv
<1>2. TypeOK /\ CallOK
  BY <1>1 DEF Consistent, Typed, TypeOK, CallOK
<1>3. CallsDistinct(call)
  BY <1>1 DEF Consistent
<1> QED BY <1>1, <1>2, <1>3 DEF Undisturbed, Unhindered, CallsDistinct

\* fz_store_item with its new item: the store before the size is looked at
Stored(h, k, i) ==
  LET v == held[h]
  IN  Ref([store EXCEPT !.val[i] = v, !.key[i] = k, !.bytes[i] = SizeOf[v],
                        !.hash = IF k \in Indexed
                                 THEN [@ EXCEPT ![k] = i] ELSE @], v)

LEMMA StoreNewEnters ==
  ASSUME Undisturbed, IInv, NEW t \in Thread, NEW h \in Of(t), NEW k \in Key,
         NEW i \in Item, StoreNew(t, h, k, i)
  PROVE  LET s == Stored(h, k, i)
             c == Entering(call, t, i)
         IN  /\ Consistent(s, held, c)
             /\ c[t].op = "ensure" /\ c[t].prev = NoItem /\ c[t].item = i
             /\ \A u \in Thread : u # t => c[u] = call[u]
             /\ StoreMax # 0 => Making(t, s, c, i)
             /\ \/ store' = Accept(s, i) /\ Return(t)
                \/ StoreMax # 0 /\ \E n \in Nat : EnsureSpace(t, s, i, n)
             /\ held' = held
<1> DEFINE v == held[h]
           s == Stored(h, k, i)
           c == Entering(call, t, i)
           size == UInt(store.size + SizeOf[v])
<1>1. /\ Consistent(store, held, call) /\ TypeOK /\ CallOK
      /\ call[t] = Idle /\ v # NoVal /\ v \in Val /\ store.val[i] = NoVal
      /\ k \in Indexed => store.hash[k] = NoItem
      /\ held' = held
  BY Mode DEF StoreNew, StorePre, Running, TypeOK, Of, Handle
<1>2. SizeOf[v] \in 0..UIntMax
  BY <1>1, ConstantsAssumption DEF Val
<1>3. StoreMax # 0 => /\ \A y \in Handle : held[y] = v => y \in Of(t)
                      /\ \A j \in Item : store.val[j] # v
  BY Mode DEF StoreNew, StorePre
<1>4. Consistent(s, held, c)
  BY <1>1, <1>2, <1>3, EnterKeeps DEF Stored
<1>5. IF StoreMax = 0 \/ size <= StoreMax
      THEN store' = Accept(s, i) /\ Return(t)
      ELSE EnsureSpace(t, s, i, size - StoreMax)
  BY DEF StoreNew, Stored
<1> HIDE DEF s
<1>6. /\ c[t].op = "ensure" /\ c[t].prev = NoItem /\ c[t].item = i
      /\ \A u \in Thread : u # t => c[u] = call[u]
  <2>1. c[t] = [Idle EXCEPT !.op = "ensure", !.item = i]
    BY <1>1 DEF Entering, CallOK
  <2>2. \A u \in Thread : u # t => c[u] = call[u]
    BY <1>1 DEF Entering, CallOK
  <2> HIDE DEF c
  <2> QED BY <2>1, <2>2 DEF Idle
<1> HIDE DEF c, v
<1>7. StoreMax # 0 => Making(t, s, c, i)
  BY <1>1, <1>4, <1>6, Mode DEF Making
<1>8. \/ store' = Accept(s, i) /\ Return(t)
      \/ StoreMax # 0 /\ \E n \in Nat : EnsureSpace(t, s, i, n)
  <2>1. CASE StoreMax = 0 \/ size <= StoreMax
    BY <1>5, <2>1
  <2>2. CASE ~(StoreMax = 0 \/ size <= StoreMax)
    <3>1. size - StoreMax \in Nat
      <4>1. store.size + SizeOf[v] \in Int
        BY <1>1, <1>2, ConstantsAssumption DEF TypeOK, StoreType
      <4> QED BY <4>1, <2>2, UIntType, ConstantsAssumption
    <3> HIDE DEF size
    <3> QED BY <1>5, <2>2, <3>1
  <2> QED BY <2>1, <2>2
<1> QED BY <1>1, <1>4, <1>6, <1>7, <1>8 DEF s, c

LEMMA StoreNewKeeps ==
  ASSUME Undisturbed, IInv, NEW t \in Thread, NEW h \in Of(t), NEW k \in Key,
         NEW i \in Item, StoreNew(t, h, k, i)
  PROVE  Consistent(store', held', call')
<1> DEFINE s == Stored(h, k, i)
           c == Entering(call, t, i)
<1>1. /\ Consistent(s, held, c)
      /\ c[t].op = "ensure" /\ c[t].prev = NoItem /\ c[t].item = i
      /\ \A u \in Thread : u # t => c[u] = call[u]
      /\ StoreMax # 0 => Making(t, s, c, i)
      /\ \/ store' = Accept(s, i) /\ Return(t)
         \/ StoreMax # 0 /\ \E n \in Nat : EnsureSpace(t, s, i, n)
      /\ held' = held /\ CallOK
  BY StoreNewEnters, Mode
<1> HIDE DEF s, c
<1>2. CASE store' = Accept(s, i) /\ Return(t)
  <2>1. Consistent(store', held, call')
    BY <1>1, <1>2, AcceptedKeeps
  <2> QED BY <1>1, <2>1
<1>3. ASSUME StoreMax # 0, NEW n \in Nat, EnsureSpace(t, s, i, n)
      PROVE  Consistent(store', held', call')
  <2>1. Consistent(store', held, call')
    BY <1>1, <1>3, EnsureSpaceKeeps
  <2> QED BY <1>1, <2>1
<1> QED BY <1>1, <1>2, <1>3

\* ensure_space when it has the lock again: prev is let go of
LEMMA StoreResumes ==
  ASSUME Undisturbed, IInv, NEW t \in Thread, StoreResume(t)
  PROVE  LET s == AddRefs(store, call[t].prev, -1)
         IN  /\ Making(t, s, [call EXCEPT ![t].prev = NoItem], call[t].item)
             /\ held' = held
             /\ \/ store' = Accept(s, call[t].item) /\ Return(t)
                \/ \E x \in Evictable(s), m, n \in Nat :
                     EvictFor(t, s, call[t].item, x, m, n)
                \/ GiveUp(t, s, call[t].item)
                \/ \E n \in Nat : EnsureSpace(t, s, call[t].item, n)
<1> DEFINE p == call[t].prev
           i == call[t].item
           tofree == call[t].tofree
           count == call[t].count
           s == AddRefs(store, p, -1)
           c == [call EXCEPT ![t].prev = NoItem]
           x == Victim(s, p)
<1>1. /\ Consistent(store, held, call) /\ TypeOK /\ CallOK
      /\ StoreMax # 0 /\ Static = {} /\ call[t].op = "ensure"
      /\ held' = held /\ tofree \in Nat /\ count \in Nat
  BY Mode DEF StoreResume, CallOK, CallType
<1>2. IF count >= tofree THEN store' = Accept(s, i) /\ Return(t)
      ELSE IF x # NoItem THEN EvictFor(t, s, i, x, tofree, count)
      ELSE IF count = 0 THEN GiveUp(t, s, i)
      ELSE EnsureSpace(t, s, i, tofree - count)
  BY DEF StoreResume
<1>3. Consistent(s, held, c)
  <2>1. CASE p = NoItem
    <3>1. s = store
      BY <2>1 DEF AddRefs
    <3>2. c = call
      BY <1>1, <2>1 DEF CallOK, CallType
    <3> QED BY <3>1, <3>2, <1>1
  <2>2. CASE p # NoItem
    BY <1>1, <2>2, UnpinKeeps
  <2> QED BY <2>1, <2>2
<1>4. Making(t, s, c, i)
  <2>1. /\ c[t].op = "ensure" /\ c[t].prev = NoItem /\ c[t].item = i
        /\ \A u \in Thread : u # t => c[u] = call[u]
    BY <1>1 DEF CallOK, CallType
  <2> QED BY <1>1, <1>3, <2>1 DEF Making
<1>5. x # NoItem => x \in Evictable(s)
  <2>1. s \in StoreType
    BY <1>3 DEF Consistent, Typed
  <2> QED BY <2>1, VictimIs
<1>6. ~(count >= tofree) => tofree - count \in Nat
  BY <1>1
<1> HIDE DEF s, x, p, i, tofree, count
<1>7. \/ store' = Accept(s, i) /\ Return(t)
      \/ \E y \in Evictable(s), m, n \in Nat : EvictFor(t, s, i, y, m, n)
      \/ GiveUp(t, s, i)
      \/ \E n \in Nat : EnsureSpace(t, s, i, n)
  BY <1>1, <1>2, <1>5, <1>6, Zenon
<1> QED BY <1>1, <1>4, <1>7 DEF s, i, p

LEMMA StoreResumeKeeps ==
  ASSUME Undisturbed, IInv, NEW t \in Thread, StoreResume(t)
  PROVE  Consistent(store', held', call')
<1> DEFINE i == call[t].item
           s == AddRefs(store, call[t].prev, -1)
           c == [call EXCEPT ![t].prev = NoItem]
<1>1. /\ Making(t, s, c, i) /\ held' = held
      /\ \/ store' = Accept(s, i) /\ Return(t)
         \/ \E x \in Evictable(s), m, n \in Nat : EvictFor(t, s, i, x, m, n)
         \/ GiveUp(t, s, i)
         \/ \E n \in Nat : EnsureSpace(t, s, i, n)
  BY StoreResumes
<1> HIDE DEF s, c, i
<1>2. CASE store' = Accept(s, i) /\ Return(t)
  <2>1. Consistent(store', held, call')
    BY <1>1, <1>2, AcceptedKeeps DEF Making
  <2> QED BY <1>1, <2>1
<1>3. CASE GiveUp(t, s, i)
  BY <1>1, <1>3, GiveUpKeeps
<1>4. ASSUME NEW x \in Evictable(s), NEW m \in Nat, NEW n \in Nat,
             EvictFor(t, s, i, x, m, n)
      PROVE  Consistent(store', held', call')
  BY <1>1, <1>4, EvictForKeeps
<1>5. ASSUME NEW n \in Nat, EnsureSpace(t, s, i, n)
      PROVE  Consistent(store', held', call')
  BY <1>1, <1>5, EnsureSpaceKeeps
<1> QED BY <1>1, <1>2, <1>3, <1>4, <1>5

LEMMA UnusedInStore ==
  ASSUME Undisturbed, IInv, NEW x \in Evictable(store)
  PROVE  /\ x \in Item /\ store.val[x] # NoVal
         /\ \A t \in Thread : call[t].item # x /\ call[t].prev # x
<1>1. CASE StoreMax # 0
  BY <1>1, Mode, EvictableIsUnused
<1>2. CASE StoreMax = 0
  <2>1. x \in Listed(store) /\ x \in Item /\ x # NoItem
    BY Mode, ListedIsItem, ConstantsAssumption DEF Evictable, TypeOK
  <2>2. store.val[x] # NoVal
    BY <2>1, Mode DEF Consistent, Indexes
  <2> QED BY <2>1, <2>2, <1>2, Mode
<1> QED BY <1>1, <1>2

\* A thread that is not in fz_store_item goes on to another such place.
LEMMA OtherCallKeeps ==
  ASSUME NEW s, Consistent(s, held, call), CallOK, NEW t \in Thread, NEW e \in CallType,
         call[t].op \notin {"ensure", "reject", "write"},
         e.op \notin {"ensure", "reject", "write"}, e.op = "empty" => t \in Closers,
         e.item = NoItem, e.prev = NoItem, call' = [call EXCEPT ![t] = e]
  PROVE  Consistent(s, held, call')
<1>1. call[t].item = NoItem /\ call[t].prev = NoItem
  BY DEF Consistent, CallsDistinct
<1>2. /\ call' \in [Thread -> CallType] /\ call'[t] = e
      /\ \A u \in Thread : u # t => call'[u] = call[u]
  BY DEF CallOK
<1>3. \A u \in Thread :
        /\ call'[u].item = call[u].item /\ call'[u].prev = call[u].prev
        /\ \/ call'[u] = call[u]
           \/ /\ call[u].op \notin {"ensure", "reject", "write"}
              /\ call'[u].op \notin {"ensure", "reject", "write"}
              /\ call'[u].op = "empty" => u \in Closers
  BY <1>1, <1>2
<1> QED BY <1>2, <1>3, SameCalls

LEMMA ScavengeKeeps ==
  ASSUME Undisturbed, IInv, NEW t \in Thread, NEW size, NEW phase,
         call[t].op \notin {"ensure", "reject", "write"}, CallOK',
         Scavenge(t, size, phase)
  PROVE  Consistent(store', held, call')
<1> DEFINE x == Victim(store, Oldest(store))
           p == Min(Usable(size, phase))
           a == [Idle EXCEPT !.op = "nomem", !.asked = size]
           b == [Idle EXCEPT !.op = "scavenge", !.asked = size,
                             !.phase = Min({p + 1, 17}),
                             !.tofree = ToFree(size, p),
                             !.count = store.bytes[x]]
<1>1. Consistent(store, held, call) /\ CallOK /\ store \in StoreType
  BY Mode DEF TypeOK
<1>2. CASE x = NoItem \/ Usable(size, phase) = {}
  <2>1. store' = store /\ call' = [call EXCEPT ![t] = a]
    BY <1>2 DEF Scavenge
  <2>2. a.op = "nomem" /\ a.item = NoItem /\ a.prev = NoItem
    BY DEF Idle
  <2> HIDE DEF a, x
  <2>3. a \in CallType
    BY <1>1, <2>1 DEF CallOK
  <2> QED BY <1>1, <2>1, <2>2, <2>3, OtherCallKeeps
<1>3. CASE ~(x = NoItem \/ Usable(size, phase) = {})
  <2>1. store' = Evict(store, x) /\ call' = [call EXCEPT ![t] = b]
    BY <1>3 DEF Scavenge
  <2>2. b.op = "scavenge" /\ b.item = NoItem /\ b.prev = NoItem
    BY DEF Idle
  <2>3. x \in Evictable(store)
    BY <1>1, <1>3, VictimIs
  <2> HIDE DEF b, x
  <2>4. Consistent(Evict(store, x), held, call)
    BY <1>1, <2>3, UnusedInStore, EvictKeeps
  <2>5. b \in CallType
    BY <1>1, <2>1 DEF CallOK
  <2> QED BY <1>1, <2>1, <2>2, <2>4, <2>5, OtherCallKeeps
<1> QED BY <1>2, <1>3

\* fz_find_item, and fz_store_item when the key is there already
LEMMA FoundKeeps ==
  ASSUME Undisturbed, IInv, NEW k \in Key, NEW x \in Handle, held[x] = NoVal,
         Lookup(store, k) # NoItem
  PROVE  Consistent(Ref(Touch(store, Lookup(store, k)), store.val[Lookup(store, k)]),
                    [held EXCEPT ![x] = store.val[Lookup(store, k)]], call)
<1> DEFINE i == Lookup(store, k)
           v == store.val[i]
           s == Touch(store, i)
<1>1. Consistent(store, held, call) /\ store \in StoreType
  BY Mode DEF TypeOK
<1>2. i \in Item /\ v # NoVal /\ (i \in Listed(store) \/ store.key[i] \in Indexed)
  BY <1>1, LookupIs DEF Consistent, Indexes
<1> HIDE DEF i
<1>3. v \in Val
  BY <1>1, <1>2 DEF StoreType
<1>4. Consistent(s, held, call)
  BY <1>1, <1>2, TouchKeeps
<1>5. s.val = store.val /\ i \in Listed(s)
  <2>1. s.val = store.val
    BY <1>1 DEF Touch, StoreType
  <2>2. Listed(s) = Listed(store) \cup {i}
    <3>1. s.lru = ToHead(store, i)
      BY <1>1 DEF Touch, StoreType
    <3> QED BY <3>1, <1>1, <1>2, ToHeadIs DEF Consistent, Indexes, Listed
  <2> QED BY <2>1, <2>2
<1> HIDE DEF s
<1>6. StoreMax # 0 =>
        \A t \in Thread :
          /\ call[t].op = "ensure" /\ call[t].item \notin Listed(s) =>
               s.val[call[t].item] # v
          /\ call[t].op \in {"reject", "write"} => call[t].val # v
  BY <1>2, <1>4, <1>5 DEF Consistent, Owned
<1>7. \E j \in Item : s.val[j] = v
  BY <1>2, <1>5
<1> HIDE DEF v
<1>8. Consistent(Ref(s, v), [held EXCEPT ![x] = v], call)
  BY <1>3, <1>4, <1>6, <1>7, RefKeeps
<1> QED BY <1>8 DEF s, v, i

LEMMA ClientKeeps ==
  ASSUME Undisturbed, IInv, NEW t \in Thread, Client(t)
  PROVE  Consistent(store', held', call')
<1>1. /\ Consistent(store, held, call) /\ TypeOK /\ CallOK /\ store \in StoreType
      /\ held \in [Handle -> Val \cup {NoVal}] /\ Of(t) \subseteq Handle
  BY Mode DEF TypeOK, Of, Handle
<1>2. CallOK'
  BY <1>1, ClientType DEF TypeOK, CallOK
<1>3. Running(t) => call[t].op = "idle"
  BY DEF Running, Idle
<1>4. ASSUME NEW h \in Of(t), NEW v \in Val, Create(t, h, v)
      PROVE  Consistent(store', held', call')
  <2>1. v \in Obj /\ v \notin store.live /\ h \in Handle /\ held[h] = NoVal
    BY <1>1, <1>4 DEF Create
  <2>2. Consistent([store EXCEPT !.refs[v] = 1, !.live = @ \cup {v}],
                   [held EXCEPT ![h] = v], call)
    BY <1>1, <2>1, CreateKeeps
  <2> QED BY <1>4, <2>2 DEF Create
<1>5. ASSUME NEW h \in Of(t), NEW v \in Val, GetStatic(t, h, v)
      PROVE  Consistent(store', held', call')
  <2>1. v \in Static /\ h \in Handle /\ held[h] = NoVal
    BY <1>1, <1>5 DEF GetStatic
  <2>2. Ref(store, v) = store
    BY <1>1, <2>1 DEF Ref, Consistent, Counted
  <2>3. StoreMax = 0
    BY <2>1, Mode
  <2>4. Consistent(Ref(store, v), [held EXCEPT ![h] = v], call)
    BY <1>1, <2>1, <2>3, RefKeeps
  <2> QED BY <1>5, <2>2, <2>4 DEF GetStatic
<1>6. ASSUME NEW h \in Of(t), Drop(t, h)
      PROVE  Consistent(store', held', call')
  <2>1. /\ held[h] # NoVal /\ call[t].op \notin {"ensure", "reject", "write"}
    BY <1>3, <1>6 DEF Drop
  <2>2. Consistent(IF store.refs[held[h]] < 0 THEN store
                   ELSE [store EXCEPT !.refs[held[h]] = @ - 1,
                                      !.live = IF store.refs[held[h]] = 1
                                               THEN @ \ {held[h]} ELSE @],
                   [held EXCEPT ![h] = NoVal], call)
    BY <1>1, <2>1, DropKeeps
  <2> QED BY <1>6, <2>2 DEF Drop
<1>7. ASSUME NEW h \in Of(t), NEW to \in Handle, Keep(t, h, to)
      PROVE  Consistent(store', held', call')
  <2> DEFINE v == held[h]
  <2>1. v \in Val /\ held[to] = NoVal /\ h \in Handle
    BY <1>1, <1>7 DEF Keep
  <2>2. ASSUME StoreMax # 0, NEW u \in Thread
        PROVE  /\ call[u].op = "ensure" /\ call[u].item \notin Listed(store) =>
                    store.val[call[u].item] # v
               /\ call[u].op \in {"reject", "write"} => call[u].val # v
    <3>1. Owned(store, held, call) /\ call[t].op = "idle"
      BY <1>1, <1>3, <1>7, <2>2 DEF Consistent, Keep
    <3>2. OwnedBy(held, v, u) => u = t
      BY <2>1 DEF OwnedBy, Of
    <3> HIDE DEF v
    <3>3. call[u].op = "ensure" /\ call[u].item \notin Listed(store) =>
            store.val[call[u].item] # v
      BY <3>1, <3>2 DEF Owned
    <3>4. call[u].op \in {"reject", "write"} => call[u].val # v
      BY <3>1, <3>2 DEF Owned
    <3> QED BY <3>3, <3>4
  <2>3. Consistent(Ref(store, v), [held EXCEPT ![to] = v], call)
    <3>1. \E y \in Handle : held[y] = v
      BY <2>1
    <3> HIDE DEF v
    <3> QED BY <1>1, <2>1, <2>2, <3>1, RefKeeps
  <2> QED BY <1>7, <2>3 DEF Keep
<1>8. ASSUME NEW h \in Of(t), NEW k \in Key, FindItem(t, h, k)
      PROVE  Consistent(store', held', call')
  BY <1>1, <1>8, FoundKeeps DEF FindItem
<1>9. ASSUME NEW k \in Key, RemoveItem(t, k)
      PROVE  Consistent(store', held', call')
  <2> DEFINE i == Lookup(store, k)
  <2>1. StoreMax = 0 /\ i # NoItem
    BY <1>9, Mode DEF RemoveItem
  <2>2. i \in Item /\ store.val[i] # NoVal
    BY <1>1, <2>1, LookupIs DEF Consistent, Indexes
  <2>3. \A u \in Thread : call[u].item # i /\ call[u].prev # i
    BY <2>1, Mode
  <2> HIDE DEF i
  <2>4. Consistent(Detach(store, i), held, call)
    BY <1>1, <2>2, <2>3, DetachKeeps
  <2> QED BY <1>9, <2>4 DEF RemoveItem, i
<1>10. ASSUME NEW h \in Of(t), NEW to \in Of(t), NEW k \in Key,
              StoreExisting(t, h, k, to)
       PROVE  Consistent(store', held', call')
  BY <1>1, <1>10, FoundKeeps DEF StoreExisting
<1>11. ASSUME NEW h \in Of(t), NEW k \in Key, NEW i \in Item, StoreNew(t, h, k, i)
       PROVE  Consistent(store', held', call')
  BY <1>11, StoreNewKeeps
<1>12. ASSUME NEW size \in Request, Malloc(t, size)
       PROVE  Consistent(store', held', call')
  <2>1. call[t].op \notin {"ensure", "reject", "write"}
        /\ Scavenge(t, size, 0) /\ held' = held
    BY <1>3, <1>12 DEF Malloc
  <2>2. Consistent(store', held, call')
    BY <1>2, <2>1, ScavengeKeeps
  <2> QED BY <2>1, <2>2
<1> QED BY <1>4, <1>5, <1>6, <1>7, <1>8, <1>9, <1>10, <1>11, <1>12 DEF Client

LEMMA ContinueKeeps ==
  ASSUME Undisturbed, IInv, NEW t \in Thread, Continue(t) \/ EmptyStore(t)
  PROVE  Consistent(store', held', call')
<1>1. /\ Consistent(store, held, call) /\ TypeOK /\ CallOK /\ store \in StoreType
      /\ call[t] \in CallType /\ Typed(store, held, call)
  BY Mode DEF TypeOK, CallOK, Consistent
<1>2. CallOK'
  BY <1>1, ContinueType DEF TypeOK, CallOK
<1>3. ASSUME Return(t), call[t].op \notin {"ensure", "reject", "write"}
      PROVE  Consistent(store, held, call')
  <2>1. /\ Idle.op \notin {"ensure", "reject", "write", "empty"}
        /\ Idle.item = NoItem /\ Idle.prev = NoItem
    BY DEF Idle
  <2> QED BY <1>1, <1>3, <2>1, IdleType, OtherCallKeeps DEF Return
<1>4. CASE StoreResume(t)
  BY <1>4, StoreResumeKeeps
<1>5. CASE RejectRead(t)
  <2> DEFINE v == call[t].val
  <2>1. call[t].op = "reject" /\ v \in Obj /\ Owned(store, held, call)
    BY <1>1, <1>5, Mode DEF RejectRead, Consistent, CallType, Val
  <2>2. store.refs[v] > 0
    <3>1. \E x \in Handle : held[x] = v
      BY <2>1 DEF Owned, OwnedBy, Of, Handle
    <3>2. store.refs[v] = Occurrences(held, v) + Occurrences(store.val, v)
            + Occurrences(Pins(store, call), v) + Occurrences(Rejects(call), v)
      BY <1>1, <2>1 DEF Consistent, Counted
    <3> HIDE DEF v
    <3> QED BY <3>1, <3>2, <1>1, CountsNat
  <2>3. /\ call' = [call EXCEPT ![t].op = "write", ![t].read = store.refs[v]]
        /\ store' = store /\ held' = held
    BY <1>5, <2>2 DEF RejectRead
  <2> QED BY <1>1, <2>1, <2>3, ReadKeeps
<1>6. CASE RejectWrite(t)
  <2>1. call[t].op = "write" /\ StoreMax # 0 /\ Static = {}
    BY <1>6, Mode DEF RejectWrite
  <2>2. /\ store' = [store EXCEPT !.refs[call[t].val] = call[t].read - 1]
        /\ call' = [call EXCEPT ![t] = Idle] /\ held' = held
    BY <1>6 DEF RejectWrite, Return
  <2> QED BY <1>1, <2>1, <2>2, WriteKeeps
<1>7. CASE ScavengeResume(t)
  <2> DEFINE x == Victim(store, Oldest(store))
  <2>1. call[t].op = "scavenge" /\ held' = held
    BY <1>7 DEF ScavengeResume
  <2>2. CASE call[t].count < call[t].tofree /\ x # NoItem
    <3> DEFINE e == [call[t] EXCEPT !.count = @ + store.bytes[x]]
    <3>1. store' = Evict(store, x) /\ call' = [call EXCEPT ![t] = e]
      BY <1>1, <1>7, <2>2 DEF ScavengeResume, CallOK
    <3>2. x \in Evictable(store)
      BY <1>1, <2>2, VictimIs
    <3> HIDE DEF x
    <3>3. Consistent(Evict(store, x), held, call)
      BY <1>1, <3>2, UnusedInStore, EvictKeeps
    <3>4. e.op = "scavenge" /\ e.item = call[t].item /\ e.prev = call[t].prev
      BY <1>1, <2>1 DEF CallType
    <3>5. call[t].item = NoItem /\ call[t].prev = NoItem
      BY <1>1, <2>1 DEF Consistent, CallsDistinct
    <3> HIDE DEF e
    <3>6. e \in CallType
      BY <1>1, <1>2, <3>1 DEF CallOK
    <3>7. Consistent(Evict(store, x), held, call')
      BY <1>1, <2>1, <3>1, <3>3, <3>4, <3>5, <3>6, OtherCallKeeps
    <3> QED BY <2>1, <3>1, <3>7
  <2>3. CASE ~(call[t].count < call[t].tofree /\ x # NoItem)
    <3>1. \/ Return(t) /\ UNCHANGED store
          \/ Scavenge(t, call[t].asked, call[t].phase)
      BY <1>7, <2>3 DEF ScavengeResume
    <3> QED BY <1>2, <1>3, <2>1, <3>1, ScavengeKeeps
  <2> QED BY <2>2, <2>3
<1>8. CASE OutOfMemory(t)
  BY <1>3, <1>8 DEF OutOfMemory
<1>9. CASE EmptyStore(t)
  <2>1. /\ call[t].op \in {"idle", "empty"} /\ t \in Closers /\ StoreMax = 0
        /\ held' = held
    BY <1>1, <1>9, Mode DEF EmptyStore, Running, Idle, Consistent, CallsDistinct
  <2>2. CASE store.lru = << >>
    BY <1>3, <1>9, <2>1, <2>2 DEF EmptyStore
  <2>3. CASE store.lru # << >>
    <3> DEFINE x == Head(store.lru)
               e == [call[t] EXCEPT !.op = "empty"]
    <3>1. x \in Listed(store) /\ x \in Item /\ x # NoItem
      <4>1. x = store.lru[1] /\ 1 \in DOMAIN store.lru
        BY <1>1, <2>3, HeadTailProperties DEF StoreType
      <4>2. x \in Listed(store)
        BY <4>1 DEF Listed, Range
      <4> QED BY <4>2, <1>1, ListedIsItem, ConstantsAssumption
    <3>2. store' = Evict(store, x) /\ call' = [call EXCEPT ![t] = e]
      BY <1>1, <1>9, <2>3 DEF EmptyStore, CallOK
    <3>3. store.val[x] # NoVal
      BY <1>1, <3>1 DEF Consistent, Indexes
    <3>4. \A u \in Thread : call[u].item # x /\ call[u].prev # x
      BY <2>1, <3>1, Mode
    <3> HIDE DEF x
    <3>5. Consistent(Evict(store, x), held, call)
      BY <1>1, <3>1, <3>3, <3>4, EvictKeeps
    <3>6. e.op = "empty" /\ e.item = NoItem /\ e.prev = NoItem
      BY <1>1, <2>1, Mode DEF CallType
    <3> HIDE DEF e
    <3>7. e \in CallType
      BY <1>1, <1>2, <3>2 DEF CallOK
    <3>8. Consistent(Evict(store, x), held, call')
      BY <1>1, <2>1, <3>2, <3>5, <3>6, <3>7, OtherCallKeeps
    <3> QED BY <2>1, <3>2, <3>8
  <2> QED BY <2>2, <2>3
<1> QED BY <1>4, <1>5, <1>6, <1>7, <1>8, <1>9 DEF Continue

LEMMA UnhinderedKeeps ==
  ASSUME Undisturbed, IInv, Next
  PROVE  Unhindered'
<1> SUFFICES ASSUME StoreMax = 0, NEW u \in Thread
             PROVE  call'[u].op \notin {"ensure", "reject", "write"}
  BY DEF Unhindered
<1>1. /\ CallOK
      /\ \A t \in Thread : call[t].op \notin {"ensure", "reject", "write"}
  BY Mode
<1>2. PICK t \in Thread : Client(t) \/ Continue(t) \/ EmptyStore(t)
  BY DEF Next
<1>3. Return(t) => call'[u].op \notin {"ensure", "reject", "write"}
  BY <1>1 DEF Return, CallOK, Idle
<1>4. ASSUME NEW size, NEW phase, Scavenge(t, size, phase)
      PROVE  call'[u].op \notin {"ensure", "reject", "write"}
  <2> DEFINE a == [Idle EXCEPT !.op = "nomem", !.asked = size]
             b(p, x) == [Idle EXCEPT !.op = "scavenge", !.asked = size,
                                     !.phase = Min({p + 1, 17}),
                                     !.tofree = ToFree(size, p),
                                     !.count = store.bytes[x]]
  <2>1. a.op = "nomem" /\ \A p, x : b(p, x).op = "scavenge"
    BY DEF Idle
  <2>2. call' = [call EXCEPT ![t] = a] \/ \E p, x : call' = [call EXCEPT ![t] = b(p, x)]
    BY <1>4 DEF Scavenge
  <2> HIDE DEF a, b
  <2> QED BY <1>1, <2>1, <2>2 DEF CallOK
<1>5. CASE Client(t)
  <2>1. \/ call' = call
        \/ \E h \in Of(t), k \in Key, i \in Item : StoreNew(t, h, k, i)
        \/ \E size \in Request : Malloc(t, size)
    BY <1>5 DEF Client, Create, GetStatic, Drop, Keep, FindItem, RemoveItem,
                StoreExisting
  <2>2. ASSUME NEW h \in Of(t), NEW k \in Key, NEW i \in Item, StoreNew(t, h, k, i)
        PROVE  Return(t)
    BY <2>2 DEF StoreNew
  <2> QED BY <1>1, <1>3, <1>4, <2>1, <2>2 DEF Malloc
<1>6. CASE Continue(t)
  <2>1. ~StoreResume(t) /\ ~RejectRead(t) /\ ~RejectWrite(t)
    BY <1>1 DEF StoreResume, RejectRead, RejectWrite
  <2>2. CASE ScavengeResume(t)
    <3>1. \/ call' = [call EXCEPT ![t].count = @ + store.bytes[Victim(store, Oldest(store))]]
          \/ Return(t) \/ Scavenge(t, call[t].asked, call[t].phase)
      BY <2>2 DEF ScavengeResume
    <3>2. ASSUME NEW n, call' = [call EXCEPT ![t].count = n]
          PROVE  call'[u].op = call[u].op
      BY <1>1, <3>2 DEF CallOK, CallType
    <3> QED BY <1>1, <1>3, <1>4, <3>1, <3>2
  <2> QED BY <1>3, <1>6, <2>1, <2>2 DEF Continue, OutOfMemory
<1>7. CASE EmptyStore(t)
  <2>1. Return(t) \/ call' = [call EXCEPT ![t].op = "empty"]
    BY <1>7 DEF EmptyStore
  <2> QED BY <1>1, <1>3, <2>1 DEF CallOK, CallType
<1> QED BY <1>2, <1>5, <1>6, <1>7

\* The invariant holds of every reachable state.
THEOREM Inductive == ASSUME Undisturbed PROVE Spec => []IInv
<1>1. Init => IInv
  <2> SUFFICES ASSUME Init PROVE IInv
    OBVIOUS
  <2>1. /\ Idle.op = "idle" /\ Idle.item = NoItem /\ Idle.prev = NoItem
    BY DEF Idle
  <2>2. /\ << >> \in Seq(Item) /\ 0 \in 0..UIntMax /\ Static \subseteq Val
        /\ Range(<< >>) = {}
    BY ConstantsAssumption DEF Val, Range
  <2>3. /\ store.refs = [v \in Val |-> IF v \in Static THEN -1 ELSE 0]
        /\ store.live = Static /\ store.val = [i \in Item |-> NoVal]
        /\ store.hash = [k \in Indexed |-> NoItem] /\ store.lru = << >>
        /\ held = [h \in Handle |-> NoVal] /\ call = [t \in Thread |-> Idle]
    BY DEF Init
  <2>4. Typed(store, held, call)
    <3>1. store \in StoreType
      BY <2>2 DEF Init, StoreType
    <3> QED BY <2>3, <3>1, IdleType DEF Typed
  <2>5. Counted(store, held, call)
    <3>1. ASSUME NEW v \in Obj
          PROVE  /\ Occurrences(held, v) = 0 /\ Occurrences(store.val, v) = 0
                 /\ Occurrences(Pins(store, call), v) = 0
                 /\ Occurrences(Rejects(call), v) = 0
      <4>1. v # NoVal
        BY ConstantsAssumption
      <4>2. \A x \in Handle : held[x] # v
        BY <4>1, <2>3
      <4>3. \A i \in Item : store.val[i] # v
        BY <4>1, <2>3
      <4>4. \A t \in Thread : Pins(store, call)[t] # v
        BY <4>1, <2>1, <2>3 DEF Pins
      <4>5. \A t \in Thread : Rejects(call)[t] # v
        BY <4>1, <2>1, <2>3 DEF Rejects
      <4> QED BY <4>2, <4>3, <4>4, <4>5, <2>4, CountsNat
    <3>2. /\ \A v \in Obj : v \notin Static /\ store.refs[v] = 0
          /\ \A v \in Static : store.refs[v] = -1
      BY <2>3, ConstantsAssumption DEF Val
    <3>3. store.live = Static
      BY <2>3
    <3>4. ASSUME NEW v \in Obj
          PROVE  /\ store.refs[v] = Occurrences(held, v) + Occurrences(store.val, v)
                     + Occurrences(Pins(store, call), v) + Occurrences(Rejects(call), v)
                 /\ v \in store.live <=> store.refs[v] > 0
      BY <3>1, <3>2, <3>3
    <3> QED BY <3>2, <3>3, <3>4 DEF Counted
  <2>6. CallsDistinct(call)
    BY <2>1, <2>3 DEF CallsDistinct
  <2>7. Indexes(store, call) /\ Stays(store, call)
    <3>1. Listed(store) = {} /\ IsInjective(store.lru)
      BY <2>2, <2>3 DEF Listed, IsInjective
    <3> QED BY <2>1, <2>3, <3>1 DEF Indexes, Stays
  <2>8. Owned(store, held, call) /\ Unhindered
    BY <2>1, <2>3 DEF Owned, Unhindered
  <2> QED BY <2>4, <2>5, <2>6, <2>7, <2>8 DEF IInv, Consistent
<1>2. IInv /\ [Next]_vars => IInv'
  <2>1. ASSUME IInv, Next PROVE IInv'
    <3>1. PICK t \in Thread : Client(t) \/ Continue(t) \/ EmptyStore(t)
      BY <2>1 DEF Next
    <3>2. Consistent(store', held', call')
      BY <2>1, <3>1, ClientKeeps, ContinueKeeps
    <3> QED BY <2>1, <3>2, UnhinderedKeeps DEF IInv
  <2>2. ASSUME IInv, UNCHANGED vars PROVE IInv'
    <3>1. store' = store /\ held' = held /\ call' = call
      BY <2>2 DEF vars
    <3>2. Consistent(store', held', call')
      BY <2>2, <3>1 DEF IInv
    <3>3. Unhindered'
      BY <2>2, <3>1 DEF IInv, Unhindered
    <3> QED BY <3>2, <3>3 DEF IInv
  <2> QED BY <2>1, <2>2
<1> QED BY <1>1, <1>2, PTL DEF Spec

-----------------------------------------------------------------------------
(* What follows                                                            *)

LEMMA Sets ==
  ASSUME IInv, NEW v \in Obj
  PROVE  /\ Occurrences(held, v) = Cardinality(Holders(v))
         /\ Occurrences(store.val, v) = Cardinality(Holding(v))
         /\ Occurrences(Pins(store, call), v) = Cardinality(Pinning(v))
         /\ Occurrences(Rejects(call), v) = Cardinality(Rejecting(v))
<1>1. /\ DOMAIN held = Handle /\ DOMAIN store.val = Item
      /\ DOMAIN Pins(store, call) = Thread /\ DOMAIN Rejects(call) = Thread
      /\ v # NoVal
  BY ConstantsAssumption DEF IInv, Consistent, Typed, StoreType, Pins, Rejects
<1>2. {t \in Thread : Pins(store, call)[t] = v} = Pinning(v)
  BY <1>1 DEF Pins, Pinning
<1>3. {t \in Thread : Rejects(call)[t] = v} = Rejecting(v)
  BY <1>1 DEF Rejects, Rejecting
<1> QED BY <1>1, <1>2, <1>3 DEF Occurrences, Holders, Holding

\* Every value's count is the number of its references (store.c:56-92, 174,
\* 334), for any number of threads, values and items, however their calls
\* interleave.
THEOREM CountsExact == ASSUME Undisturbed PROVE Spec => []RefsExact
<1>1. IInv => RefsExact
  BY Sets DEF IInv, Consistent, Counted, RefsExact
<1> QED BY <1>1, Inductive, PTL

LEMMA ReferredIsLive ==
  ASSUME IInv, NEW v \in Val,
         (\E x \in Handle : held[x] = v) \/ \E i \in Item : store.val[i] = v
  PROVE  v \in store.live
<1>1. Typed(store, held, call) /\ Counted(store, held, call)
  BY DEF IInv, Consistent
<1>2. CASE v \in Static
  BY <1>1, <1>2 DEF Counted
<1>3. CASE v \in Obj
  <2>1. /\ store.refs[v] = Occurrences(held, v) + Occurrences(store.val, v)
             + Occurrences(Pins(store, call), v) + Occurrences(Rejects(call), v)
        /\ v \in store.live <=> store.refs[v] > 0
    BY <1>1, <1>3 DEF Counted
  <2>2. Occurrences(held, v) > 0 \/ Occurrences(store.val, v) > 0
    BY <1>1, CountsNat
  <2> QED BY <2>1, <2>2, <1>1, CountsNat
<1> QED BY <1>2, <1>3 DEF Val

\* No value is freed while a client holds a reference to it (store.c:94-127).
THEOREM NothingFreedInUse == ASSUME Undisturbed PROVE Spec => []HeldLive
<1>1. IInv => HeldLive
  <2> SUFFICES ASSUME IInv, NEW h \in Handle, held[h] # NoVal
               PROVE  held[h] \in store.live
    BY DEF HeldLive
  <2>1. held[h] \in Val
    BY DEF IInv, Consistent, Typed
  <2> QED BY <2>1, ReferredIsLive
<1> QED BY <1>1, Inductive, PTL

\* No value that is stored has been freed (store.c:82).
THEOREM NothingStoredFreed == ASSUME Undisturbed PROVE Spec => []LastDropNotStored
<1>1. IInv => LastDropNotStored
  <2> SUFFICES ASSUME IInv, NEW i \in Item, store.val[i] # NoVal
               PROVE  store.val[i] \in store.live
    BY DEF LastDropNotStored
  <2>1. store.val[i] \in Val
    BY DEF IInv, Consistent, Typed, StoreType
  <2> QED BY <2>1, ReferredIsLive
<1> QED BY <1>1, Inductive, PTL

\* What nobody refers to has been freed: nothing is leaked.
THEOREM NothingLeaked == ASSUME Undisturbed PROVE Spec => []NoLeak
<1>1. IInv => NoLeak
  <2> SUFFICES ASSUME IInv, NEW v \in Obj \cap store.live,
                      Holders(v) = {}, Holding(v) = {}, Pinning(v) = {},
                      Rejecting(v) = {}
               PROVE  FALSE
    BY DEF NoLeak
  <2>1. /\ store.refs[v] = Occurrences(held, v) + Occurrences(store.val, v)
             + Occurrences(Pins(store, call), v) + Occurrences(Rejects(call), v)
        /\ store.refs[v] > 0
    BY DEF IInv, Consistent, Counted
  <2>2. Cardinality({}) = 0
    BY FS_EmptySet
  <2> QED BY <2>1, <2>2, Sets
<1> QED BY <1>1, Inductive, PTL

\* The item ensure_space goes on from and the one that is being stored are
\* still there when it has the lock again (store.c:176).
THEOREM PlacesStay == ASSUME Undisturbed PROVE Spec => []NextKept
<1>1. IInv => NextKept
  BY DEF IInv, Consistent, Indexes, Stays, NextKept
<1> QED BY <1>1, Inductive, PTL

\* The list and the hash agree, and an item that is in one of them only is
\* being stored by one thread (store.c:240-347).
THEOREM ListAndHashAgree == ASSUME Undisturbed PROVE Spec => []IndexAgrees
<1>1. IInv => IndexAgrees
  BY DEF IInv, Consistent, Indexes, CallsDistinct, IndexAgrees
<1> QED BY <1>1, Inductive, PTL

\* Static values are never freed (store.c:77).
THEOREM StaticNeverFreed == ASSUME Undisturbed PROVE Spec => []StaticStays
<1>1. IInv => StaticStays
  BY DEF IInv, Consistent, Counted, StaticStays
<1> QED BY <1>1, Inductive, PTL

-----------------------------------------------------------------------------
(* What is in use keeps its place                                          *)

\* Listed items whose values clients hold are listed still, as they were.
PlacesKept(s, r) ==
  \A i \in Listed(s) :
    (\E y \in Handle : held[y] = s.val[i]) =>
      i \in Listed(r) /\ r.key[i] = s.key[i] /\ r.val[i] = s.val[i]

LEMMA EvictKeepsPlaces ==
  ASSUME NEW s \in StoreType, IsInjective(s.lru), NEW x \in Item,
         \A y \in Handle : held[y] # s.val[x]
  PROVE  PlacesKept(s, Evict(s, x))
<1> DEFINE r == Evict(s, x)
<1>1. r.val = [s.val EXCEPT ![x] = NoVal] /\ r.key = [s.key EXCEPT ![x] = NoKey]
      /\ r.lru = Without(s, x)
  BY DEF Evict, Detach
<1>2. Listed(r) = Listed(s) \ {x}
  BY <1>1, WithoutIs DEF Listed
<1> HIDE DEF r
<1>3. \A i \in Listed(s) : i # x => r.val[i] = s.val[i] /\ r.key[i] = s.key[i]
  BY <1>1, ListedIsItem DEF StoreType
<1>4. PlacesKept(s, r)
  BY <1>2, <1>3 DEF PlacesKept
<1> QED BY <1>4 DEF r

LEMMA AcceptKeepsPlaces ==
  ASSUME NEW s \in StoreType, IsInjective(s.lru), NEW i \in Item
  PROVE  PlacesKept(s, Accept(s, i)) /\ PlacesKept(s, Touch(s, i))
<1>1. /\ Accept(s, i).lru = ToHead(s, i) /\ Touch(s, i).lru = ToHead(s, i)
      /\ Accept(s, i).val = s.val /\ Touch(s, i).val = s.val
      /\ Accept(s, i).key = s.key /\ Touch(s, i).key = s.key
  BY DEF Accept, Touch, StoreType
<1>2. /\ Listed(Accept(s, i)) = Listed(s) \cup {i}
      /\ Listed(Touch(s, i)) = Listed(s) \cup {i}
  BY <1>1, ToHeadIs DEF Listed
<1> QED BY <1>1, <1>2 DEF PlacesKept

LEMMA RefKeepsPlaces ==
  ASSUME NEW s \in StoreType, NEW v
  PROVE  /\ Ref(s, v).lru = s.lru /\ Ref(s, v).key = s.key /\ Ref(s, v).val = s.val
         /\ \A i, n : /\ AddRefs(s, i, n).lru = s.lru /\ AddRefs(s, i, n).key = s.key
                      /\ AddRefs(s, i, n).val = s.val
<1>1. /\ Ref(s, v).lru = s.lru /\ Ref(s, v).key = s.key /\ Ref(s, v).val = s.val
  BY DEF Ref, StoreType
<1>2. ASSUME NEW i, NEW n
      PROVE  /\ AddRefs(s, i, n).lru = s.lru /\ AddRefs(s, i, n).key = s.key
             /\ AddRefs(s, i, n).val = s.val
  BY DEF AddRefs, StoreType
<1> QED BY <1>1, <1>2

LEMMA MakingKeepsPlaces ==
  ASSUME NEW t \in Thread, NEW s, NEW c, NEW i, Making(t, s, c, i)
  PROVE  /\ GiveUp(t, s, i) => PlacesKept(s, store')
         /\ \A x \in Evictable(s) : \A tofree, count :
              EvictFor(t, s, i, x, tofree, count) => PlacesKept(s, store')
         /\ \A tofree : EnsureSpace(t, s, i, tofree) => PlacesKept(s, store')
<1>1. /\ Consistent(s, held, c) /\ StoreMax # 0 /\ Static = {}
      /\ s \in StoreType /\ IsInjective(s.lru) /\ i \in Item
  <2>1. /\ Consistent(s, held, c) /\ StoreMax # 0 /\ Static = {}
        /\ c[t].op = "ensure" /\ c[t].item = i
    BY DEF Making
  <2>2. s \in StoreType /\ c \in [Thread -> CallType] /\ IsInjective(s.lru)
    BY <2>1 DEF Consistent, Typed, Indexes
  <2> QED BY <2>1, <2>2 DEF CallType
<1>2. ASSUME GiveUp(t, s, i) PROVE PlacesKept(s, store')
  <2>1. CASE s.key[i] \in Indexed /\ i \in Listed(s)
    BY <1>1, <1>2, <2>1, AcceptKeepsPlaces DEF GiveUp
  <2>2. CASE ~(s.key[i] \in Indexed /\ i \in Listed(s))
    <3>1. i \notin Listed(s)
      BY <2>2 DEF Making, Consistent, Owned
    <3>2. store' = [s EXCEPT !.hash = Unhashed(s, i), !.val[i] = NoVal,
                             !.key[i] = NoKey, !.bytes[i] = 0]
      BY <1>2, <2>2 DEF GiveUp
    <3>3. /\ store'.lru = s.lru /\ store'.val = [s.val EXCEPT ![i] = NoVal]
          /\ store'.key = [s.key EXCEPT ![i] = NoKey]
      BY <3>2, <1>1 DEF StoreType
    <3>4. \A j \in Listed(s) : store'.val[j] = s.val[j] /\ store'.key[j] = s.key[j]
      BY <3>1, <3>3, <1>1, ListedIsItem DEF StoreType
    <3> QED BY <3>3, <3>4 DEF PlacesKept, Listed
  <2> QED BY <2>1, <2>2
<1>3. ASSUME NEW x \in Evictable(s), NEW tofree, NEW count,
             EvictFor(t, s, i, x, tofree, count)
      PROVE  PlacesKept(s, store')
  <2> DEFINE r == AddRefs(s, Prev(s, x), 1)
  <2>1. store' = Evict(r, x)
    BY <1>3 DEF EvictFor
  <2>2. x \in Item /\ \A y \in Handle : held[y] # s.val[x]
    BY <1>1, EvictableIsUnused
  <2>3. r \in StoreType /\ r.lru = s.lru /\ r.key = s.key /\ r.val = s.val
    BY <1>1, AddRefsType, RefKeepsPlaces
  <2> HIDE DEF r
  <2>4. PlacesKept(r, Evict(r, x))
    BY <1>1, <2>2, <2>3, EvictKeepsPlaces
  <2> QED BY <2>1, <2>3, <2>4 DEF PlacesKept, Listed
<1>4. ASSUME NEW tofree, EnsureSpace(t, s, i, tofree)
      PROVE  PlacesKept(s, store')
  <2> DEFINE x == Victim(s, Oldest(s))
  <2>1. CASE x = NoItem \/ EvictableSize(s) < tofree
    BY <1>2, <1>4, <2>1 DEF EnsureSpace
  <2>2. CASE ~(x = NoItem \/ EvictableSize(s) < tofree)
    <3>1. x \in Evictable(s)
      BY <1>1, <2>2, VictimIs
    <3>2. EvictFor(t, s, i, x, tofree, 0)
      BY <1>4, <2>2 DEF EnsureSpace
    <3> QED BY <1>3, <3>1, <3>2
  <2> QED BY <2>1, <2>2
<1> QED BY <1>2, <1>3, <1>4

\* A store with the same list, keys and values keeps places, too.
LEMMA SameKeepsPlaces ==
  ASSUME NEW s, NEW r, NEW q,
         r.lru = s.lru, r.key = s.key, r.val = s.val
  PROVE  PlacesKept(s, r) /\ (PlacesKept(r, q) => PlacesKept(s, q))
BY DEF PlacesKept, Listed

LEMMA ScavengeKeepsPlaces ==
  ASSUME Undisturbed, IInv, StoreMax # 0, NEW x \in Evictable(store)
  PROVE  PlacesKept(store, Evict(store, x))
<1>1. store \in StoreType /\ IsInjective(store.lru) /\ Consistent(store, held, call)
  BY Mode DEF TypeOK, Consistent, Indexes
<1>2. x \in Item /\ \A y \in Handle : held[y] # store.val[x]
  BY <1>1, Mode, EvictableIsUnused
<1> QED BY <1>1, <1>2, EvictKeepsPlaces

LEMMA FoundKeepsPlaces ==
  ASSUME Undisturbed, IInv, NEW k \in Key, Lookup(store, k) # NoItem, NEW v
  PROVE  PlacesKept(store, Ref(Touch(store, Lookup(store, k)), v))
<1> DEFINE i == Lookup(store, k)
           s == Touch(store, i)
<1>1. store \in StoreType /\ IsInjective(store.lru)
  BY Mode DEF TypeOK, Consistent, Indexes
<1>2. i \in Item
  BY <1>1, LookupIs
<1>3. s \in StoreType /\ PlacesKept(store, s)
  BY <1>1, <1>2, AcceptKeepsPlaces, TouchType
<1>4. /\ Ref(s, v).lru = s.lru /\ Ref(s, v).key = s.key /\ Ref(s, v).val = s.val
  BY <1>3, RefKeepsPlaces
<1> HIDE DEF s
<1> QED BY <1>3, <1>4 DEF PlacesKept, Listed, s

LEMMA StoreNewKeepsPlaces ==
  ASSUME Undisturbed, IInv, StoreMax # 0, NEW t \in Thread, NEW h \in Of(t),
         NEW k \in Key, NEW i \in Item, StoreNew(t, h, k, i)
  PROVE  PlacesKept(store, store')
<1> DEFINE s == Stored(h, k, i)
           c == Entering(call, t, i)
           q == [store EXCEPT !.val[i] = held[h], !.key[i] = k,
                              !.bytes[i] = SizeOf[held[h]],
                              !.hash = IF k \in Indexed
                                       THEN [@ EXCEPT ![k] = i] ELSE @]
<1>1. /\ Making(t, s, c, i)
      /\ \/ store' = Accept(s, i) /\ Return(t)
         \/ \E n \in Nat : EnsureSpace(t, s, i, n)
  BY StoreNewEnters
<1>2. /\ store \in StoreType /\ Indexes(store, call) /\ store.val[i] = NoVal
  BY Mode DEF TypeOK, Consistent, StoreNew
<1>3. s \in StoreType /\ IsInjective(s.lru)
  BY <1>1 DEF Making, Consistent, Typed, Indexes
<1>4. s.lru = store.lru /\ s.val = [store.val EXCEPT ![i] = held[h]]
      /\ s.key = [store.key EXCEPT ![i] = k]
  <2>1. s = Ref(q, held[h])
    BY DEF Stored
  <2>2. q.lru = store.lru /\ q.val = [store.val EXCEPT ![i] = held[h]]
        /\ q.key = [store.key EXCEPT ![i] = k]
    BY <1>2 DEF StoreType
  <2>3. Ref(q, held[h]).lru = q.lru /\ Ref(q, held[h]).val = q.val
        /\ Ref(q, held[h]).key = q.key
    BY <1>2 DEF Ref, StoreType
  <2> HIDE DEF s, q
  <2> QED BY <2>1, <2>2, <2>3
<1> HIDE DEF s, c
<1>5. i \notin Listed(store)
  BY <1>2 DEF Indexes
<1>6. PlacesKept(s, store')
  BY <1>1, <1>3, AcceptKeepsPlaces, MakingKeepsPlaces
<1>7. Listed(s) = Listed(store)
  BY <1>4 DEF Listed
<1>8. \A j \in Listed(store) : s.val[j] = store.val[j] /\ s.key[j] = store.key[j]
  BY <1>2, <1>4, <1>5, ListedIsItem DEF StoreType
<1> QED BY <1>6, <1>7, <1>8 DEF PlacesKept

LEMMA StoreResumeKeepsPlaces ==
  ASSUME Undisturbed, IInv, NEW t \in Thread, StoreResume(t)
  PROVE  PlacesKept(store, store')
<1> DEFINE i == call[t].item
           s == AddRefs(store, call[t].prev, -1)
           c == [call EXCEPT ![t].prev = NoItem]
<1>1. /\ Making(t, s, c, i)
      /\ \/ store' = Accept(s, i) /\ Return(t)
         \/ \E x \in Evictable(s), m, n \in Nat : EvictFor(t, s, i, x, m, n)
         \/ GiveUp(t, s, i)
         \/ \E n \in Nat : EnsureSpace(t, s, i, n)
  BY StoreResumes
<1>2. /\ s \in StoreType /\ IsInjective(s.lru) /\ i \in Item
  <2>1. CallOK /\ call[t].op = "ensure"
    BY Mode DEF StoreResume
  <2>2. i \in Item
    BY <2>1 DEF CallOK, CallType
  <2> HIDE DEF s, c, i
  <2> QED BY <1>1, <2>2 DEF Making, Consistent, Typed, Indexes
<1>3. s.lru = store.lru /\ s.key = store.key /\ s.val = store.val
  BY Mode, RefKeepsPlaces DEF TypeOK
<1> HIDE DEF s, c, i
<1>4. PlacesKept(s, store')
  BY <1>1, <1>2, AcceptKeepsPlaces, MakingKeepsPlaces
<1> QED BY <1>3, <1>4, SameKeepsPlaces

LEMMA StepKeepsPlaces ==
  ASSUME Undisturbed, IInv, StoreMax # 0, Next
  PROVE  PlacesKept(store, store')
<1>1. /\ store \in StoreType /\ Closers = {} /\ Removers = {}
      /\ CallOK /\ CallsDistinct(call)
  BY Mode DEF TypeOK, Consistent
<1>2. PICK t \in Thread : Client(t) \/ Continue(t) \/ EmptyStore(t)
  BY DEF Next
<1>3. ASSUME store'.lru = store.lru, store'.key = store.key, store'.val = store.val
      PROVE  PlacesKept(store, store')
  BY <1>3, SameKeepsPlaces
<1>4. ASSUME NEW size, NEW phase, Scavenge(t, size, phase)
      PROVE  PlacesKept(store, store')
  <2> DEFINE x == Victim(store, Oldest(store))
  <2>1. store' = store \/ (x # NoItem /\ store' = Evict(store, x))
    BY <1>4 DEF Scavenge
  <2>2. x # NoItem => x \in Evictable(store)
    BY <1>1, VictimIs
  <2> HIDE DEF x
  <2> QED BY <1>3, <2>1, <2>2, ScavengeKeepsPlaces
<1>5. ASSUME NEW h \in Of(t), NEW v \in Val, Create(t, h, v)
      PROVE  PlacesKept(store, store')
  BY <1>1, <1>3, <1>5 DEF Create, StoreType
<1>6. ASSUME NEW h \in Of(t), NEW v \in Val, GetStatic(t, h, v)
      PROVE  PlacesKept(store, store')
  BY <1>3, <1>6 DEF GetStatic
<1>7. ASSUME NEW h \in Of(t), Drop(t, h)
      PROVE  PlacesKept(store, store')
  BY <1>1, <1>3, <1>7 DEF Drop, StoreType
<1>8. ASSUME NEW h \in Of(t), NEW to \in Handle, Keep(t, h, to)
      PROVE  PlacesKept(store, store')
  BY <1>1, <1>3, <1>8, RefKeepsPlaces DEF Keep
<1>9. ASSUME NEW h \in Of(t), NEW k \in Key, FindItem(t, h, k)
      PROVE  PlacesKept(store, store')
  BY <1>9, FoundKeepsPlaces DEF FindItem
<1>10. ASSUME NEW h \in Of(t), NEW to \in Of(t), NEW k \in Key,
              StoreExisting(t, h, k, to)
       PROVE  PlacesKept(store, store')
  BY <1>10, FoundKeepsPlaces DEF StoreExisting
<1>11. ASSUME NEW h \in Of(t), NEW k \in Key, NEW i \in Item, StoreNew(t, h, k, i)
       PROVE  PlacesKept(store, store')
  BY <1>11, StoreNewKeepsPlaces
<1>12. CASE Client(t)
  <2>1. ASSUME NEW size \in Request, Malloc(t, size)
        PROVE  PlacesKept(store, store')
    BY <1>4, <2>1 DEF Malloc
  <2>2. \A k \in Key : ~RemoveItem(t, k)
    BY <1>1 DEF RemoveItem
  <2> QED BY <1>5, <1>6, <1>7, <1>8, <1>9, <1>10, <1>11, <1>12, <2>1, <2>2 DEF Client
<1>13. CASE Continue(t)
  <2>1. CASE StoreResume(t)
    BY <2>1, StoreResumeKeepsPlaces
  <2>2. CASE RejectRead(t) \/ OutOfMemory(t)
    BY <1>3, <2>2 DEF RejectRead, OutOfMemory
  <2>3. CASE RejectWrite(t)
    BY <1>1, <1>3, <2>3 DEF RejectWrite, StoreType
  <2>4. CASE ScavengeResume(t)
    <3> DEFINE x == Victim(store, Oldest(store))
    <3>1. \/ x # NoItem /\ store' = Evict(store, x)
          \/ store' = store
          \/ Scavenge(t, call[t].asked, call[t].phase)
      BY <2>4 DEF ScavengeResume
    <3>2. x # NoItem => x \in Evictable(store)
      BY <1>1, VictimIs
    <3> HIDE DEF x
    <3> QED BY <1>3, <1>4, <3>1, <3>2, ScavengeKeepsPlaces
  <2> QED BY <1>13, <2>1, <2>2, <2>3, <2>4 DEF Continue
<1>14. ~EmptyStore(t)
  BY <1>1 DEF EmptyStore, CallsDistinct
<1> QED BY <1>2, <1>12, <1>13, <1>14

\* Making space for an item and scavenging for the allocator pass over what a
\* client has a reference to (store.c:130-208, 554-579).
THEOREM InUseKeepsPlace ==
  ASSUME Undisturbed, StoreMax # 0 PROVE Spec => InUseStays
<1> DEFINE Kept == \A i \in Listed(store) :
                     (\E h \in Handle : held[h] = store.val[i] /\ held'[h] = held[h])
                     => /\ i \in Listed(store') /\ store'.key[i] = store.key[i]
                        /\ store'.val[i] = store.val[i]
<1>1. IInv /\ [Next]_vars => [Kept]_vars
  <2>1. ASSUME IInv, Next PROVE Kept
    BY <2>1, StepKeepsPlaces DEF PlacesKept
  <2> QED BY <2>1
<1>2. [][Kept]_vars => InUseStays
  BY DEF InUseStays
<1> HIDE DEF Kept
<1> QED BY <1>1, <1>2, Inductive, PTL DEF Spec

-----------------------------------------------------------------------------
(* The size of the store                                                   *)

\* What goes round when an unsigned int overflows.
Wrap == UIntMax + 1

\* The size is how many bytes are stored, but for what has gone round.
Sized(s, c) == \E q \in Nat : Cardinality(Bytes(s, c)) = s.size + q * Wrap

LEMMA BytesFinite ==
  ASSUME NEW s \in StoreType, NEW c
  PROVE  IsFiniteSet(Bytes(s, c)) /\ Cardinality(Bytes(s, c)) \in Nat
<1>1. IsFiniteSet(1..UIntMax)
  BY ConstantsAssumption, FS_Interval
<1>2. IsFiniteSet(Item \X (1..UIntMax))
  BY <1>1, Finite, FS_Product
<1>3. Bytes(s, c) \in SUBSET (Item \X (1..UIntMax))
  <2>1. Done(s, c) \subseteq Item
    BY ListedIsItem DEF Done
  <2>2. \A i \in Item : 1..s.bytes[i] \subseteq 1..UIntMax
    BY ConstantsAssumption DEF StoreType
  <2> QED BY <2>1, <2>2 DEF Bytes
<1>4. IsFiniteSet(Bytes(s, c))
  BY <1>2, <1>3, FS_Subset
<1> QED BY <1>4, FS_CardinalityType

\* An unsigned int goes round once at most when a size is added or taken away.
LEMMA Rounds ==
  ASSUME NEW m \in 0..UIntMax, NEW b \in 0..UIntMax
  PROVE  /\ UInt(m + b) \in {m + b, m + b - Wrap} /\ UInt(m + b) \in 0..UIntMax
         /\ UInt(m - b) = IF m >= b THEN m - b ELSE m - b + Wrap
  BY ConstantsAssumption DEF UInt, Wrap

\* The same items, of the same sizes, are done with.
LEMMA SizedAs ==
  ASSUME NEW s, NEW r, NEW c, NEW d, Sized(s, c), r.size = s.size,
         Done(r, d) = Done(s, c), \A i \in Done(s, c) : r.bytes[i] = s.bytes[i]
  PROVE  Sized(r, d)
<1>1. Bytes(r, d) = Bytes(s, c)
  BY DEF Bytes
<1> QED BY <1>1 DEF Sized

LEMMA UnitsOf ==
  ASSUME NEW k, NEW n \in Nat
  PROVE  IsFiniteSet({k} \X (1..n)) /\ Cardinality({k} \X (1..n)) = n
<1>1. IsFiniteSet(1..n) /\ Cardinality(1..n) = IF 1 > n THEN 0 ELSE n - 1 + 1
  BY FS_Interval
<1>2. Cardinality(1..n) = n
  BY <1>1
<1>3. IsFiniteSet({k}) /\ Cardinality({k}) = 1
  BY FS_Singleton
<1>4. IsFiniteSet({k} \X (1..n)) /\ Cardinality({k} \X (1..n)) = 1 * n
  BY <1>1, <1>2, <1>3, FS_Product
<1> QED BY <1>4

\* Two unions of sets, of which one has a set more.
LEMMA UnionMore ==
  ASSUME NEW H, NEW k, NEW f, NEW g, NEW new,
         DOMAIN f = H, DOMAIN g = H \cup {k},
         \A l \in H : g[l] = f[l], g[k] = new
  PROVE  UNION {g[l] : l \in H \cup {k}} = (UNION {f[l] : l \in H}) \cup new
<1> DEFINE A == UNION {g[l] : l \in H \cup {k}}
           B == UNION {f[l] : l \in H}
<1>1. \A y : y \in A <=> \E l \in H \cup {k} : y \in g[l]
  OBVIOUS
<1>2. \A y : y \in B <=> \E l \in H : y \in f[l]
  OBVIOUS
<1> HIDE DEF A, B
<1>3. \A y : y \in A <=> y \in B \cup new
  <2> SUFFICES ASSUME NEW y PROVE y \in A <=> y \in B \/ y \in new
    OBVIOUS
  <2>1. (\E l \in H \cup {k} : y \in g[l]) <=> (\E l \in H : y \in g[l]) \/ y \in g[k]
    OBVIOUS
  <2>2. (\E l \in H : y \in g[l]) <=> \E l \in H : y \in f[l]
    OBVIOUS
  <2> QED BY <1>1, <1>2, <2>1, <2>2
<1>4. A = B \cup new
  BY <1>3
<1> QED BY <1>4 DEF A, B

\* What an item more is in bytes.
LEMMA ItemBytes ==
  ASSUME NEW s \in StoreType, NEW c, NEW r, NEW d, NEW i \in Item,
         i \notin Done(s, c), Done(r, d) = Done(s, c) \cup {i},
         \A j \in Done(r, d) : r.bytes[j] = s.bytes[j]
  PROVE  Cardinality(Bytes(r, d)) = Cardinality(Bytes(s, c)) + s.bytes[i]
<1> DEFINE had == Done(s, c)
           new == {i} \X (1..s.bytes[i])
           Of1(j) == {j} \X (1..s.bytes[j])
           Of2(j) == {j} \X (1..r.bytes[j])
<1>1. s.bytes[i] \in Nat
  BY ConstantsAssumption DEF StoreType
<1>2. IsFiniteSet(new) /\ Cardinality(new) = s.bytes[i]
  BY <1>1, UnitsOf
<1>3. Bytes(r, d) = Bytes(s, c) \cup new
  <2> DEFINE f == [j \in had |-> Of1(j)]
             g == [j \in had \cup {i} |-> Of2(j)]
  <2>1. Of2(i) = new /\ \A j \in had : Of2(j) = Of1(j)
    OBVIOUS
  <2>2. /\ Bytes(s, c) = UNION {Of1(j) : j \in had}
        /\ Bytes(r, d) = UNION {Of2(j) : j \in had \cup {i}}
    BY DEF Bytes
  <2> HIDE DEF had, new, Of1, Of2
  <2>3. /\ UNION {Of1(j) : j \in had} = UNION {f[j] : j \in had}
        /\ UNION {Of2(j) : j \in had \cup {i}} = UNION {g[j] : j \in had \cup {i}}
    OBVIOUS
  <2>4. /\ DOMAIN f = had /\ DOMAIN g = had \cup {i}
        /\ g[i] = new /\ \A j \in had : g[j] = f[j]
    BY <2>1
  <2> HIDE DEF f, g
  <2>5. UNION {g[j] : j \in had \cup {i}} = (UNION {f[j] : j \in had}) \cup new
    BY <2>4, UnionMore
  <2> QED BY <2>2, <2>3, <2>5
<1>4. Bytes(s, c) \cap new = {}
  <2>1. \A y \in Bytes(s, c) : y[1] # i
    BY DEF Bytes
  <2>2. \A y \in new : y[1] = i
    OBVIOUS
  <2> QED BY <2>1, <2>2
<1>5. IsFiniteSet(Bytes(s, c)) /\ Cardinality(Bytes(s, c)) \in Nat
  BY BytesFinite
<1> HIDE DEF new
<1>6. Cardinality(Bytes(s, c) \cup new) =
        Cardinality(Bytes(s, c)) + Cardinality(new) - Cardinality(Bytes(s, c) \cap new)
  BY <1>2, <1>5, FS_Union
<1>7. Cardinality(Bytes(s, c) \cap new) = 0
  BY <1>4, FS_EmptySet
<1> QED BY <1>1, <1>2, <1>3, <1>5, <1>6, <1>7

LEMMA SizedMore ==
  ASSUME NEW s \in StoreType, NEW c, NEW r, NEW d, NEW i \in Item, Sized(s, c),
         i \notin Done(s, c), Done(r, d) = Done(s, c) \cup {i},
         \A j \in Done(r, d) : r.bytes[j] = s.bytes[j],
         r.size = UInt(s.size + s.bytes[i])
  PROVE  Sized(r, d)
<1>1. /\ s.size \in 0..UIntMax /\ s.bytes[i] \in 0..UIntMax
      /\ Wrap \in Nat /\ s.size \in Nat /\ s.bytes[i] \in Nat
  BY ConstantsAssumption DEF StoreType, Wrap
<1>2. Cardinality(Bytes(r, d)) = Cardinality(Bytes(s, c)) + s.bytes[i]
  BY ItemBytes
<1>3. PICK q \in Nat : Cardinality(Bytes(s, c)) = s.size + q * Wrap
  BY DEF Sized
<1>4. r.size \in {s.size + s.bytes[i], s.size + s.bytes[i] - Wrap}
  BY <1>1, Rounds
<1>5. q * Wrap \in Nat /\ (q + 1) * Wrap = q * Wrap + Wrap
  BY <1>1
<1>6. CASE r.size = s.size + s.bytes[i]
  <2>1. Cardinality(Bytes(r, d)) = r.size + q * Wrap
    BY <1>1, <1>2, <1>3, <1>5, <1>6
  <2> QED BY <2>1 DEF Sized
<1>7. CASE r.size = s.size + s.bytes[i] - Wrap
  <2>1. Cardinality(Bytes(r, d)) = r.size + (q + 1) * Wrap
    BY <1>1, <1>2, <1>3, <1>5, <1>7
  <2>2. q + 1 \in Nat
    OBVIOUS
  <2> QED BY <2>1, <2>2 DEF Sized
<1> QED BY <1>4, <1>6, <1>7

LEMMA SizedLess ==
  ASSUME NEW s \in StoreType, NEW c, NEW r \in StoreType, NEW d, NEW i \in Item,
         Sized(s, c), i \in Done(s, c), Done(r, d) = Done(s, c) \ {i},
         \A j \in Done(r, d) : r.bytes[j] = s.bytes[j],
         r.size = UInt(s.size - s.bytes[i])
  PROVE  Sized(r, d)
<1> DEFINE e == [r EXCEPT !.bytes = s.bytes]
<1>1. /\ s.size \in 0..UIntMax /\ s.bytes[i] \in 0..UIntMax
      /\ Wrap \in Nat /\ s.size \in Nat /\ s.bytes[i] \in Nat
  BY ConstantsAssumption DEF StoreType, Wrap
<1>2. Cardinality(Bytes(s, c)) = Cardinality(Bytes(r, d)) + s.bytes[i]
  <2>1. e \in StoreType /\ e.bytes = s.bytes /\ e.lru = r.lru
    BY DEF StoreType
  <2> HIDE DEF e
  <2>2. Done(e, d) = Done(r, d)
    BY <2>1 DEF Done, Listed
  <2>3. Bytes(e, d) = Bytes(r, d)
    BY <2>1, <2>2 DEF Bytes
  <2>4. i \notin Done(e, d) /\ Done(s, c) = Done(e, d) \cup {i}
    BY <2>2
  <2>5. Cardinality(Bytes(s, c)) = Cardinality(Bytes(e, d)) + e.bytes[i]
    BY <2>1, <2>4, ItemBytes
  <2> QED BY <2>1, <2>3, <2>5
<1>3. PICK q \in Nat : Cardinality(Bytes(s, c)) = s.size + q * Wrap
  BY DEF Sized
<1>4. Cardinality(Bytes(r, d)) \in Nat
  BY BytesFinite
<1>5. q * Wrap \in Nat /\ (q - 1) * Wrap = q * Wrap - Wrap
  BY <1>1
<1>6. CASE s.size >= s.bytes[i]
  <2>1. r.size = s.size - s.bytes[i]
    BY <1>1, <1>6, Rounds
  <2>2. Cardinality(Bytes(r, d)) = r.size + q * Wrap
    BY <1>1, <1>2, <1>3, <1>4, <1>5, <2>1
  <2> QED BY <2>2 DEF Sized
<1>7. CASE ~(s.size >= s.bytes[i])
  <2>1. r.size = s.size - s.bytes[i] + Wrap
    BY <1>1, <1>7, Rounds
  <2>2. q # 0
    <3>1. CASE q = 0
      <4>1. q * Wrap = 0
        BY <3>1, <1>1
      <4>2. s.bytes[i] <= s.size
        BY <4>1, <1>1, <1>2, <1>3, <1>4
      <4> QED BY <4>2, <1>1, <1>7
    <3> QED BY <3>1
  <2>3. Cardinality(Bytes(r, d)) = r.size + (q - 1) * Wrap
    <3> DEFINE m == q * Wrap
               n == (q - 1) * Wrap
    <3>1. m \in Nat /\ n = m - Wrap /\ Cardinality(Bytes(s, c)) = s.size + m
      BY <1>3, <1>5
    <3> HIDE DEF m, n
    <3>2. Cardinality(Bytes(r, d)) = r.size + n
      BY <1>1, <1>2, <1>4, <2>1, <3>1
    <3> QED BY <3>2 DEF n
  <2>4. q - 1 \in Nat
    BY <2>2
  <2> QED BY <2>3, <2>4 DEF Sized
<1> QED BY <1>6, <1>7

\* An item that is done with is evicted.
LEMMA EvictSized ==
  ASSUME NEW s \in StoreType, NEW c, IsInjective(s.lru), NEW x \in Item,
         Sized(s, c), x \in Done(s, c)
  PROVE  Sized(Evict(s, x), c)
<1> DEFINE r == Evict(s, x)
<1>1. /\ r.bytes = [s.bytes EXCEPT ![x] = 0] /\ r.lru = Without(s, x)
      /\ r.size = UInt(s.size - s.bytes[x])
  BY DEF Evict, Detach
<1>2. Listed(r) = Listed(s) \ {x}
  BY <1>1, WithoutIs DEF Listed
<1>3. r \in StoreType
  BY EvictType
<1> HIDE DEF r
<1>4. Done(r, c) = Done(s, c) \ {x}
  BY <1>2 DEF Done
<1>5. \A j \in Done(r, c) : r.bytes[j] = s.bytes[j]
  <2>1. \A j \in Done(s, c) : j \in Item
    BY ListedIsItem DEF Done
  <2> QED BY <1>1, <1>4, <2>1 DEF StoreType
<1>6. Sized(r, c)
  BY <1>1, <1>3, <1>4, <1>5, SizedLess
<1> QED BY <1>6 DEF r

\* The item that thread t was storing is accepted.
LEMMA AcceptSized ==
  ASSUME NEW s, NEW h, NEW c, Consistent(s, h, c), Sized(s, c),
         NEW t \in Thread, NEW i, c[t].op = "ensure", c[t].item = i,
         NEW d, d[t].item = NoItem, \A u \in Thread : u # t => d[u].item = c[u].item
  PROVE  Sized(Accept(s, i), d)
<1> DEFINE r == Accept(s, i)
<1>1. /\ s \in StoreType /\ IsInjective(s.lru) /\ CallsDistinct(c)
      /\ c \in [Thread -> CallType]
  BY DEF Consistent, Typed, Indexes
<1>2. i \in Item /\ i # NoItem
  BY <1>1, ConstantsAssumption DEF CallType
<1>3. /\ r.bytes = s.bytes /\ r.lru = ToHead(s, i)
      /\ r.size = UInt(s.size + s.bytes[i])
  BY <1>1 DEF Accept, StoreType
<1>4. Listed(r) = Listed(s) \cup {i}
  BY <1>1, <1>2, <1>3, ToHeadIs DEF Listed
<1> HIDE DEF r
<1>5. \A u \in Thread : u # t => c[u].item # i
  BY <1>1, <1>2 DEF CallsDistinct
<1>6. NoItem \notin Listed(s)
  BY <1>1, ListedIsItem, ConstantsAssumption
<1>7. i \notin Done(s, c) /\ Done(r, d) = Done(s, c) \cup {i}
  BY <1>2, <1>4, <1>5, <1>6 DEF Done
<1>8. Sized(r, d)
  BY <1>1, <1>2, <1>3, <1>7, SizedMore
<1> QED BY <1>8 DEF r

\* Making space for the item of thread t
LEMMA MakingSized ==
  ASSUME NEW t \in Thread, NEW s, NEW c, NEW i, Making(t, s, c, i), Sized(s, c)
  PROVE  /\ store' = Accept(s, i) /\ Return(t) => Sized(store', call')
         /\ GiveUp(t, s, i) => Sized(store', call')
         /\ \A x \in Evictable(s) : \A tofree, count :
              EvictFor(t, s, i, x, tofree, count) => Sized(store', call')
         /\ \A tofree : EnsureSpace(t, s, i, tofree) => Sized(store', call')
<1>1. /\ Consistent(s, held, c) /\ StoreMax # 0 /\ Static = {} /\ CallOK
      /\ c[t].op = "ensure" /\ c[t].item = i /\ CallsDistinct(c)
      /\ s \in StoreType /\ IsInjective(s.lru) /\ i \in Item
      /\ \A u \in Thread : u # t => c[u] = call[u]
  <2>1. /\ Consistent(s, held, c) /\ StoreMax # 0 /\ Static = {} /\ CallOK
        /\ c[t].op = "ensure" /\ c[t].item = i
        /\ \A u \in Thread : u # t => c[u] = call[u]
    BY DEF Making
  <2>2. s \in StoreType /\ c \in [Thread -> CallType] /\ IsInjective(s.lru) /\ CallsDistinct(c)
    BY <2>1 DEF Consistent, Typed, Indexes
  <2> QED BY <2>1, <2>2 DEF CallType
<1>2. ASSUME NEW e, call' = [call EXCEPT ![t] = e]
      PROVE  call'[t] = e /\ \A u \in Thread : u # t => call'[u] = c[u]
  BY <1>1, <1>2 DEF CallOK
<1>3. ASSUME store' = Accept(s, i), Return(t)
      PROVE  Sized(store', call')
  <2>1. call'[t] = Idle /\ \A u \in Thread : u # t => call'[u] = c[u]
    BY <1>2, <1>3 DEF Return
  <2>2. call'[t].item = NoItem
    BY <2>1 DEF Idle
  <2> QED BY <1>1, <1>3, <2>1, <2>2, AcceptSized
<1>4. ASSUME GiveUp(t, s, i)
      PROVE  Sized(store', call')
  <2>1. CASE s.key[i] \in Indexed /\ i \in Listed(s)
    BY <1>3, <1>4, <2>1 DEF GiveUp
  <2>2. CASE ~(s.key[i] \in Indexed /\ i \in Listed(s))
    <3> DEFINE e == [Idle EXCEPT !.op = "reject", !.val = s.val[i]]
    <3>1. i \notin Listed(s)
      BY <2>2 DEF Making, Consistent, Owned
    <3>2. /\ store' = [s EXCEPT !.hash = Unhashed(s, i), !.val[i] = NoVal,
                                !.key[i] = NoKey, !.bytes[i] = 0]
          /\ call' = [call EXCEPT ![t] = e]
      BY <1>4, <2>2 DEF GiveUp
    <3>3. /\ store'.lru = s.lru /\ store'.size = s.size
          /\ store'.bytes = [s.bytes EXCEPT ![i] = 0]
      BY <1>1, <3>2 DEF StoreType
    <3>4. e.item = NoItem
      BY DEF Idle
    <3>5. call'[t].item = NoItem /\ \A u \in Thread : u # t => call'[u] = c[u]
      <4> HIDE DEF e
      <4> QED BY <1>2, <3>2, <3>4
    <3>6. NoItem \notin Listed(s)
      BY <1>1, ListedIsItem, ConstantsAssumption
    <3>7. Done(store', call') = Done(s, c)
      BY <1>1, <3>1, <3>3, <3>5, <3>6 DEF Done, Listed
    <3>8. \A j \in Done(s, c) : store'.bytes[j] = s.bytes[j]
      <4>1. \A j \in Done(s, c) : j \in Item /\ j # i
        BY <1>1, <3>1, ListedIsItem DEF Done
      <4> QED BY <1>1, <3>3, <4>1 DEF StoreType
    <3> QED BY <3>3, <3>7, <3>8, SizedAs
  <2> QED BY <2>1, <2>2
<1>5. ASSUME NEW x \in Evictable(s), NEW tofree, NEW count,
             EvictFor(t, s, i, x, tofree, count)
      PROVE  Sized(store', call')
  <2> DEFINE r == AddRefs(s, Prev(s, x), 1)
             e == [Idle EXCEPT !.op = "ensure", !.item = i, !.prev = Prev(s, x),
                               !.tofree = tofree, !.count = count + s.bytes[x]]
  <2>1. store' = Evict(r, x) /\ call' = [call EXCEPT ![t] = e]
    BY <1>5 DEF EvictFor
  <2>2. x \in Item /\ x \in Listed(s) /\ \A u \in Thread : c[u].item # x
    BY <1>1, EvictableIsUnused
  <2>3. r \in StoreType /\ r.lru = s.lru /\ r.bytes = s.bytes /\ r.size = s.size
    <3>1. r \in StoreType
      BY <1>1, AddRefsType
    <3>2. s \in StoreType
      BY <1>1
    <3> QED BY <3>1, <3>2 DEF AddRefs, StoreType
  <2>4. e.item = i
    BY DEF Idle
  <2> HIDE DEF r, e
  <2>5. \A u \in Thread : call'[u].item = c[u].item
    BY <1>1, <1>2, <2>1, <2>4
  <2>6. Done(r, call') = Done(s, c)
    BY <2>3, <2>5 DEF Done, Listed
  <2>7. Sized(r, call')
    BY <2>3, <2>6, SizedAs
  <2>8. x \in Done(r, call')
    BY <2>2, <2>6 DEF Done
  <2> QED BY <1>1, <2>1, <2>2, <2>3, <2>7, <2>8, EvictSized
<1>6. ASSUME NEW tofree, EnsureSpace(t, s, i, tofree)
      PROVE  Sized(store', call')
  <2> DEFINE x == Victim(s, Oldest(s))
  <2>1. CASE x = NoItem \/ EvictableSize(s) < tofree
    BY <1>4, <1>6, <2>1 DEF EnsureSpace
  <2>2. CASE ~(x = NoItem \/ EvictableSize(s) < tofree)
    <3>1. x \in Evictable(s)
      BY <1>1, <2>2, VictimIs
    <3>2. EvictFor(t, s, i, x, tofree, 0)
      BY <1>6, <2>2 DEF EnsureSpace
    <3> QED BY <1>5, <3>1, <3>2
  <2> QED BY <2>1, <2>2
<1> QED BY <1>3, <1>4, <1>5, <1>6

LEMMA StoreNewSized ==
  ASSUME Undisturbed, IInv, Sized(store, call), NEW t \in Thread, NEW h \in Of(t),
         NEW k \in Key, NEW i \in Item, StoreNew(t, h, k, i)
  PROVE  Sized(store', call')
<1> DEFINE s == Stored(h, k, i)
           c == Entering(call, t, i)
           q == [store EXCEPT !.val[i] = held[h], !.key[i] = k,
                              !.bytes[i] = SizeOf[held[h]],
                              !.hash = IF k \in Indexed
                                       THEN [@ EXCEPT ![k] = i] ELSE @]
<1>1. /\ Consistent(s, held, c) /\ c[t].op = "ensure" /\ c[t].item = i
      /\ \A u \in Thread : u # t => c[u] = call[u]
      /\ StoreMax # 0 => Making(t, s, c, i)
      /\ \/ store' = Accept(s, i) /\ Return(t)
         \/ StoreMax # 0 /\ \E n \in Nat : EnsureSpace(t, s, i, n)
  BY StoreNewEnters
<1>2. /\ store \in StoreType /\ Indexes(store, call) /\ store.val[i] = NoVal
      /\ CallOK /\ call[t] = Idle
  BY Mode DEF TypeOK, Consistent, StoreNew, StorePre, Running
<1>3. /\ s.lru = store.lru /\ s.size = store.size
      /\ s.bytes = [store.bytes EXCEPT ![i] = SizeOf[held[h]]]
  <2>1. s = Ref(q, held[h])
    BY DEF Stored
  <2>2. q.lru = store.lru /\ q.size = store.size
        /\ q.bytes = [store.bytes EXCEPT ![i] = SizeOf[held[h]]]
    BY <1>2 DEF StoreType
  <2>3. Ref(q, held[h]).lru = q.lru /\ Ref(q, held[h]).size = q.size
        /\ Ref(q, held[h]).bytes = q.bytes
    BY <1>2 DEF Ref, StoreType
  <2> HIDE DEF s, q
  <2> QED BY <2>1, <2>2, <2>3
<1>4. i \notin Listed(store) /\ NoItem \notin Listed(store)
  BY <1>2, ListedIsItem, ConstantsAssumption DEF Indexes
<1>5. call[t].item = NoItem
  BY <1>2 DEF Idle
<1> HIDE DEF s, c
<1>6. Done(s, c) = Done(store, call)
  BY <1>1, <1>3, <1>4, <1>5 DEF Done, Listed
<1>7. \A j \in Done(store, call) : s.bytes[j] = store.bytes[j]
  <2>1. \A j \in Done(store, call) : j \in Item /\ j # i
    BY <1>2, <1>4, ListedIsItem DEF Done
  <2> QED BY <1>2, <1>3, <2>1 DEF StoreType
<1>8. Sized(s, c)
  BY <1>3, <1>6, <1>7, SizedAs
<1>9. CASE store' = Accept(s, i) /\ Return(t)
  <2>1. call'[t] = Idle /\ \A u \in Thread : u # t => call'[u] = c[u]
    BY <1>1, <1>2, <1>9 DEF Return, CallOK
  <2>2. call'[t].item = NoItem
    BY <2>1 DEF Idle
  <2> QED BY <1>1, <1>8, <1>9, <2>1, <2>2, AcceptSized
<1>10. CASE StoreMax # 0 /\ \E n \in Nat : EnsureSpace(t, s, i, n)
  BY <1>1, <1>8, <1>10, MakingSized
<1> QED BY <1>1, <1>9, <1>10

LEMMA StoreResumeSized ==
  ASSUME Undisturbed, IInv, Sized(store, call), NEW t \in Thread, StoreResume(t)
  PROVE  Sized(store', call')
<1> DEFINE i == call[t].item
           s == AddRefs(store, call[t].prev, -1)
           c == [call EXCEPT ![t].prev = NoItem]
<1>1. /\ Making(t, s, c, i)
      /\ \/ store' = Accept(s, i) /\ Return(t)
         \/ \E x \in Evictable(s), m, n \in Nat : EvictFor(t, s, i, x, m, n)
         \/ GiveUp(t, s, i)
         \/ \E n \in Nat : EnsureSpace(t, s, i, n)
  BY StoreResumes
<1>2. store \in StoreType /\ CallOK
  BY Mode DEF TypeOK
<1>3. s.lru = store.lru /\ s.bytes = store.bytes /\ s.size = store.size
  BY <1>2 DEF AddRefs, StoreType
<1>4. \A u \in Thread : c[u].item = call[u].item
  BY <1>2 DEF CallOK, CallType
<1> HIDE DEF s, c, i
<1>5. Done(s, c) = Done(store, call)
  BY <1>3, <1>4 DEF Done, Listed
<1>6. Sized(s, c)
  BY <1>3, <1>5, SizedAs
<1> QED BY <1>1, <1>6, MakingSized

\* Scavenging, and emptying a store without a maximum
LEMMA EvictedSized ==
  ASSUME Undisturbed, IInv, Sized(store, call), NEW x \in Listed(store),
         StoreMax = 0 \/ x \in Evictable(store),
         \A u \in Thread : call'[u].item = call[u].item
  PROVE  Sized(Evict(store, x), call')
<1>1. store \in StoreType /\ IsInjective(store.lru) /\ x \in Item /\ x # NoItem
  BY Mode, ListedIsItem, ConstantsAssumption DEF TypeOK, Consistent, Indexes
<1>2. \A u \in Thread : call[u].item # x
  BY <1>1, Mode, UnusedInStore
<1>3. Done(store, call') = Done(store, call) /\ x \in Done(store, call)
  BY <1>2 DEF Done
<1>4. Sized(store, call')
  BY <1>3, SizedAs
<1> QED BY <1>1, <1>3, <1>4, EvictSized

LEMMA StepSized ==
  ASSUME Undisturbed, Removers = {}, IInv, Sized(store, call), Next
  PROVE  Sized(store', call')
<1>1. /\ store \in StoreType /\ CallOK /\ CallsDistinct(call) /\ Idle.item = NoItem
      /\ StoreMax # 0 => Closers = {}
  BY Mode DEF TypeOK, Consistent, Idle
<1>2. PICK t \in Thread : Client(t) \/ Continue(t) \/ EmptyStore(t)
  BY DEF Next
<1>3. ASSUME store'.lru = store.lru, store'.bytes = store.bytes, store'.size = store.size,
             \A u \in Thread : call'[u].item = call[u].item
      PROVE  Sized(store', call')
  <2>1. Done(store', call') = Done(store, call)
    BY <1>3 DEF Done, Listed
  <2> QED BY <1>3, <2>1, SizedAs
<1>4. ASSUME NEW e, call' = [call EXCEPT ![t] = e], e.item = NoItem, call[t].item = NoItem
      PROVE  \A u \in Thread : call'[u].item = call[u].item
  BY <1>1, <1>4 DEF CallOK
<1>5. ASSUME NEW size, NEW phase, Scavenge(t, size, phase), call[t].item = NoItem
      PROVE  Sized(store', call')
  <2> DEFINE x == Victim(store, Oldest(store))
             p == Min(Usable(size, phase))
             a == [Idle EXCEPT !.op = "nomem", !.asked = size]
             b == [Idle EXCEPT !.op = "scavenge", !.asked = size,
                               !.phase = Min({p + 1, 17}),
                               !.tofree = ToFree(size, p),
                               !.count = store.bytes[x]]
  <2>1. \/ store' = store /\ call' = [call EXCEPT ![t] = a]
        \/ x # NoItem /\ store' = Evict(store, x) /\ call' = [call EXCEPT ![t] = b]
    BY <1>5 DEF Scavenge
  <2>2. a.item = NoItem /\ b.item = NoItem
    BY DEF Idle
  <2>3. x # NoItem => x \in Evictable(store) /\ x \in Listed(store)
    BY <1>1, VictimIs DEF Evictable
  <2> HIDE DEF x, a, b
  <2>4. \A u \in Thread : call'[u].item = call[u].item
    BY <1>4, <1>5, <2>1, <2>2
  <2> QED BY <1>3, <2>1, <2>3, <2>4, EvictedSized
<1>6. ASSUME NEW h \in Of(t), NEW v \in Val, Create(t, h, v)
      PROVE  Sized(store', call')
  BY <1>1, <1>3, <1>6 DEF Create, StoreType
<1>7. ASSUME NEW h \in Of(t), NEW v \in Val, GetStatic(t, h, v)
      PROVE  Sized(store', call')
  BY <1>3, <1>7 DEF GetStatic
<1>8. ASSUME NEW h \in Of(t), Drop(t, h)
      PROVE  Sized(store', call')
  BY <1>1, <1>3, <1>8 DEF Drop, StoreType
<1>9. ASSUME NEW s \in StoreType, NEW v
      PROVE  Ref(s, v).lru = s.lru /\ Ref(s, v).bytes = s.bytes /\ Ref(s, v).size = s.size
  BY <1>9 DEF Ref, StoreType
<1>10. ASSUME NEW h \in Of(t), NEW to \in Handle, Keep(t, h, to)
       PROVE  Sized(store', call')
  BY <1>1, <1>3, <1>9, <1>10 DEF Keep
<1>11. ASSUME NEW k \in Key, NEW v, Lookup(store, k) # NoItem, call' = call,
              store' = Ref(Touch(store, Lookup(store, k)), v)
       PROVE  Sized(store', call')
  <2> DEFINE i == Lookup(store, k)
             s == Touch(store, i)
  <2>1. /\ Indexes(store, call) /\ IsInjective(store.lru)
        /\ i \in Item /\ (k \in Indexed => i = store.hash[k])
        /\ (k \notin Indexed => i \in Listed(store))
    BY <1>1, <1>11, Mode, LookupIs DEF Consistent, Indexes
  <2>2. i \in Listed(store) \/ \E u \in Thread : call[u].item = i
    <3>1. CASE k \in Indexed
      BY <1>11, <2>1, <3>1 DEF Indexes
    <3> QED BY <2>1, <3>1
  <2>3. s \in StoreType /\ s.lru = ToHead(store, i) /\ s.bytes = store.bytes /\ s.size = store.size
    BY <1>1, <2>1, TouchType DEF Touch, StoreType
  <2>4. Listed(s) = Listed(store) \cup {i}
    BY <1>1, <2>1, <2>3, ToHeadIs DEF Listed
  <2> HIDE DEF i, s
  <2>5. Done(s, call) = Done(store, call)
    BY <2>2, <2>4 DEF Done
  <2>6. store'.lru = s.lru /\ store'.bytes = s.bytes /\ store'.size = s.size
    BY <1>9, <1>11, <2>3 DEF s, i
  <2>7. Done(store', call') = Done(store, call)
    BY <1>11, <2>5, <2>6 DEF Done, Listed
  <2> QED BY <2>3, <2>6, <2>7, SizedAs
<1>12. CASE Client(t)
  <2>1. ASSUME NEW size \in Request, Malloc(t, size)
        PROVE  Sized(store', call')
    BY <1>1, <1>5, <2>1 DEF Malloc, Running
  <2>2. \A k \in Key : ~RemoveItem(t, k)
    BY DEF RemoveItem
  <2>3. ASSUME NEW h \in Of(t), NEW k \in Key, FindItem(t, h, k)
        PROVE  Sized(store', call')
    BY <1>11, <2>3 DEF FindItem
  <2>4. ASSUME NEW h \in Of(t), NEW to \in Of(t), NEW k \in Key,
               StoreExisting(t, h, k, to)
        PROVE  Sized(store', call')
    BY <1>11, <2>4 DEF StoreExisting
  <2>5. ASSUME NEW h \in Of(t), NEW k \in Key, NEW i \in Item, StoreNew(t, h, k, i)
        PROVE  Sized(store', call')
    BY <2>5, StoreNewSized
  <2> QED BY <1>6, <1>7, <1>8, <1>10, <1>12, <2>1, <2>2, <2>3, <2>4, <2>5 DEF Client
<1>13. CASE Continue(t)
  <2>1. CASE StoreResume(t)
    BY <2>1, StoreResumeSized
  <2>2. call[t].op \in {"reject", "write", "scavenge", "nomem"} => call[t].item = NoItem
    BY <1>1 DEF CallsDistinct
  <2>4. CASE RejectRead(t)
    <3>1. \A e, n : [call EXCEPT ![t].op = "write", ![t].read = n][t].item = call[t].item
      BY <1>1 DEF CallOK, CallType
    <3>2. \A u \in Thread : call'[u].item = call[u].item
      <4>1. CASE Return(t)
        BY <1>1, <1>4, <2>2, <2>4, <4>1 DEF Return, RejectRead
      <4>2. ASSUME NEW n, call' = [call EXCEPT ![t].op = "write", ![t].read = n]
            PROVE  \A u \in Thread : call'[u].item = call[u].item
        BY <1>1, <3>1, <4>2 DEF CallOK
      <4> QED BY <2>4, <4>1, <4>2 DEF RejectRead
    <3> QED BY <1>3, <2>4, <3>2 DEF RejectRead
  <2>5. CASE RejectWrite(t) \/ OutOfMemory(t)
    <3>1. \A u \in Thread : call'[u].item = call[u].item
      BY <1>1, <1>4, <2>2, <2>5 DEF Return, RejectWrite, OutOfMemory
    <3>2. store'.lru = store.lru /\ store'.bytes = store.bytes /\ store'.size = store.size
      BY <1>1, <2>5 DEF RejectWrite, OutOfMemory, StoreType
    <3> QED BY <1>3, <3>1, <3>2
  <2>6. CASE ScavengeResume(t)
    <3> DEFINE x == Victim(store, Oldest(store))
    <3>1. \/ /\ x # NoItem /\ store' = Evict(store, x)
             /\ call' = [call EXCEPT ![t].count = @ + store.bytes[x]]
          \/ store' = store /\ Return(t)
          \/ Scavenge(t, call[t].asked, call[t].phase)
      BY <2>6 DEF ScavengeResume
    <3>2. call[t].item = NoItem
      BY <2>2, <2>6 DEF ScavengeResume
    <3>3. x # NoItem => x \in Evictable(store) /\ x \in Listed(store)
      BY <1>1, VictimIs DEF Evictable
    <3> HIDE DEF x
    <3>4. ASSUME NEW n, call' = [call EXCEPT ![t].count = n]
          PROVE  \A u \in Thread : call'[u].item = call[u].item
      BY <1>1, <3>4 DEF CallOK, CallType
    <3>5. Return(t) => \A u \in Thread : call'[u].item = call[u].item
      BY <1>1, <1>4, <3>2 DEF Return
    <3> QED BY <1>3, <1>5, <3>1, <3>2, <3>3, <3>4, <3>5, EvictedSized
  <2> QED BY <1>13, <2>1, <2>4, <2>5, <2>6 DEF Continue
<1>14. CASE EmptyStore(t)
  <2>1. StoreMax = 0 /\ call[t].item = NoItem
    BY <1>1, <1>14 DEF EmptyStore, Running, CallsDistinct
  <2>2. \A u \in Thread : call'[u].item = call[u].item
    <3>1. ASSUME call' = [call EXCEPT ![t].op = "empty"]
          PROVE  \A u \in Thread : call'[u].item = call[u].item
      BY <1>1, <3>1 DEF CallOK, CallType
    <3>2. ASSUME Return(t)
          PROVE  \A u \in Thread : call'[u].item = call[u].item
      BY <1>1, <1>4, <2>1, <3>2 DEF Return
    <3> QED BY <1>14, <3>1, <3>2 DEF EmptyStore
  <2>3. CASE store.lru = << >>
    BY <1>3, <1>14, <2>2, <2>3 DEF EmptyStore
  <2>4. CASE store.lru # << >>
    <3>1. Head(store.lru) \in Listed(store) /\ store' = Evict(store, Head(store.lru))
      BY <1>1, <1>14, <2>4 DEF EmptyStore, Listed, Range, StoreType
    <3> QED BY <2>1, <2>2, <3>1, EvictedSized
  <2> QED BY <2>3, <2>4
<1> QED BY <1>2, <1>12, <1>13, <1>14

\* store->size is how many bytes the items have that fz_store_item is done
\* with (store.c:186, 340-344), and as an unsigned int it goes round only when
\* they are more than it can count.
THEOREM SizeHolds ==
  ASSUME Undisturbed, Removers = {}
  PROVE  /\ Spec => []Sized(store, call)
         /\ Spec => [](Cardinality(Bytes(store, call)) <= UIntMax => SizeExact)
<1>1. Init => Sized(store, call)
  <2> SUFFICES ASSUME Init PROVE Sized(store, call)
    OBVIOUS
  <2>1. store.lru = << >> /\ store.size = 0
    BY DEF Init
  <2>2. Bytes(store, call) = {}
    BY <2>1 DEF Bytes, Done, Listed, Range
  <2>3. Cardinality(Bytes(store, call)) = store.size + 0 * Wrap /\ 0 \in Nat
    BY <2>1, <2>2, FS_EmptySet, ConstantsAssumption DEF Wrap
  <2> QED BY <2>3 DEF Sized
<1>2. IInv /\ Sized(store, call) /\ [Next]_vars => Sized(store, call)'
  <2>1. ASSUME IInv, Sized(store, call), Next PROVE Sized(store, call)'
    BY <2>1, StepSized
  <2>2. ASSUME Sized(store, call), UNCHANGED vars PROVE Sized(store, call)'
    BY <2>2 DEF vars
  <2> QED BY <2>1, <2>2
<1>3. Spec => []Sized(store, call)
  BY <1>1, <1>2, Inductive, PTL DEF Spec
<1>4. IInv /\ Sized(store, call)
        => (Cardinality(Bytes(store, call)) <= UIntMax => SizeExact)
  <2> SUFFICES ASSUME IInv, Sized(store, call),
                      Cardinality(Bytes(store, call)) <= UIntMax
               PROVE  SizeExact
    OBVIOUS
  <2>1. PICK q \in Nat : Cardinality(Bytes(store, call)) = store.size + q * Wrap
    BY DEF Sized
  <2>2. store.size \in Nat /\ Wrap \in Nat /\ Wrap = UIntMax + 1 /\ UIntMax \in Nat
    BY Mode, ConstantsAssumption DEF TypeOK, StoreType, Wrap
  <2>3. q = 0
    <3>1. CASE q >= 1
      <4>1. q * Wrap = (q - 1) * Wrap + Wrap /\ (q - 1) * Wrap \in Nat
        BY <2>2, <3>1
      <4> QED BY <2>1, <2>2, <4>1
    <3> QED BY <3>1
  <2>4. q * Wrap = 0
    BY <2>2, <2>3
  <2> QED BY <2>1, <2>2, <2>4 DEF SizeExact
<1> QED BY <1>3, <1>4, Inductive, PTL

=============================================================================
