----------------------------- MODULE XrefProofs -----------------------------
(* What holds of the cross-reference table for any file, any numbers of    *)
(* objects, clients, edits and saves.                                      *)
EXTENDS Xref, TLAPS, FiniteSetTheorems, FunctionTheorems, WellFoundedInduction

-----------------------------------------------------------------------------
(* Recursion on a number                                                   *)

\* A non-empty set of naturals has a least element.
LEMMA Least ==
  ASSUME NEW T \in SUBSET Nat, T # {}
  PROVE  \E m \in T : \A y \in T : m <= y
<1>1. PICK m \in T : \A y \in T : ~ (<<y, m>> \in OpToRel(<, Nat))
  BY NatLessThanWellFounded, WFMin
<1>2. \A y \in T : ~ (y < m)
  BY <1>1, Zenon DEF OpToRel
<1> QED BY <1>2

Follows(g, N, base, step) ==
  \A n \in 0..N : g[n] = IF n = 0 THEN base ELSE step[<<g[n - 1], n>>]

\* A function that says how each value follows from the one before has values.
LEMMA Recursion ==
  ASSUME NEW S, NEW N \in Nat, NEW base \in S, NEW step \in [S \X (1..N) -> S]
  PROVE  \E g \in [0..N -> S] : Follows(g, N, base, step)
<1> DEFINE Is(g, M) == \A n \in 0..M : g[n] = IF n = 0 THEN base
                                             ELSE step[<<g[n - 1], n>>]
           Bad == {M \in 0..N : ~ \E g \in [0..M -> S] : Is(g, M)}
<1>1. Bad = {}
  <2> SUFFICES ASSUME Bad # {} PROVE FALSE
    OBVIOUS
  <2>1. Bad \in SUBSET Nat
    OBVIOUS
  <2>2. PICK M \in Bad : \A y \in Bad : M <= y
    <3> HIDE DEF Bad
    <3> QED BY <2>1, Least
  <2>3. M # 0
    <3>1. [n \in 0..0 |-> base] \in [0..0 -> S] /\ Is([n \in 0..0 |-> base], 0)
      OBVIOUS
    <3> QED BY <3>1, <2>2
  <2>4. M - 1 \in 0..N /\ M \in 1..N /\ M \in Nat
    BY <2>2, <2>3
  <2>5. M - 1 \notin Bad
    BY <2>2, <2>4
  <2>6. PICK g \in [0..M - 1 -> S] : Is(g, M - 1)
    BY <2>4, <2>5
  <2> DEFINE h == [n \in 0..M |-> IF n = M THEN step[<<g[M - 1], M>>] ELSE g[n]]
  <2>7. g[M - 1] \in S
    BY <2>4
  <2>8. h \in [0..M -> S]
    <3>1. step[<<g[M - 1], M>>] \in S
      BY <2>4, <2>7
    <3>2. \A n \in 0..M : n # M => g[n] \in S
      BY <2>4
    <3> QED BY <3>1, <3>2
  <2>9. ASSUME NEW n \in 0..M PROVE h[n] = IF n = 0 THEN base ELSE step[<<h[n - 1], n>>]
    <3>1. CASE n = M
      <4>1. n \in 0..M /\ n # 0 /\ n - 1 \in 0..M /\ n - 1 # M
        BY <3>1, <2>3, <2>4
      <4>2. h[n] = step[<<g[n - 1], n>>] /\ h[n - 1] = g[n - 1]
        BY <4>1, <3>1
      <4> QED BY <4>1, <4>2
    <3>2. CASE n # M
      <4>1. n \in 0..M - 1 /\ (n # 0 => n - 1 \in 0..M /\ n - 1 # M)
        BY <3>2, <2>4
      <4>2. h[n] = g[n] /\ (n # 0 => h[n - 1] = g[n - 1])
        BY <4>1, <3>2
      <4> QED BY <4>1, <4>2, <2>6
    <3> QED BY <3>1, <3>2
  <2>10. Is(h, M)
    BY <2>9
  <2> QED BY <2>2, <2>8, <2>10
<1>2. PICK g \in [0..N -> S] : Is(g, N)
  BY <1>1
<1> QED BY <1>2 DEF Follows

\* A non-empty set of numbers has a least and, if it is bounded, a greatest one.
LEMMA MinIsIn ==
  ASSUME NEW T \in SUBSET Nat, T # {}
  PROVE  Min(T) \in T /\ \A y \in T : Min(T) <= y
<1>1. PICK x \in T : \A y \in T : x <= y
  BY Least
<1> QED BY <1>1 DEF Min

LEMMA MaxIsIn ==
  ASSUME NEW n \in Nat, NEW T \in SUBSET (0..n), T # {}
  PROVE  Max(T) \in T /\ \A y \in T : y <= Max(T)
<1> DEFINE U == {n - y : y \in T}
<1>1. U \in SUBSET Nat /\ U # {}
  <2>1. \A y \in T : n - y \in Nat
    OBVIOUS
  <2> QED BY <2>1
<1>2. PICK u \in U : \A y \in U : u <= y
  BY <1>1, Least
<1>3. PICK x \in T : u = n - x
  BY <1>2
<1>4. \A y \in T : x >= y
  <2>1. \A y \in T : n - x <= n - y
    BY <1>2, <1>3
  <2> QED BY <2>1
<1> QED BY <1>4 DEF Max

-----------------------------------------------------------------------------
(* How often a function has a value                                        *)

Count(f, v) == Cardinality({x \in DOMAIN f : f[x] = v})
One(v, w) == IF v = w THEN 1 ELSE 0

LEMMA CountNat ==
  ASSUME NEW f, IsFiniteSet(DOMAIN f), NEW v
  PROVE  /\ Count(f, v) \in Nat
         /\ Count(f, v) > 0 <=> \E x \in DOMAIN f : f[x] = v
<1> DEFINE S == {x \in DOMAIN f : f[x] = v}
<1>1. IsFiniteSet(S)
  BY FS_Subset
<1>2. Cardinality(S) \in Nat /\ (Cardinality(S) = 0 <=> S = {})
  BY <1>1, FS_CardinalityType, FS_EmptySet
<1> QED BY <1>2 DEF Count

\* A function that is changed at one point has the new value once more and the
\* old one once less.
LEMMA CountChanged ==
  ASSUME NEW f, IsFiniteSet(DOMAIN f), NEW x \in DOMAIN f, NEW w, NEW v
  PROVE  Count([f EXCEPT ![x] = w], v) = Count(f, v) + One(v, w) - One(v, f[x])
<1> DEFINE g == [f EXCEPT ![x] = w]
           S == {y \in DOMAIN f : f[y] = v}
           R == {y \in DOMAIN g : g[y] = v}
           B == S \ {x}
<1>1. IsFiniteSet(S) /\ IsFiniteSet(B)
  BY FS_Subset
<1>2. x \notin B /\ Cardinality(B) \in Nat /\ Cardinality(B \cup {x}) = Cardinality(B) + 1
  BY <1>1, FS_AddElement, FS_CardinalityType
<1>3. S = (IF v = f[x] THEN B \cup {x} ELSE B)
  OBVIOUS
<1>4. R = (IF v = w THEN B \cup {x} ELSE B)
  OBVIOUS
<1>5. Cardinality(S) = Cardinality(B) + One(v, f[x])
  BY <1>2, <1>3 DEF One
<1>6. Cardinality(R) = Cardinality(B) + One(v, w)
  BY <1>2, <1>4 DEF One
<1>7. One(v, w) \in {0, 1} /\ One(v, f[x]) \in {0, 1}
  BY DEF One
<1> HIDE DEF B
<1>8. Cardinality(R) = Cardinality(S) + One(v, w) - One(v, f[x])
  BY <1>2, <1>5, <1>6, <1>7
<1> QED BY <1>8 DEF Count

\* A function has as many points of a value as one that it is when its points
\* are renamed.
LEMMA CountRenamed ==
  ASSUME NEW f, IsFiniteSet(DOMAIN f), NEW g, NEW v,
         NEW b \in [DOMAIN f -> DOMAIN g],
         \A x, y \in DOMAIN f : b[x] = b[y] => x = y,
         \A x \in DOMAIN f : g[b[x]] = f[x],
         \A y \in DOMAIN g : g[y] = v => \E x \in DOMAIN f : b[x] = y
  PROVE  Count(g, v) = Count(f, v)
<1> DEFINE S == {x \in DOMAIN f : f[x] = v}
           T == {y \in DOMAIN g : g[y] = v}
           c == [x \in S |-> b[x]]
<1>1. IsFiniteSet(S)
  BY FS_Subset
<1>2. c \in Bijection(S, T)
  <2>1. c \in [S -> T]
    OBVIOUS
  <2>2. \A x, y \in S : c[x] = c[y] => x = y
    OBVIOUS
  <2>3. \A y \in T : \E x \in S : c[x] = y
    OBVIOUS
  <2> HIDE DEF S, T, c
  <2> QED BY <2>1, <2>2, <2>3, Fun_IsBij
<1>3. Cardinality(T) = Cardinality(S)
  BY <1>1, <1>2, FS_Bijection DEF ExistsBijection
<1> QED BY <1>3 DEF Count

-----------------------------------------------------------------------------
(* Objects in memory                                                       *)

ObjType == [refs : Int, parent : Num \cup {0}, val : Nat, kid : Obj \cup {NULL}]
Heap == [Obj -> ObjType]
KidOf(h) == [o \in Obj |-> h[o].kid]

\* The objects h are referred to from outside as e says: their counts are right,
\* what is inside of one has nothing inside, and free ones have neither.
Good(h, e) ==
  /\ h \in Heap /\ e \in [Obj -> Nat]
  /\ \A o \in Obj : h[o].refs = e[o] + Count(KidOf(h), o)
  /\ \A o \in Obj : h[o].kid # NULL => h[h[o].kid].kid = NULL
  /\ \A o \in Obj : h[o].refs = 0 => h[o].kid = NULL
More(e, o) == [e EXCEPT ![o] = @ + 1]
Fewer(e, o) == [e EXCEPT ![o] = @ - 1]

\* Nothing that is alive in g has other contents in h.
Same(h, g) ==
  \A o \in Obj : g[o].refs # 0 =>
    g[o].val = h[o].val /\ g[o].kid = h[o].kid /\ g[o].parent = h[o].parent

LEMMA ObjFinite == IsFiniteSet(Obj) /\ IsFiniteSet(Num) /\ MaxNum \in Nat /\ MaxObj \in Nat /\ NULL \notin Obj
  BY BoundsAssumption, FS_Interval DEF Obj, Num, NULL

LEMMA KidsCount ==
  ASSUME NEW h, NEW o
  PROVE  /\ Count(KidOf(h), o) \in Nat
         /\ Count(KidOf(h), o) > 0 <=> \E p \in Obj : h[p].kid = o
<1>1. DOMAIN KidOf(h) = Obj /\ \A p \in Obj : KidOf(h)[p] = h[p].kid
  BY DEF KidOf
<1> QED BY <1>1, ObjFinite, CountNat

LEMMA KidChanged ==
  ASSUME NEW h \in Heap, NEW o \in Obj, NEW x \in ObjType, NEW v
  PROVE  /\ [h EXCEPT ![o] = x] \in Heap
         /\ Count(KidOf([h EXCEPT ![o] = x]), v)
              = Count(KidOf(h), v) + One(v, x.kid) - One(v, h[o].kid)
<1> DEFINE f == KidOf(h)
           w == x.kid
<1>1. KidOf([h EXCEPT ![o] = x]) = [f EXCEPT ![o] = w]
  BY DEF KidOf, Heap
<1>2. IsFiniteSet(DOMAIN f) /\ o \in DOMAIN f /\ f[o] = h[o].kid
  BY ObjFinite DEF KidOf
<1>3. [h EXCEPT ![o] = x] \in Heap
  BY DEF Heap
<1> HIDE DEF f, w
<1>4. Count([f EXCEPT ![o] = w], v) = Count(f, v) + One(v, w) - One(v, f[o])
  BY <1>2, CountChanged
<1> QED BY <1>1, <1>2, <1>3, <1>4 DEF f, w

\* What the counts say.
LEMMA GoodIs ==
  ASSUME NEW h, NEW e, Good(h, e), NEW o \in Obj
  PROVE  /\ h[o] \in ObjType /\ h[o].refs \in Nat /\ e[o] \in Nat /\ Count(KidOf(h), o) \in Nat
         /\ h[o].refs = e[o] + Count(KidOf(h), o)
         /\ e[o] > 0 => h[o].refs > 0
         /\ h[o].kid # NULL => /\ h[o].kid \in Obj /\ h[h[o].kid].refs > 0 /\ h[o].refs > 0
                               /\ h[h[o].kid].kid = NULL /\ h[o].kid # o
                               /\ Count(KidOf(h), h[o].kid) > 0
                               /\ Count(KidOf(h), o) = 0
<1>1. h[o] \in ObjType /\ e[o] \in Nat /\ h[o].refs = e[o] + Count(KidOf(h), o)
  BY DEF Good, Heap
<1>2. Count(KidOf(h), o) \in Nat
  BY KidsCount
<1>3. ASSUME h[o].kid # NULL
      PROVE  /\ h[o].kid \in Obj /\ h[h[o].kid].refs > 0 /\ h[o].refs > 0
             /\ h[h[o].kid].kid = NULL /\ h[o].kid # o
             /\ Count(KidOf(h), h[o].kid) > 0
             /\ Count(KidOf(h), o) = 0
  <2>1. h[o].kid \in Obj /\ h[h[o].kid].kid = NULL /\ h[o].refs # 0
    BY <1>1, <1>3 DEF Good, ObjType
  <2>2. Count(KidOf(h), h[o].kid) \in Nat /\ Count(KidOf(h), h[o].kid) > 0
    BY <2>1, KidsCount
  <2>3. h[h[o].kid].refs = e[h[o].kid] + Count(KidOf(h), h[o].kid) /\ e[h[o].kid] \in Nat
    BY <2>1 DEF Good
  <2>4. \A p \in Obj : h[p].kid # o
    BY <1>3, ObjFinite DEF Good
  <2>5. Count(KidOf(h), o) = 0
    BY <1>2, <2>4, KidsCount
  <2> QED BY <1>1, <1>2, <1>3, <2>1, <2>2, <2>3, <2>5
<1> QED BY <1>1, <1>2, <1>3

LEMMA KeepGood ==
  ASSUME NEW h, NEW e, Good(h, e), NEW o \in Obj, h[o].refs > 0
  PROVE  /\ Good(Keep(h, o), More(e, o))
         /\ \A p \in Obj : /\ Keep(h, o)[p].kid = h[p].kid /\ Keep(h, o)[p].val = h[p].val
                           /\ Keep(h, o)[p].parent = h[p].parent
                           /\ Keep(h, o)[p].refs = h[p].refs + One(p, o)
<1> DEFINE x == [h[o] EXCEPT !.refs = @ + 1]
<1>1. h \in Heap /\ h[o] \in ObjType /\ e \in [Obj -> Nat]
  BY DEF Good, Heap
<1>2. x \in ObjType /\ x.kid = h[o].kid /\ x.refs = h[o].refs + 1 /\ x.val = h[o].val
      /\ x.parent = h[o].parent
  BY <1>1 DEF ObjType
<1>3. Keep(h, o) = [h EXCEPT ![o] = x]
  BY <1>1 DEF Keep, Heap
<1> HIDE DEF x
<1>4. Keep(h, o) \in Heap /\ More(e, o) \in [Obj -> Nat]
  BY <1>1, <1>2, <1>3 DEF Heap, More
<1>5. \A p \in Obj : /\ Keep(h, o)[p].kid = h[p].kid /\ Keep(h, o)[p].val = h[p].val
                     /\ Keep(h, o)[p].parent = h[p].parent
                     /\ Keep(h, o)[p].refs = h[p].refs + One(p, o)
                     /\ More(e, o)[p] = e[p] + One(p, o)
  BY <1>1, <1>2, <1>3 DEF One, More, Heap, ObjType
<1>6. KidOf(Keep(h, o)) = KidOf(h)
  BY <1>5 DEF KidOf
<1>7. \A p \in Obj : Keep(h, o)[p].refs = More(e, o)[p] + Count(KidOf(h), p)
  <2> TAKE p \in Obj
  <2>1. One(p, o) \in {0, 1}
    BY DEF One
  <2> QED BY <1>5, <2>1, GoodIs DEF One
<1>8. \A p \in Obj : Keep(h, o)[p].refs = 0 => h[p].refs = 0
  <2> TAKE p \in Obj
  <2> QED BY <1>5, GoodIs DEF One
<1>9. \A p \in Obj : Keep(h, o)[p].kid # NULL => h[p].kid \in Obj
  BY <1>1, <1>5 DEF Heap, ObjType
<1> QED BY <1>4, <1>5, <1>6, <1>7, <1>8, <1>9 DEF Good

LEMMA LessIs ==
  ASSUME NEW h \in Heap, NEW o \in Obj
  PROVE  /\ Less(h, o) \in Heap
         /\ \A p \in Obj : p # o => Less(h, o)[p] = h[p]
         /\ h[o].refs = 1 => /\ Less(h, o)[o] = Unused
                             /\ \A v \in Obj : Count(KidOf(Less(h, o)), v)
                                               = Count(KidOf(h), v) - One(v, h[o].kid)
         /\ h[o].refs # 1 => /\ Less(h, o)[o].refs = h[o].refs - 1
                             /\ Less(h, o)[o].kid = h[o].kid
                             /\ Less(h, o)[o].val = h[o].val
                             /\ Less(h, o)[o].parent = h[o].parent
                             /\ KidOf(Less(h, o)) = KidOf(h)
<1>1. h[o] \in ObjType /\ Unused \in ObjType /\ Unused.kid = NULL
  BY DEF Heap, ObjType, Unused
<1>2. CASE h[o].refs = 1
  <2>1. Less(h, o) = [h EXCEPT ![o] = Unused]
    BY <1>2 DEF Less
  <2>2. ASSUME NEW v \in Obj
        PROVE  Count(KidOf(Less(h, o)), v) = Count(KidOf(h), v) - One(v, h[o].kid)
    <3>1. One(v, Unused.kid) = 0
      BY <1>1, ObjFinite DEF One
    <3> DEFINE x == Unused
    <3>2. Count(KidOf(Less(h, o)), v)
            = Count(KidOf(h), v) + One(v, x.kid) - One(v, h[o].kid)
      <4>1. x \in ObjType /\ Less(h, o) = [h EXCEPT ![o] = x]
        BY <1>1, <2>1
      <4> HIDE DEF x
      <4>2. Count(KidOf([h EXCEPT ![o] = x]), v)
              = Count(KidOf(h), v) + One(v, x.kid) - One(v, h[o].kid)
        BY <4>1, KidChanged
      <4> QED BY <4>1, <4>2
    <3>3. Count(KidOf(h), v) \in Nat /\ One(v, h[o].kid) \in Nat
      BY KidsCount DEF One
    <3> QED BY <3>1, <3>2, <3>3
  <2> QED BY <1>1, <1>2, <2>1, <2>2, KidChanged DEF Heap
<1>3. CASE h[o].refs # 1
  <2> DEFINE x == [h[o] EXCEPT !.refs = @ - 1]
  <2>1. /\ x \in ObjType /\ x.refs = h[o].refs - 1 /\ x.kid = h[o].kid /\ x.val = h[o].val
        /\ x.parent = h[o].parent
    BY <1>1 DEF ObjType
  <2>2. Less(h, o) = [h EXCEPT ![o] = x]
    BY <1>3 DEF Less, Heap
  <2> HIDE DEF x
  <2>3. Less(h, o) \in Heap /\ Less(h, o)[o] = x /\ \A p \in Obj : p # o => Less(h, o)[p] = h[p]
    BY <2>1, <2>2 DEF Heap
  <2>4. KidOf(Less(h, o)) = KidOf(h)
    BY <2>1, <2>3 DEF KidOf
  <2> QED BY <1>3, <2>1, <2>3, <2>4
<1> QED BY <1>2, <1>3

\* An owner gives up its reference: what is freed takes what is inside with it.
LEMMA DropGood ==
  ASSUME NEW h, NEW e, Good(h, e), NEW o \in Obj, e[o] > 0
  PROVE  Good(Drop(h, o), Fewer(e, o)) /\ Same(h, Drop(h, o))
<1> DEFINE k == h[o].kid
           g == Less(h, o)
           d == Drop(h, o)
           f == Fewer(e, o)
<1>1. h \in Heap /\ e \in [Obj -> Nat] /\ o # NULL /\ NULL \notin Obj
  BY ObjFinite DEF Good
<1>2. /\ h[o].refs \in Nat /\ h[o].refs > 0 /\ e[o] \in Nat /\ Count(KidOf(h), o) \in Nat
      /\ h[o].refs = e[o] + Count(KidOf(h), o) /\ k \in Obj \cup {NULL}
      /\ k # NULL => /\ k \in Obj /\ h[k].refs > 0 /\ h[k].kid = NULL /\ k # o
                     /\ Count(KidOf(h), o) = 0
  BY GoodIs DEF ObjType
<1>3. f \in [Obj -> Nat] /\ f[o] = e[o] - 1 /\ \A p \in Obj : p # o => f[p] = e[p]
  BY <1>1, <1>2 DEF Fewer
<1>4. \A p \in Obj : /\ h[p].refs \in Nat /\ e[p] \in Nat /\ Count(KidOf(h), p) \in Nat
                     /\ h[p].refs = e[p] + Count(KidOf(h), p)
  BY GoodIs
<1>5. \A p \in Obj : /\ h[p].refs = 0 => h[p].kid = NULL
                     /\ h[p].kid # NULL => h[p].kid \in Obj /\ h[h[p].kid].kid = NULL
  BY GoodIs
<1>6. /\ g \in Heap /\ \A p \in Obj : p # o => g[p] = h[p]
      /\ h[o].refs = 1 => /\ g[o] = Unused
                          /\ \A v \in Obj : Count(KidOf(g), v) = Count(KidOf(h), v) - One(v, k)
      /\ h[o].refs # 1 => /\ g[o].refs = h[o].refs - 1 /\ g[o].kid = k
                          /\ g[o].val = h[o].val /\ g[o].parent = h[o].parent
                          /\ KidOf(g) = KidOf(h)
  BY <1>1, LessIs
<1>7. CASE h[o].refs # 1
  <2>1. d = g
    BY <1>1, <1>7 DEF Drop
  <2>2. \A p \in Obj : d[p].kid = h[p].kid /\ d[p].val = h[p].val /\ d[p].parent = h[p].parent
    BY <1>6, <1>7, <2>1
  <2>3. \A p \in Obj : d[p].refs = f[p] + Count(KidOf(d), p)
    BY <1>2, <1>3, <1>4, <1>6, <1>7, <2>1
  <2>4. \A p \in Obj : d[p].refs = 0 => h[p].refs = 0
    BY <1>2, <1>6, <1>7, <2>1
  <2> HIDE DEF d, g, f, k
  <2>5. \A p \in Obj : /\ d[p].refs = 0 => d[p].kid = NULL
                       /\ d[p].kid # NULL => d[d[p].kid].kid = NULL
    BY <1>5, <2>2, <2>4
  <2>6. Good(d, f)
    BY <1>3, <1>6, <2>1, <2>3, <2>5 DEF Good
  <2>7. Same(h, d)
    BY <2>2 DEF Same
  <2> QED BY <2>6, <2>7 DEF d, f
<1>8. CASE h[o].refs = 1 /\ k = NULL
  <2>1. d = g
    BY <1>1, <1>8 DEF Drop
  <2>2. \A v \in Obj : One(v, k) = 0
    BY <1>1, <1>8 DEF One
  <2>3. \A p \in Obj : p # o => d[p] = h[p]
    BY <1>6, <2>1
  <2>4. d[o].kid = NULL /\ d[o].refs = 0
    BY <1>6, <1>8, <2>1 DEF Unused
  <2>5. \A p \in Obj : d[p].refs = f[p] + Count(KidOf(d), p)
    <3> TAKE p \in Obj
    <3>1. Count(KidOf(d), p) = Count(KidOf(h), p)
      BY <1>4, <1>6, <1>8, <2>1, <2>2
    <3>2. CASE p = o
      BY <1>2, <1>3, <1>8, <2>4, <3>1, <3>2
    <3>3. CASE p # o
      BY <1>3, <1>4, <2>3, <3>1, <3>3
    <3> QED BY <3>2, <3>3
  <2> HIDE DEF d, g, f, k
  <2>6. \A p \in Obj : /\ d[p].refs = 0 => d[p].kid = NULL
                       /\ d[p].kid # NULL => d[d[p].kid].kid = NULL
    BY <1>5, <2>3, <2>4
  <2>7. Good(d, f)
    BY <1>3, <1>6, <2>1, <2>5, <2>6 DEF Good
  <2>8. Same(h, d)
    BY <2>3, <2>4 DEF Same
  <2> QED BY <2>7, <2>8 DEF d, f
<1>9. CASE h[o].refs = 1 /\ k # NULL
  <2>1. d = Less(g, k)
    BY <1>1, <1>9 DEF Drop
  <2>2. /\ d \in Heap /\ \A p \in Obj : p # k => d[p] = g[p]
        /\ g[k].refs = 1 => /\ d[k] = Unused
                            /\ \A v \in Obj : Count(KidOf(d), v)
                                              = Count(KidOf(g), v) - One(v, g[k].kid)
        /\ g[k].refs # 1 => /\ d[k].refs = g[k].refs - 1 /\ d[k].kid = g[k].kid
                            /\ d[k].val = g[k].val /\ d[k].parent = g[k].parent
                            /\ KidOf(d) = KidOf(g)
    <3>1. g \in Heap /\ k \in Obj
      BY <1>2, <1>6, <1>9
    <3> HIDE DEF d, g, f, k
    <3> QED BY <2>1, <3>1, LessIs
  <2> HIDE DEF d, g, f, k
  <2>3. g[k] = h[k] /\ g[k].kid = NULL /\ g[o] = Unused /\ k \in Obj /\ k # o
    BY <1>2, <1>6, <1>9
  <2>4. \A v \in Obj : One(v, NULL) = 0 /\ One(v, k) = IF v = k THEN 1 ELSE 0
    BY <1>1 DEF One
  <2>5. \A v \in Obj : Count(KidOf(d), v) = Count(KidOf(h), v) - One(v, k)
    BY <1>4, <1>6, <1>9, <2>2, <2>3, <2>4
  <2>6. \A p \in Obj : p # o /\ p # k => d[p] = h[p]
    BY <1>6, <2>2
  <2>7. d[o] = Unused /\ d[o].kid = NULL /\ d[o].refs = 0
    BY <2>2, <2>3 DEF Unused
  <2>8. /\ d[k].refs = h[k].refs - 1 /\ d[k].kid = NULL
        /\ d[k].refs # 0 => d[k].val = h[k].val /\ d[k].parent = h[k].parent
    BY <2>2, <2>3 DEF Unused
  <2>9. \A p \in Obj : d[p].refs = f[p] + Count(KidOf(d), p)
    <3> TAKE p \in Obj
    <3>1. CASE p = o
      BY <1>2, <1>3, <1>9, <2>3, <2>4, <2>5, <2>7, <3>1
    <3>2. CASE p = k
      BY <1>3, <1>4, <2>3, <2>4, <2>5, <2>8, <3>2
    <3>3. CASE p # o /\ p # k
      BY <1>3, <1>4, <2>4, <2>5, <2>6, <3>3
    <3> QED BY <3>1, <3>2, <3>3
  <2>10. \A p \in Obj : d[p].kid # NULL => d[p].kid = h[p].kid
    BY <2>6, <2>7, <2>8
  <2>11. \A p \in Obj : d[p].refs = 0 => d[p].kid = NULL
    BY <1>5, <2>6, <2>7, <2>8
  <2>12. \A p \in Obj : d[p].kid # NULL => d[d[p].kid].kid = NULL
    BY <1>5, <2>6, <2>7, <2>8
  <2>13. Good(d, f)
    BY <1>3, <2>2, <2>9, <2>11, <2>12 DEF Good
  <2>14. h[k].kid = NULL
    BY <2>3
  <2>15. Same(h, d)
    BY <2>6, <2>7, <2>8, <2>14 DEF Same
  <2> QED BY <2>13, <2>15 DEF d, f
<1> QED BY <1>7, <1>8, <1>9

\* Where an object is counted, a number, a name and a parent make no difference.
LEMMA LooksGood ==
  ASSUME NEW h, NEW e, Good(h, e), NEW g \in Heap,
         \A p \in Obj : g[p].refs = h[p].refs /\ g[p].kid = h[p].kid
  PROVE  Good(g, e)
<1>1. KidOf(g) = KidOf(h)
  BY DEF KidOf
<1>2. \A p \in Obj : h[p].kid \in Obj \cup {NULL}
  BY GoodIs DEF ObjType
<1> QED BY <1>1, <1>2 DEF Good

LEMMA SetParentGood ==
  ASSUME NEW h, NEW e, Good(h, e), NEW o \in Obj \cup {NULL}, NEW n \in Num \cup {0}
  PROVE  /\ Good(SetParent(h, o, n), e)
         /\ \A p \in Obj :
              /\ SetParent(h, o, n)[p].refs = h[p].refs /\ SetParent(h, o, n)[p].kid = h[p].kid
              /\ SetParent(h, o, n)[p].val = h[p].val
              /\ SetParent(h, o, n)[p].parent = IF o # NULL /\ (p = o \/ p = h[o].kid)
                                                THEN n ELSE h[p].parent
<1> DEFINE g == SetParent(h, o, n)
<1>1. h \in Heap /\ NULL \notin Obj
  BY ObjFinite DEF Good
<1>2. ASSUME NEW p \in Obj
      PROVE  /\ g[p] \in ObjType /\ g[p].refs = h[p].refs /\ g[p].kid = h[p].kid
             /\ g[p].val = h[p].val
             /\ g[p].parent = IF o # NULL /\ (p = o \/ p = h[o].kid) THEN n ELSE h[p].parent
  <2>1. h[p] \in ObjType /\ p # NULL
    BY <1>1 DEF Heap
  <2>2. g[p] = IF o # NULL /\ (p = o \/ p = h[o].kid) THEN [h[p] EXCEPT !.parent = n] ELSE h[p]
    BY <2>1 DEF SetParent
  <2> QED BY <2>1, <2>2 DEF ObjType
<1>3. g \in Heap
  <2>1. g = [p \in Obj |-> g[p]]
    BY DEF SetParent
  <2> HIDE DEF g
  <2> QED BY <1>2, <2>1 DEF Heap
<1> QED BY <1>2, <1>3, LooksGood

\* An object is made of free room, of something else to have in it.
Handed(e, o, kid) == More(IF kid = NULL THEN e ELSE Fewer(e, kid), o)
LEMMA BuiltGood ==
  ASSUME NEW h, NEW e, Good(h, e), NEW o \in Obj, h[o].refs = 0, NEW val \in Nat,
         NEW kid \in Obj \cup {NULL},
         kid # NULL => e[kid] > 0 /\ h[kid].kid = NULL
  PROVE  /\ Good(Built(h, o, val, kid), Handed(e, o, kid))
         /\ Built(h, o, val, kid)[o] = [refs |-> 1, parent |-> 0, val |-> val, kid |-> kid]
         /\ \A p \in Obj : p # o => Built(h, o, val, kid)[p] = h[p]
<1> DEFINE x == [refs |-> 1, parent |-> 0, val |-> val, kid |-> kid]
           g == Built(h, o, val, kid)
           f == Handed(e, o, kid)
<1>1. h \in Heap /\ e \in [Obj -> Nat] /\ NULL \notin Obj
  BY ObjFinite DEF Good
<1>2. x \in ObjType /\ x.refs = 1 /\ x.kid = kid
  BY DEF ObjType
<1>3. g = [h EXCEPT ![o] = x]
  BY DEF Built
<1>4. /\ h[o].kid = NULL /\ e[o] = 0 /\ Count(KidOf(h), o) = 0
      /\ kid # NULL => kid # o
  BY <1>1, GoodIs DEF Good
<1>5. \A p \in Obj : h[p].kid # o
  <2>1. \A p \in Obj : h[p].kid = o => h[o].refs > 0
    BY <1>1, GoodIs
  <2> QED BY <2>1
<1>6. \A p \in Obj : /\ h[p].refs \in Nat /\ e[p] \in Nat /\ Count(KidOf(h), p) \in Nat
                     /\ h[p].refs = e[p] + Count(KidOf(h), p)
  BY GoodIs
<1>7. /\ f \in [Obj -> Nat] /\ f[o] = 1
      /\ \A p \in Obj \ {o} : f[p] = e[p] - (IF p = kid THEN 1 ELSE 0)
  <2>1. CASE kid = NULL
    BY <1>1, <1>4, <2>1 DEF Handed, More
  <2>2. CASE kid # NULL
    <3> DEFINE d == Fewer(e, kid)
    <3>1. kid \in Obj /\ e[kid] - 1 \in Nat /\ kid # o
      BY <1>1, <1>4, <2>2
    <3>2. d \in [Obj -> Nat] /\ d[kid] = e[kid] - 1 /\ \A p \in Obj : p # kid => d[p] = e[p]
      BY <1>1, <3>1 DEF Fewer
    <3>3. f = More(d, o)
      BY <2>2 DEF Handed
    <3> HIDE DEF d, f
    <3>4. d[o] = 0
      BY <1>4, <3>1, <3>2
    <3>5. f \in [Obj -> Nat] /\ f[o] = 1 /\ \A p \in Obj \ {o} : f[p] = d[p]
      BY <3>2, <3>3, <3>4 DEF More
    <3> QED BY <1>6, <3>1, <3>2, <3>5
  <2> QED BY <2>1, <2>2
<1> HIDE DEF x, f, g
<1>8. /\ g \in Heap /\ g[o] = x /\ \A p \in Obj : p # o => g[p] = h[p]
  BY <1>1, <1>2, <1>3 DEF Heap
<1>9. ASSUME NEW v \in Obj PROVE Count(KidOf(g), v) = Count(KidOf(h), v) + One(v, kid)
  <2>1. Count(KidOf([h EXCEPT ![o] = x]), v)
          = Count(KidOf(h), v) + One(v, x.kid) - One(v, h[o].kid)
    BY <1>1, <1>2, KidChanged
  <2>2. One(v, h[o].kid) = 0 /\ One(v, kid) \in Nat
    BY <1>1, <1>4 DEF One
  <2> QED BY <1>2, <1>3, <1>6, <2>1, <2>2
<1>10. \A p \in Obj : g[p].refs = f[p] + Count(KidOf(g), p)
  <2> TAKE p \in Obj
  <2>1. Count(KidOf(g), p) = Count(KidOf(h), p) + (IF p = kid THEN 1 ELSE 0)
    BY <1>9 DEF One
  <2>2. CASE p = o
    BY <1>1, <1>2, <1>4, <1>7, <1>8, <2>1, <2>2
  <2>3. CASE p # o
    <3>1. g[p].refs = e[p] + Count(KidOf(h), p) /\ e[p] \in Nat /\ Count(KidOf(h), p) \in Nat
      BY <1>6, <1>8, <2>3
    <3>2. f[p] = e[p] - (IF p = kid THEN 1 ELSE 0)
      BY <1>7, <2>3
    <3> QED BY <2>1, <3>1, <3>2
  <2> QED BY <2>2, <2>3
<1>11. \A p \in Obj : g[p].refs = 0 => g[p].kid = NULL
  BY <1>2, <1>8 DEF Good
<1>12. ASSUME NEW p \in Obj, g[p].kid # NULL PROVE g[g[p].kid].kid = NULL
  <2>1. CASE p = o
    BY <1>2, <1>4, <1>8, <1>12, <2>1
  <2>2. CASE p # o
    <3>1. h[p].kid # NULL /\ h[p].kid \in Obj /\ h[h[p].kid].kid = NULL /\ h[p].kid # o
      BY <1>5, <1>8, <1>12, <2>2, GoodIs
    <3> QED BY <1>8, <2>2, <3>1
  <2> QED BY <2>1, <2>2
<1>13. Good(g, f)
  BY <1>7, <1>8, <1>10, <1>11, <1>12 DEF Good
<1> QED BY <1>8, <1>13 DEF x, f, g

LEMMA FreeIs ==
  ASSUME NEW h
  PROVE  /\ IsFiniteSet(Free(h)) /\ Free(h) \in SUBSET Obj /\ Cardinality(Free(h)) \in Nat
         /\ \A n \in Nat : Cardinality(Free(h)) > 0 => Place(Free(h), n) \in Free(h)
<1>1. IsFiniteSet(Free(h)) /\ Free(h) \in SUBSET Obj /\ Cardinality(Free(h)) \in Nat
  BY ObjFinite, FS_Subset, FS_CardinalityType DEF Free
<1>2. ASSUME Cardinality(Free(h)) > 0 PROVE Max(Free(h)) \in Free(h)
  <2>1. Free(h) # {}
    BY <1>1, <1>2, FS_EmptySet
  <2>2. Free(h) \in SUBSET (0..MaxObj)
    BY <1>1, ObjFinite DEF Obj
  <2> QED BY <2>1, <2>2, ObjFinite, MaxIsIn
<1> QED BY <1>1, <1>2 DEF Place

\* An object with what is in it, as it is parsed: all of it is new.
Fits(h, o, c) ==
  /\ h[o].val = c.val
  /\ IF c.kid = 0 THEN h[o].kid = NULL ELSE h[o].kid # NULL /\ h[h[o].kid].val = c.kid
LEMMA NewGood ==
  ASSUME NEW h, NEW e, Good(h, e), NEW c \in Content, NEW n \in Nat,
         Cardinality(Free(h)) >= IF c.kid = 0 THEN 1 ELSE 2
  PROVE  LET r == New(h, c, n)
             kid == r.h[r.obj].kid
         IN  /\ r.obj \in Obj /\ h[r.obj].refs = 0 /\ Good(r.h, More(e, r.obj))
             /\ Fits(r.h, r.obj, c) /\ r.h[r.obj].parent = 0 /\ r.h[r.obj].refs = 1
             /\ kid # NULL => /\ kid \in Obj /\ kid # r.obj /\ h[kid].refs = 0
                              /\ r.h[kid].parent = 0 /\ r.h[kid].kid = NULL
             /\ \A p \in Obj : p # r.obj /\ p # kid => r.h[p] = h[p]
             /\ Cardinality(Free(r.h)) >= Cardinality(Free(h)) - 2
<1> DEFINE o == Place(Free(h), n)
<1>1. /\ h \in Heap /\ e \in [Obj -> Nat] /\ NULL \notin Obj /\ MaxNum + n \in Nat
      /\ c.val \in Nat /\ c.kid \in Nat
  BY ObjFinite DEF Good, Content
<1>2. o \in Free(h) /\ o \in Obj /\ h[o].refs = 0
  <2>1. Cardinality(Free(h)) \in Nat /\ Cardinality(Free(h)) > 0
    BY FreeIs
  <2>2. o \in Free(h)
    BY <2>1, FreeIs
  <2> QED BY <2>2 DEF Free
<1>3. NULL \in Obj \cup {NULL} /\ Handed(e, o, NULL) = More(e, o)
  BY DEF Handed
<1> HIDE DEF o
<1>4. CASE c.kid = 0
  <2> DEFINE g == Built(h, o, c.val, NULL)
  <2>1. New(h, c, n) = [obj |-> o, h |-> g]
    BY <1>4 DEF New, At, o
  <2>2. /\ Good(g, More(e, o)) /\ g[o] = [refs |-> 1, parent |-> 0, val |-> c.val, kid |-> NULL]
        /\ \A p \in Obj : p # o => g[p] = h[p]
    BY <1>1, <1>2, <1>3, BuiltGood
  <2> HIDE DEF g
  <2>3. Free(g) = Free(h) \ {o}
    BY <2>2 DEF Free
  <2>4. Cardinality(Free(g)) >= Cardinality(Free(h)) - 2
    <3>1. Cardinality(Free(h) \ {o}) = Cardinality(Free(h)) - 1
      BY <1>2, FreeIs, FS_RemoveElement
    <3> QED BY <2>3, <3>1, FreeIs
  <2>5. Fits(g, o, c) /\ g[o].kid = NULL /\ g[o].parent = 0 /\ g[o].refs = 1
    BY <1>4, <2>2 DEF Fits
  <2> QED BY <1>2, <2>1, <2>2, <2>4, <2>5
<1>5. CASE c.kid # 0
  <2> DEFINE k == Place(Free(h) \ {o}, MaxNum + n)
             d == Built(h, k, c.kid, NULL)
             g == Built(d, o, c.val, k)
  <2>1. New(h, c, n) = [obj |-> o, h |-> g]
    BY <1>5 DEF New, At, WithKid, o
  <2>2. k \in Free(h) /\ k # o /\ k \in Obj /\ h[k].refs = 0
    <3> DEFINE x == [h EXCEPT ![o].refs = 1]
    <3>1. Free(x) = Free(h) \ {o}
      BY <1>1, <1>2 DEF Free, Heap, ObjType
    <3>2. Cardinality(Free(h) \ {o}) = Cardinality(Free(h)) - 1
      BY <1>2, FreeIs, FS_RemoveElement
    <3>3. Cardinality(Free(x)) > 0
      <4>1. Cardinality(Free(h)) \in Nat /\ Cardinality(Free(h)) >= 2
        BY <1>5, FreeIs
      <4>2. Cardinality(Free(x)) = Cardinality(Free(h)) - 1
        BY <3>1, <3>2, Zenon
      <4> HIDE DEF x
      <4> QED BY <4>1, <4>2
    <3> HIDE DEF x
    <3>4. Place(Free(x), MaxNum + n) \in Free(x)
      BY <1>1, <3>3, FreeIs
    <3> QED BY <3>1, <3>4 DEF Free
  <2> HIDE DEF k
  <2>3. /\ Good(d, Handed(e, k, NULL))
        /\ d[k] = [refs |-> 1, parent |-> 0, val |-> c.kid, kid |-> NULL]
        /\ \A p \in Obj : p # k => d[p] = h[p]
    BY <1>1, <1>3, <2>2, BuiltGood
  <2>4. Handed(e, k, NULL) = More(e, k) /\ More(e, k)[k] = e[k] + 1 /\ e[k] \in Nat
    BY <1>1, <2>2 DEF Handed, More
  <2> HIDE DEF d
  <2>5. /\ Good(g, Handed(More(e, k), o, k))
        /\ g[o] = [refs |-> 1, parent |-> 0, val |-> c.val, kid |-> k]
        /\ \A p \in Obj : p # o => g[p] = d[p]
    <3>1. d[o].refs = 0 /\ More(e, k)[k] > 0 /\ d[k].kid = NULL
      BY <1>2, <2>2, <2>3, <2>4
    <3> QED BY <1>1, <1>2, <2>2, <2>3, <2>4, <3>1, BuiltGood
  <2>6. Handed(More(e, k), o, k) = More(e, o)
    <3>1. Fewer(More(e, k), k) = e
      <4>1. /\ More(e, k) \in [Obj -> Nat] /\ More(e, k)[k] = e[k] + 1
            /\ \A p \in Obj : p # k => More(e, k)[p] = e[p]
        BY <1>1, <2>2 DEF More
      <4>2. /\ Fewer(More(e, k), k) = [p \in Obj |-> Fewer(More(e, k), k)[p]]
            /\ e = [p \in Obj |-> e[p]]
        BY <1>1, <4>1 DEF Fewer
      <4>3. \A p \in Obj : Fewer(More(e, k), k)[p] = e[p]
        <5> TAKE p \in Obj
        <5>1. CASE p = k
          BY <2>2, <2>4, <4>1, <5>1 DEF Fewer
        <5>2. CASE p # k
          BY <4>1, <5>2 DEF Fewer
        <5> QED BY <5>1, <5>2
      <4> QED BY <4>2, <4>3
    <3> QED BY <1>1, <2>2, <3>1 DEF Handed
  <2> HIDE DEF g
  <2>7. Free(g) = (Free(h) \ {o}) \ {k}
    BY <2>2, <2>3, <2>5 DEF Free
  <2>8. Cardinality(Free(g)) >= Cardinality(Free(h)) - 2
    <3>1. IsFiniteSet(Free(h) \ {o}) /\ Cardinality(Free(h) \ {o}) = Cardinality(Free(h)) - 1
      BY <1>2, FreeIs, FS_RemoveElement
    <3>2. k \in Free(h) \ {o}
      BY <2>2
    <3>3. Cardinality((Free(h) \ {o}) \ {k}) = Cardinality(Free(h) \ {o}) - 1
      BY <3>1, <3>2, FS_RemoveElement
    <3> QED BY <2>7, <3>1, <3>3, FreeIs
  <2>9. /\ Fits(g, o, c) /\ g[o].parent = 0 /\ g[o].refs = 1 /\ g[o].kid = k
        /\ g[k].parent = 0 /\ g[k].kid = NULL
        /\ \A p \in Obj : p # o /\ p # k => g[p] = h[p]
    BY <1>1, <1>5, <2>2, <2>3, <2>5 DEF Fits
  <2> QED BY <1>1, <1>2, <2>1, <2>2, <2>5, <2>6, <2>8, <2>9
<1> QED BY <1>1, <1>4, <1>5

-----------------------------------------------------------------------------
(* Tables                                                                  *)

Types == {"undefined", "f", "n", "o"}
Cell == [type : Types, ofs : Num \cup {0}, at : Content, obj : Obj \cup {NULL}, buf : Nat]
Table == Seq([Num -> Cell]) \ {<< >>}
ObjAt(s) == [x \in (DOMAIN s) \X Num |-> s[x[1]][x[2]].obj]
SetCell(s, j, n, e) == [s EXCEPT ![j][n] = e]

LEMMA TableFinite ==
  ASSUME NEW s \in Table
  PROVE  /\ IsFiniteSet(DOMAIN ObjAt(s)) /\ DOMAIN ObjAt(s) = (DOMAIN s) \X Num
         /\ DOMAIN s = 1..Len(s) /\ Len(s) \in Nat /\ 1 \in DOMAIN s
         /\ s \in [1..Len(s) -> [Num -> Cell]]
         /\ \A j \in DOMAIN s : s[j] \in [Num -> Cell] /\ \A n \in Num : s[j][n] \in Cell
<1>1. s \in Seq([Num -> Cell]) /\ s # << >>
  BY DEF Table
<1>2. DOMAIN s = 1..Len(s) /\ Len(s) \in Nat /\ s \in [1..Len(s) -> [Num -> Cell]]
  BY <1>1
<1>3. 1 \in DOMAIN s
  BY <1>1, <1>2
<1>4. IsFiniteSet(DOMAIN s)
  BY <1>2, FS_Interval
<1>5. IsFiniteSet((DOMAIN s) \X Num)
  BY <1>4, ObjFinite, FS_Product
<1>6. \A j \in DOMAIN s : s[j] \in [Num -> Cell] /\ \A n \in Num : s[j][n] \in Cell
  BY <1>2
<1> QED BY <1>2, <1>3, <1>5, <1>6 DEF ObjAt

\* An entry that is changed changes how often two objects are referred to.
LEMMA SetCellIs ==
  ASSUME NEW s \in Table, NEW j \in DOMAIN s, NEW n \in Num, NEW e \in Cell
  PROVE  /\ SetCell(s, j, n, e) \in Table /\ DOMAIN SetCell(s, j, n, e) = DOMAIN s
         /\ Len(SetCell(s, j, n, e)) = Len(s)
         /\ SetCell(s, j, n, e)[j][n] = e
         /\ \A i \in DOMAIN s, m \in Num :
              i # j \/ m # n => SetCell(s, j, n, e)[i][m] = s[i][m]
         /\ \A v : Count(ObjAt(SetCell(s, j, n, e)), v)
                     = Count(ObjAt(s), v) + One(v, e.obj) - One(v, s[j][n].obj)
<1> DEFINE t == SetCell(s, j, n, e)
<1>1. /\ DOMAIN s = 1..Len(s) /\ Len(s) \in Nat /\ s \in [1..Len(s) -> [Num -> Cell]]
      /\ s[j] \in [Num -> Cell] /\ 1 \in DOMAIN s
  BY TableFinite
<1>2. [s[j] EXCEPT ![n] = e] \in [Num -> Cell]
  BY <1>1
<1>3. t = [s EXCEPT ![j] = [s[j] EXCEPT ![n] = e]]
  BY <1>1 DEF SetCell
<1>4. t \in [1..Len(s) -> [Num -> Cell]]
  BY <1>1, <1>2, <1>3
<1>5. t \in Seq([Num -> Cell]) /\ Len(t) = Len(s) /\ DOMAIN t = DOMAIN s
  BY <1>1, <1>4
<1>6. t \in Table
  BY <1>1, <1>5 DEF Table
<1>7. t[j][n] = e /\ \A i \in DOMAIN s, m \in Num : i # j \/ m # n => t[i][m] = s[i][m]
  BY <1>1, <1>2, <1>3
<1>8. ObjAt(t) = [ObjAt(s) EXCEPT ![<<j, n>>] = e.obj]
  <2>1. \A x \in (DOMAIN s) \X Num :
          ObjAt(t)[x] = IF x = <<j, n>> THEN e.obj ELSE ObjAt(s)[x]
    <3> TAKE x \in (DOMAIN s) \X Num
    <3>1. ObjAt(t)[x] = t[x[1]][x[2]].obj /\ ObjAt(s)[x] = s[x[1]][x[2]].obj
      BY <1>5 DEF ObjAt
    <3>2. x = <<x[1], x[2]>> /\ x[1] \in DOMAIN s /\ x[2] \in Num
      OBVIOUS
    <3> HIDE DEF t
    <3> QED BY <1>7, <3>1, <3>2
  <2> QED BY <1>5, <2>1 DEF ObjAt
<1>9. <<j, n>> \in DOMAIN ObjAt(s) /\ ObjAt(s)[<<j, n>>] = s[j][n].obj
  BY DEF ObjAt
<1> DEFINE f == ObjAt(s)
           p == <<j, n>>
           w == e.obj
<1>10. ASSUME NEW v
       PROVE  Count(ObjAt(t), v) = Count(ObjAt(s), v) + One(v, e.obj) - One(v, s[j][n].obj)
  <2>1. IsFiniteSet(DOMAIN f) /\ p \in DOMAIN f
    BY <1>9, TableFinite
  <2> HIDE DEF f, p, w, t
  <2>2. Count([f EXCEPT ![p] = w], v) = Count(f, v) + One(v, w) - One(v, f[p])
    BY <2>1, CountChanged
  <2> QED BY <1>8, <1>9, <2>2 DEF f, p, w
<1> QED BY <1>5, <1>6, <1>7, <1>10

\* The same with a section that refers to nothing in front.
Blank == [n \in Num |-> NoEntry]
LEMMA PushedIs ==
  ASSUME NEW s \in Table
  PROVE  /\ <<Blank>> \o s \in Table /\ Len(<<Blank>> \o s) = Len(s) + 1
         /\ (<<Blank>> \o s)[1] = Blank
         /\ \A j \in DOMAIN s : (<<Blank>> \o s)[j + 1] = s[j]
         /\ \A v \in Obj : Count(ObjAt(<<Blank>> \o s), v) = Count(ObjAt(s), v)
<1> DEFINE t == <<Blank>> \o s
<1>1. /\ DOMAIN s = 1..Len(s) /\ Len(s) \in Nat /\ s \in Seq([Num -> Cell]) /\ 1 \in DOMAIN s
  BY TableFinite DEF Table
<1>2. NoEntry \in Cell /\ NoEntry.obj = NULL /\ NULL \notin Obj
  BY ObjFinite DEF NoEntry, Cell, Types, Content, Nothing
<1>3. Blank \in [Num -> Cell]
  BY <1>2 DEF Blank
<1>4. t \in Seq([Num -> Cell]) /\ Len(t) = Len(s) + 1 /\ DOMAIN t = 1..Len(s) + 1
  BY <1>1, <1>3
<1>5. t[1] = Blank /\ \A j \in DOMAIN s : t[j + 1] = s[j]
  BY <1>1, <1>3
<1>6. t # << >>
  BY <1>1, <1>4
<1>7. ASSUME NEW v \in Obj PROVE Count(ObjAt(t), v) = Count(ObjAt(s), v)
  <2> HIDE DEF t
  <2> DEFINE f == ObjAt(s)
             g == ObjAt(t)
             b == [x \in (DOMAIN s) \X Num |-> <<x[1] + 1, x[2]>>]
  <2>1. IsFiniteSet(DOMAIN f) /\ DOMAIN f = (DOMAIN s) \X Num /\ DOMAIN g = (DOMAIN t) \X Num
    BY TableFinite DEF ObjAt
  <2>2. b \in [DOMAIN f -> DOMAIN g]
    BY <1>1, <1>4, <2>1
  <2>3. \A x, y \in DOMAIN f : b[x] = b[y] => x = y
    BY <1>1, <2>1
  <2>4. ASSUME NEW x \in DOMAIN f PROVE g[b[x]] = f[x]
    <3>1. f[x] = s[x[1]][x[2]].obj /\ x[1] \in DOMAIN s /\ x[2] \in Num
      BY <2>1 DEF ObjAt
    <3>2. b[x] = <<x[1] + 1, x[2]>> /\ b[x] \in DOMAIN g
      BY <2>1, <2>2
    <3>3. g[b[x]] = t[x[1] + 1][x[2]].obj
      BY <2>1, <3>2 DEF ObjAt
    <3> QED BY <1>5, <3>1, <3>3
  <2>5. ASSUME NEW y \in DOMAIN g, g[y] = v PROVE \E x \in DOMAIN f : b[x] = y
    <3>1. y = <<y[1], y[2]>> /\ y[1] \in DOMAIN t /\ y[2] \in Num /\ g[y] = t[y[1]][y[2]].obj
      BY <2>1 DEF ObjAt
    <3>2. y[1] # 1
      BY <1>2, <1>5, <2>5, <3>1 DEF Blank
    <3>3. y[1] - 1 \in DOMAIN s /\ (y[1] - 1) + 1 = y[1]
      BY <1>1, <1>4, <3>1, <3>2
    <3>4. <<y[1] - 1, y[2]>> \in DOMAIN f /\ b[<<y[1] - 1, y[2]>>] = <<y[1], y[2]>>
      BY <2>1, <3>1, <3>3
    <3> QED BY <3>1, <3>4
  <2> HIDE DEF f, g, b
  <2>6. Count(g, v) = Count(f, v)
    BY <2>1, <2>2, <2>3, <2>4, <2>5, CountRenamed
  <2> QED BY <2>6 DEF f, g
<1> QED BY <1>4, <1>5, <1>6, <1>7 DEF Table

\* The section that an entry is found in.
LEMMA WhereIs ==
  ASSUME NEW T, NEW s \in Seq(T), s # << >>, NEW n
  PROVE  /\ Where(s, n) \in DOMAIN s
         /\ \A j \in DOMAIN s :
              s[j][n].type # "undefined" =>
                s[Where(s, n)][n].type # "undefined" /\ Where(s, n) <= j
         /\ s[Where(s, n)][n].type = "undefined" => Where(s, n) = 1
<1> DEFINE D == {j \in DOMAIN s : s[j][n].type # "undefined"}
<1>1. DOMAIN s = 1..Len(s) /\ Len(s) \in Nat /\ 1 \in DOMAIN s /\ D \in SUBSET Nat
  OBVIOUS
<1>2. Where(s, n) = IF D = {} THEN 1 ELSE Min(D)
  BY DEF Where
<1>3. CASE D = {}
  BY <1>1, <1>2, <1>3
<1>4. CASE D # {}
  <2> HIDE DEF D
  <2>1. Min(D) \in D /\ \A j \in D : Min(D) <= j
    BY <1>1, <1>4, MinIsIn
  <2> QED BY <1>2, <1>4, <2>1 DEF D
<1> QED BY <1>3, <1>4

\* It is the first one where there is something, and that is all that it depends on.
LEMMA WhereFirst ==
  ASSUME NEW T, NEW s \in Seq(T), s # << >>, NEW n, NEW i \in DOMAIN s,
         s[i][n].type # "undefined", \A j \in 1..i - 1 : s[j][n].type = "undefined"
  PROVE  Where(s, n) = i
<1>1. Where(s, n) \in DOMAIN s /\ Where(s, n) <= i /\ s[Where(s, n)][n].type # "undefined"
  BY WhereIs
<1>2. DOMAIN s = 1..Len(s) /\ Len(s) \in Nat
  OBVIOUS
<1> QED BY <1>1, <1>2

LEMMA WhereSame ==
  ASSUME NEW s, NEW t, NEW n, DOMAIN s = DOMAIN t,
         \A j \in DOMAIN s :
           s[j][n].type = "undefined" <=> t[j][n].type = "undefined"
  PROVE  Where(s, n) = Where(t, n)
<1>1. {j \in DOMAIN s : s[j][n].type # "undefined"} = {j \in DOMAIN t : t[j][n].type # "undefined"}
  OBVIOUS
<1> QED BY <1>1 DEF Where

LEMMA WherePushed ==
  ASSUME NEW T, NEW s \in Seq(T), s # << >>, NEW n, NEW x \in T
  PROVE  /\ Where(<<x>> \o s, n) =
              IF x[n].type # "undefined" \/ s[Where(s, n)][n].type = "undefined" THEN 1
              ELSE Where(s, n) + 1
         /\ s[Where(s, n)][n].type # "undefined" \/ x[n].type # "undefined" =>
              Entry(<<x>> \o s, n) = IF x[n].type # "undefined" THEN x[n] ELSE Entry(s, n)
<1> DEFINE t == <<x>> \o s
           w == Where(s, n)
<1>1. /\ t \in Seq(T) /\ t # << >> /\ Len(t) = Len(s) + 1 /\ t[1] = x /\ Len(s) \in Nat
      /\ \A j \in DOMAIN s : t[j + 1] = s[j]
      /\ DOMAIN t = 1..Len(s) + 1 /\ DOMAIN s = 1..Len(s) /\ 1 \in DOMAIN t
  OBVIOUS
<1>2. /\ w \in DOMAIN s
      /\ \A j \in DOMAIN s : s[j][n].type # "undefined" => s[w][n].type # "undefined" /\ w <= j
      /\ s[w][n].type = "undefined" => w = 1
  BY WhereIs
<1> HIDE DEF t, w
<1>3. CASE x[n].type # "undefined"
  <2>1. Where(t, n) = 1
    BY <1>1, <1>3, WhereFirst
  <2> QED BY <1>1, <1>3, <2>1 DEF t, Entry
<1>4. CASE x[n].type = "undefined" /\ s[w][n].type = "undefined"
  <2>1. \A j \in DOMAIN t : t[j][n].type = "undefined"
    <3> SUFFICES ASSUME NEW j \in DOMAIN t, j # 1 PROVE t[j][n].type = "undefined"
      BY <1>1, <1>4
    <3>1. j - 1 \in DOMAIN s /\ (j - 1) + 1 = j
      BY <1>1
    <3>2. t[j] = s[j - 1]
      BY <1>1, <3>1
    <3> QED BY <1>2, <1>4, <3>1, <3>2
  <2>2. Where(t, n) = 1
    BY <2>1 DEF Where
  <2> QED BY <1>4, <2>2 DEF t, w
<1>5. CASE x[n].type = "undefined" /\ s[w][n].type # "undefined"
  <2>1. w + 1 \in DOMAIN t /\ t[w + 1] = s[w]
    BY <1>1, <1>2
  <2>2. ASSUME NEW j \in 1..(w + 1) - 1 PROVE t[j][n].type = "undefined"
    <3>1. CASE j = 1
      BY <1>1, <1>5, <3>1
    <3>2. CASE j # 1
      <4>1. j - 1 \in DOMAIN s /\ (j - 1) + 1 = j /\ j - 1 < w
        BY <1>1, <1>2, <3>2
      <4>2. t[j] = s[j - 1]
        BY <1>1, <4>1
      <4> QED BY <1>1, <1>2, <4>1, <4>2
    <3> QED BY <3>1, <3>2
  <2>3. t[w + 1][n].type # "undefined"
    BY <1>5, <2>1
  <2>4. Where(t, n) = w + 1
    <3> DEFINE i == w + 1
    <3>1. i \in DOMAIN t /\ t[i][n].type # "undefined" /\ \A j \in 1..i - 1 : t[j][n].type = "undefined"
      BY <2>1, <2>2, <2>3
    <3> HIDE DEF i
    <3> QED BY <1>1, <3>1, WhereFirst DEF i
  <2> QED BY <1>5, <2>1, <2>4 DEF t, w, Entry
<1> QED BY <1>3, <1>4, <1>5 DEF t, w

-----------------------------------------------------------------------------
(* What refers to an object: entries and clients                           *)

Clients == [Held -> Obj \cup {NULL}]
Ext(s, k) == [o \in Obj |-> Count(ObjAt(s), o) + Count(k, o)]

LEMMA CountTwice ==
  ASSUME NEW f, IsFiniteSet(DOMAIN f), NEW x \in DOMAIN f, NEW y \in DOMAIN f, x # y,
         NEW v \in Obj, f[x] = v, f[y] = v
  PROVE  Count(f, v) >= 2
<1> DEFINE w == NULL
           g == [f EXCEPT ![x] = w]
<1>1. w # v
  BY ObjFinite
<1> HIDE DEF w
<1>2. Count(g, v) = Count(f, v) + One(v, w) - One(v, f[x])
  BY CountChanged
<1>3. Count(g, v) = Count(f, v) - 1 /\ Count(f, v) \in Nat
  BY <1>1, <1>2, CountNat DEF One
<1>4. Count(g, v) \in Nat /\ Count(g, v) > 0
  <2>1. DOMAIN g = DOMAIN f /\ g[y] = v
    OBVIOUS
  <2> HIDE DEF g
  <2> QED BY <2>1, CountNat
<1> QED BY <1>3, <1>4

LEMMA ExtIs ==
  ASSUME NEW s \in Table, NEW k \in Clients
  PROVE  /\ Ext(s, k) \in [Obj -> Nat]
         /\ \A j \in DOMAIN s, n \in Num : s[j][n].obj \in Obj => Ext(s, k)[s[j][n].obj] > 0
         /\ \A h \in Held : k[h] \in Obj => Ext(s, k)[k[h]] > 0
<1>1. IsFiniteSet(DOMAIN k) /\ DOMAIN k = Held
  BY BoundsAssumption DEF Clients
<1>2. IsFiniteSet(DOMAIN ObjAt(s)) /\ DOMAIN ObjAt(s) = (DOMAIN s) \X Num
  BY TableFinite
<1>3. ASSUME NEW o \in Obj
      PROVE  /\ Count(ObjAt(s), o) \in Nat /\ Count(k, o) \in Nat
             /\ Count(ObjAt(s), o) > 0 <=> \E x \in DOMAIN ObjAt(s) : ObjAt(s)[x] = o
             /\ Count(k, o) > 0 <=> \E h \in Held : k[h] = o
             /\ Ext(s, k)[o] = Count(ObjAt(s), o) + Count(k, o)
  <2>1. Count(ObjAt(s), o) \in Nat /\ (Count(ObjAt(s), o) > 0 <=> \E x \in DOMAIN ObjAt(s) : ObjAt(s)[x] = o)
    BY <1>2, CountNat
  <2>2. Count(k, o) \in Nat /\ (Count(k, o) > 0 <=> \E h \in Held : k[h] = o)
    BY <1>1, CountNat
  <2> QED BY <2>1, <2>2 DEF Ext
<1>4. ASSUME NEW j \in DOMAIN s, NEW n \in Num, s[j][n].obj \in Obj
      PROVE  Ext(s, k)[s[j][n].obj] > 0
  <2>1. <<j, n>> \in DOMAIN ObjAt(s) /\ ObjAt(s)[<<j, n>>] = s[j][n].obj
    BY <1>2 DEF ObjAt
  <2> QED BY <1>3, <1>4, <2>1
<1>5. Ext(s, k) \in [Obj -> Nat]
  <2>1. Ext(s, k) = [o \in Obj |-> Ext(s, k)[o]]
    BY DEF Ext
  <2>2. \A o \in Obj : Ext(s, k)[o] \in Nat
    BY <1>3
  <2> QED BY <2>1, <2>2, Zenon
<1> QED BY <1>3, <1>4, <1>5

LEMMA ExtCell ==
  ASSUME NEW s \in Table, NEW j \in DOMAIN s, NEW n \in Num, NEW e \in Cell, NEW k \in Clients
  PROVE  /\ \A o \in Obj : Ext(SetCell(s, j, n, e), k)[o]
                             = Ext(s, k)[o] + One(o, e.obj) - One(o, s[j][n].obj)
         /\ e.obj = s[j][n].obj => Ext(SetCell(s, j, n, e), k) = Ext(s, k)
         /\ e.obj \in Obj /\ s[j][n].obj = NULL =>
              Ext(SetCell(s, j, n, e), k) = More(Ext(s, k), e.obj)
         /\ e.obj = NULL /\ s[j][n].obj \in Obj =>
              Ext(SetCell(s, j, n, e), k) = Fewer(Ext(s, k), s[j][n].obj)
<1> DEFINE t == SetCell(s, j, n, e)
<1>1. t \in Table /\ \A v : Count(ObjAt(t), v) = Count(ObjAt(s), v) + One(v, e.obj) - One(v, s[j][n].obj)
  BY SetCellIs
<1>2. Ext(s, k) \in [Obj -> Nat] /\ Ext(t, k) \in [Obj -> Nat]
  <2> HIDE DEF t
  <2> QED BY <1>1, ExtIs
<1>3. \A o \in Obj : Count(ObjAt(s), o) \in Nat /\ Count(k, o) \in Nat
  <2>1. IsFiniteSet(DOMAIN k) /\ DOMAIN k = Held
    BY BoundsAssumption DEF Clients
  <2> QED BY <2>1, TableFinite, CountNat
<1>4. \A v, w : One(v, w) \in {0, 1} /\ (One(v, w) = 1 <=> v = w)
  BY DEF One
<1>5. ASSUME NEW o \in Obj
      PROVE  Ext(t, k)[o] = Ext(s, k)[o] + One(o, e.obj) - One(o, s[j][n].obj)
  <2>1. Ext(s, k)[o] = Count(ObjAt(s), o) + Count(k, o) /\ Ext(t, k)[o] = Count(ObjAt(t), o) + Count(k, o)
    BY DEF Ext
  <2>2. Count(ObjAt(t), o) = Count(ObjAt(s), o) + One(o, e.obj) - One(o, s[j][n].obj)
    BY <1>1
  <2>3. One(o, e.obj) \in Nat /\ One(o, s[j][n].obj) \in Nat
    BY DEF One
  <2> HIDE DEF t
  <2> QED BY <1>3, <2>1, <2>2, <2>3
<1> HIDE DEF t
<1>6. ASSUME e.obj = s[j][n].obj PROVE Ext(t, k) = Ext(s, k)
  <2>1. \A o \in Obj : Ext(t, k)[o] = Ext(s, k)[o]
    <3> TAKE o \in Obj
    <3>1. One(o, e.obj) \in Nat /\ Ext(s, k)[o] \in Nat
      BY <1>2 DEF One
    <3> QED BY <1>5, <1>6, <3>1
  <2> QED BY <1>2, <2>1
<1>7. NULL \notin Obj
  BY ObjFinite
<1>8. ASSUME e.obj \in Obj, s[j][n].obj = NULL PROVE Ext(t, k) = More(Ext(s, k), e.obj)
  <2>1. More(Ext(s, k), e.obj) \in [Obj -> Nat]
    BY <1>2, <1>8 DEF More
  <2>2. \A o \in Obj : Ext(t, k)[o] = More(Ext(s, k), e.obj)[o]
    <3> TAKE o \in Obj
    <3>1. Ext(s, k)[o] \in Nat /\ One(o, s[j][n].obj) = 0
      BY <1>2, <1>7, <1>8 DEF One
    <3>2. Ext(t, k)[o] = Ext(s, k)[o] + (IF o = e.obj THEN 1 ELSE 0)
      BY <1>5, <3>1 DEF One
    <3> QED BY <1>2, <1>8, <3>1, <3>2 DEF More
  <2> QED BY <1>2, <2>1, <2>2
<1>9. ASSUME e.obj = NULL, s[j][n].obj \in Obj PROVE Ext(t, k) = Fewer(Ext(s, k), s[j][n].obj)
  <2>1. Ext(s, k)[s[j][n].obj] > 0
    BY <1>9, ExtIs
  <2>2. Fewer(Ext(s, k), s[j][n].obj) \in [Obj -> Nat]
    BY <1>2, <1>9, <2>1 DEF Fewer
  <2>3. \A o \in Obj : Ext(t, k)[o] = Fewer(Ext(s, k), s[j][n].obj)[o]
    <3> TAKE o \in Obj
    <3>1. Ext(s, k)[o] \in Nat /\ One(o, e.obj) = 0
      BY <1>2, <1>7, <1>9 DEF One
    <3>2. Ext(t, k)[o] = Ext(s, k)[o] - (IF o = s[j][n].obj THEN 1 ELSE 0)
      BY <1>5, <3>1 DEF One
    <3> QED BY <1>2, <1>9, <3>1, <3>2 DEF Fewer
  <2> QED BY <1>2, <2>2, <2>3
<1> QED BY <1>5, <1>6, <1>8, <1>9 DEF t

LEMMA ExtPushed ==
  ASSUME NEW s \in Table, NEW k \in Clients
  PROVE  Ext(<<Blank>> \o s, k) = Ext(s, k)
<1>1. \A o \in Obj : Count(ObjAt(<<Blank>> \o s), o) = Count(ObjAt(s), o)
  BY PushedIs
<1> QED BY <1>1 DEF Ext

LEMMA ExtHeld ==
  ASSUME NEW s \in Table, NEW k \in Clients, NEW h \in Held, NEW o \in Obj
  PROVE  /\ [k EXCEPT ![h] = o] \in Clients /\ [k EXCEPT ![h] = NULL] \in Clients
         /\ k[h] = NULL => Ext(s, [k EXCEPT ![h] = o]) = More(Ext(s, k), o)
         /\ k[h] = o => Ext(s, [k EXCEPT ![h] = NULL]) = Fewer(Ext(s, k), o)
<1>1. IsFiniteSet(DOMAIN k) /\ DOMAIN k = Held /\ NULL \notin Obj
  BY BoundsAssumption, ObjFinite DEF Clients
<1>2. [k EXCEPT ![h] = o] \in Clients /\ [k EXCEPT ![h] = NULL] \in Clients
  BY DEF Clients
<1>3. \A p \in Obj : Count(ObjAt(s), p) \in Nat /\ Count(k, p) \in Nat
  BY <1>1, TableFinite, CountNat
<1>4. \A p \in Obj : One(p, NULL) = 0 /\ One(p, o) = IF p = o THEN 1 ELSE 0
  BY <1>1 DEF One
<1>5. ASSUME k[h] = NULL PROVE Ext(s, [k EXCEPT ![h] = o]) = More(Ext(s, k), o)
  <2>1. \A p \in Obj : Count([k EXCEPT ![h] = o], p) = Count(k, p) + (IF p = o THEN 1 ELSE 0)
    <3> TAKE p \in Obj
    <3>1. Count([k EXCEPT ![h] = o], p) = Count(k, p) + One(p, o) - One(p, k[h])
      BY <1>1, CountChanged
    <3> QED BY <1>3, <1>4, <1>5, <3>1
  <2> DEFINE t == [k EXCEPT ![h] = o]
  <2>2. \A p \in Obj : Ext(s, t)[p] = Ext(s, k)[p] + (IF p = o THEN 1 ELSE 0)
    <3>1. \A p \in Obj : Count(t, p) = Count(k, p) + (IF p = o THEN 1 ELSE 0)
      BY <2>1
    <3> HIDE DEF t
    <3> QED BY <1>3, <3>1 DEF Ext
  <2>3. \A p \in Obj : Ext(s, k)[p] \in Nat
    BY <1>3 DEF Ext
  <2>4. Ext(s, t) = [p \in Obj |-> Ext(s, t)[p]] /\ Ext(s, k) = [p \in Obj |-> Ext(s, k)[p]]
    BY DEF Ext
  <2> HIDE DEF t
  <2>5. Ext(s, t) = More(Ext(s, k), o)
    BY <2>2, <2>3, <2>4 DEF More
  <2> QED BY <2>5 DEF t
<1>6. ASSUME k[h] = o PROVE Ext(s, [k EXCEPT ![h] = NULL]) = Fewer(Ext(s, k), o)
  <2>1. \A p \in Obj : Count([k EXCEPT ![h] = NULL], p) = Count(k, p) - (IF p = o THEN 1 ELSE 0)
    <3> TAKE p \in Obj
    <3> DEFINE w == NULL
    <3>1. One(p, w) = 0
      BY <1>4
    <3> HIDE DEF w
    <3>2. Count([k EXCEPT ![h] = w], p) = Count(k, p) + One(p, w) - One(p, k[h])
      BY <1>1, CountChanged
    <3>3. Count([k EXCEPT ![h] = w], p) = Count(k, p) - (IF p = o THEN 1 ELSE 0)
      BY <1>3, <1>4, <1>6, <3>1, <3>2
    <3> QED BY <3>3 DEF w
  <2> DEFINE t == [k EXCEPT ![h] = NULL]
  <2>2. \A p \in Obj : Ext(s, t)[p] = Ext(s, k)[p] - (IF p = o THEN 1 ELSE 0)
    <3>1. \A p \in Obj : Count(t, p) = Count(k, p) - (IF p = o THEN 1 ELSE 0)
      BY <2>1
    <3> HIDE DEF t
    <3> QED BY <1>3, <3>1 DEF Ext
  <2>3. \A p \in Obj : Ext(s, k)[p] \in Nat
    BY <1>3 DEF Ext
  <2>4. Ext(s, t) = [p \in Obj |-> Ext(s, t)[p]] /\ Ext(s, k) = [p \in Obj |-> Ext(s, k)[p]]
    BY DEF Ext
  <2> HIDE DEF t
  <2>5. Ext(s, t) = Fewer(Ext(s, k), o)
    BY <2>2, <2>3, <2>4 DEF Fewer
  <2> QED BY <2>5 DEF t
<1> QED BY <1>2, <1>5, <1>6

\* An object with one reference is referred to by one thing only.
LEMMA Sole ==
  ASSUME NEW s \in Table, NEW k \in Clients, NEW h, Good(h, Ext(s, k)),
         NEW o \in Obj, h[o].refs = 1
  PROVE  /\ \A j, i \in DOMAIN s, n, m \in Num :
              s[j][n].obj = o /\ s[i][m].obj = o => j = i /\ n = m
         /\ \A p, q \in Obj : h[p].kid = o /\ h[q].kid = o => p = q
         /\ \A j \in DOMAIN s, n \in Num, p \in Obj : ~ (s[j][n].obj = o /\ h[p].kid = o)
<1>1. h[o].refs = Ext(s, k)[o] + Count(KidOf(h), o) /\ Count(KidOf(h), o) \in Nat
  BY GoodIs
<1>2. Ext(s, k)[o] = Count(ObjAt(s), o) + Count(k, o) /\ Count(k, o) \in Nat
  BY BoundsAssumption, CountNat DEF Ext, Clients
<1>3. IsFiniteSet(DOMAIN ObjAt(s)) /\ DOMAIN ObjAt(s) = (DOMAIN s) \X Num /\ Count(ObjAt(s), o) \in Nat
  BY TableFinite, CountNat
<1>4. ASSUME NEW j \in DOMAIN s, NEW i \in DOMAIN s, NEW n \in Num, NEW m \in Num,
             s[j][n].obj = o, s[i][m].obj = o, j # i \/ n # m
      PROVE  FALSE
  <2>1. /\ <<j, n>> \in DOMAIN ObjAt(s) /\ <<i, m>> \in DOMAIN ObjAt(s) /\ <<j, n>> # <<i, m>>
        /\ ObjAt(s)[<<j, n>>] = o /\ ObjAt(s)[<<i, m>>] = o
    BY <1>3, <1>4 DEF ObjAt
  <2>2. Count(ObjAt(s), o) >= 2
    BY <1>3, <2>1, CountTwice
  <2> QED BY <1>1, <1>2, <1>3, <2>2
<1>5. ASSUME NEW p \in Obj, NEW q \in Obj, h[p].kid = o, h[q].kid = o, p # q
      PROVE  FALSE
  <2>1. DOMAIN KidOf(h) = Obj /\ KidOf(h)[p] = o /\ KidOf(h)[q] = o
    BY <1>5 DEF KidOf
  <2>2. Count(KidOf(h), o) >= 2
    BY <1>5, <2>1, ObjFinite, CountTwice
  <2> QED BY <1>1, <1>2, <1>3, <2>2
<1>6. ASSUME NEW j \in DOMAIN s, NEW n \in Num, NEW p \in Obj, s[j][n].obj = o, h[p].kid = o
      PROVE  FALSE
  <2>1. Ext(s, k)[o] > 0
    BY <1>6, ExtIs
  <2>2. Count(KidOf(h), o) > 0
    BY <1>6, KidsCount
  <2>3. Ext(s, k)[o] \in Nat
    BY ExtIs
  <2> QED BY <1>1, <2>1, <2>2, <2>3
<1> QED BY <1>4, <1>5, <1>6

-----------------------------------------------------------------------------
(* Sections that are put in front, and entries that are moved to them      *)

\* What the layout says of entries, with numbers up to l, stays true of them.
Shape(s, l) ==
  /\ \A j \in DOMAIN s, n \in Num :
       /\ n > l => s[j][n].type = "undefined"
       /\ s[j][n].type = "o" =>
            s[j][n].ofs \in Streams /\ Tells(s[j][n].ofs, n, s[j][n].at)
  /\ \A m \in Streams : Entry(s, m).type # "undefined"
\* Nothing is cached where there is no entry.
Bare(s) == \A j \in DOMAIN s, n \in Num : s[j][n].type = "undefined" => s[j][n].obj = NULL

\* What is read under number n is the same in both.
SameEntry(t, s, n) ==
  \/ Entry(t, n) = Entry(s, n)
  \/ Entry(t, n).type = "undefined" /\ Entry(s, n).type = "undefined"
     /\ Entry(t, n).obj = NULL /\ Entry(s, n).obj = NULL

LEMMA EntryIs ==
  ASSUME NEW s \in Table, NEW n \in Num
  PROVE  /\ Where(s, n) \in DOMAIN s /\ Entry(s, n) \in Cell /\ Entry(s, n) = s[Where(s, n)][n]
         /\ \A j \in DOMAIN s : s[j][n].type # "undefined" =>
              Entry(s, n).type # "undefined" /\ Where(s, n) <= j
         /\ Entry(s, n).type = "undefined" => Where(s, n) = 1
         /\ s[1][n].type # "undefined" => Where(s, n) = 1
         /\ Bare(s) /\ Entry(s, n).type = "undefined" => Entry(s, n).obj = NULL
<1>1. s \in Seq([Num -> Cell]) /\ s # << >>
  BY DEF Table
<1>2. /\ Where(s, n) \in DOMAIN s
      /\ \A j \in DOMAIN s : s[j][n].type # "undefined" =>
           s[Where(s, n)][n].type # "undefined" /\ Where(s, n) <= j
      /\ s[Where(s, n)][n].type = "undefined" => Where(s, n) = 1
  BY <1>1, WhereIs
<1>3. 1 \in DOMAIN s /\ DOMAIN s = 1..Len(s) /\ Len(s) \in Nat /\ s[Where(s, n)][n] \in Cell
  BY <1>2, TableFinite
<1>4. s[1][n].type # "undefined" => Where(s, n) = 1
  BY <1>2, <1>3
<1> QED BY <1>2, <1>3, <1>4 DEF Entry, Bare

LEMMA IncrementalIs ==
  ASSUME sections \in Table, altered \in BOOLEAN, Bare(sections), NEW k \in Clients
  PROVE  /\ Incremental \in Table /\ Bare(Incremental) /\ Ext(Incremental, k) = Ext(sections, k)
         /\ \A l \in Nat : Shape(sections, l) => Shape(Incremental, l)
         /\ \A n \in Num : SameEntry(Incremental, sections, n)
         /\ \A n \in Num : Incremental[1][n] = IF altered THEN sections[1][n] ELSE NoEntry
         /\ \A j \in DOMAIN Incremental : j # 1 => \E i \in DOMAIN sections :
              Incremental[j] = sections[i] /\ (altered => i = j)
         /\ \A n \in Num : Entry(sections, n).type # "undefined" =>
              Where(Incremental, n) = IF altered THEN Where(sections, n)
                                      ELSE Where(sections, n) + 1
<1>1. CASE altered
  <2>1. Incremental = sections
    BY <1>1 DEF Incremental
  <2> QED BY <1>1, <2>1, TableFinite DEF SameEntry
<1>2. CASE ~ altered
  <2> DEFINE t == <<Blank>> \o sections
  <2>1. Incremental = t
    BY <1>2 DEF Incremental, Blank
  <2>2. /\ t \in Table /\ Len(t) = Len(sections) + 1 /\ t[1] = Blank
        /\ \A j \in DOMAIN sections : t[j + 1] = sections[j]
        /\ Ext(t, k) = Ext(sections, k)
    BY PushedIs, ExtPushed
  <2>3. /\ DOMAIN sections = 1..Len(sections) /\ Len(sections) \in Nat
        /\ sections \in Seq([Num -> Cell]) /\ sections # << >>
    BY TableFinite DEF Table
  <2>4. Blank \in [Num -> Cell] /\ \A n \in Num : Blank[n] = NoEntry
    <3>1. NoEntry \in Cell
      BY DEF NoEntry, Cell, Types, Content, Nothing
    <3> QED BY <3>1 DEF Blank
  <2>5. NoEntry.type = "undefined" /\ NoEntry.obj = NULL
    BY DEF NoEntry
  <2>6. ASSUME NEW n \in Num
        PROVE  /\ Where(t, n) = IF sections[Where(sections, n)][n].type = "undefined" THEN 1
                                ELSE Where(sections, n) + 1
               /\ sections[Where(sections, n)][n].type # "undefined" => Entry(t, n) = Entry(sections, n)
    BY <2>3, <2>4, <2>5, WherePushed
  <2> HIDE DEF t
  <2>7. DOMAIN t = 1..Len(t)
    BY <2>2, TableFinite
  <2>8. ASSUME NEW j \in DOMAIN t, j # 1
        PROVE  \E i \in DOMAIN sections : t[j] = sections[i]
    <3>1. j - 1 \in DOMAIN sections /\ (j - 1) + 1 = j
      BY <2>2, <2>3, <2>7, <2>8
    <3> QED BY <2>2, <3>1
  <2>9. ASSUME NEW n \in Num PROVE SameEntry(t, sections, n)
    <3>1. CASE Entry(sections, n).type = "undefined"
      <4>1. Entry(sections, n).obj = NULL /\ Entry(sections, n) = sections[Where(sections, n)][n]
        BY <3>1, EntryIs
      <4>2. Where(t, n) = 1
        BY <2>6, <3>1, <4>1
      <4>3. Entry(t, n) = NoEntry
        BY <2>2, <2>4, <4>2 DEF Entry
      <4> QED BY <2>5, <3>1, <4>1, <4>3 DEF SameEntry
    <3>2. CASE Entry(sections, n).type # "undefined"
      BY <2>6, <3>2, EntryIs DEF SameEntry
    <3> QED BY <3>1, <3>2
  <2>10. Bare(t)
    BY <2>2, <2>4, <2>5, <2>8 DEF Bare
  <2>11. ASSUME NEW l \in Nat, Shape(sections, l) PROVE Shape(t, l)
    <3>1. ASSUME NEW m \in Streams PROVE Entry(t, m).type # "undefined"
      <4>1. m \in Num
        BY LayoutAssumption, ObjFinite DEF Streams, Num
      <4>2. Entry(sections, m).type # "undefined"
        BY <2>11 DEF Shape
      <4> QED BY <2>9, <4>1, <4>2 DEF SameEntry
    <3>2. ASSUME NEW j \in DOMAIN t, NEW n \in Num
          PROVE  /\ n > l => t[j][n].type = "undefined"
                 /\ t[j][n].type = "o" =>
                      t[j][n].ofs \in Streams /\ Tells(t[j][n].ofs, n, t[j][n].at)
      <4>1. CASE j = 1
        BY <2>2, <2>4, <2>5, <4>1
      <4>2. CASE j # 1
        BY <2>8, <2>11, <4>2 DEF Shape
      <4> QED BY <4>1, <4>2
    <3> QED BY <3>1, <3>2 DEF Shape
  <2>12. \A n \in Num : Entry(sections, n).type # "undefined" => Where(t, n) = Where(sections, n) + 1
    BY <2>6, EntryIs
  <2>13. \A n \in Num : t[1][n] = NoEntry
    BY <2>2, <2>4
  <2> QED BY <1>2, <2>1, <2>2, <2>8, <2>9, <2>10, <2>11, <2>12, <2>13
<1> QED BY <1>1, <1>2

\* An entry in the first section of a table is replaced.
LEMMA FirstSet ==
  ASSUME NEW s \in Table, Bare(s), NEW n \in Num, NEW e \in Cell, e.type # "undefined"
  PROVE  /\ Bare(SetCell(s, 1, n, e))
         /\ Entry(SetCell(s, 1, n, e), n) = e /\ Where(SetCell(s, 1, n, e), n) = 1
         /\ \A m \in Num : m # n => /\ Entry(SetCell(s, 1, n, e), m) = Entry(s, m)
                                    /\ Where(SetCell(s, 1, n, e), m) = Where(s, m)
         /\ \A l \in Nat : Shape(s, l) /\ n <= l /\ e.type # "o" => Shape(SetCell(s, 1, n, e), l)
<1> DEFINE t == SetCell(s, 1, n, e)
<1>1. /\ 1 \in DOMAIN s /\ DOMAIN s = 1..Len(s) /\ Len(s) \in Nat
  BY TableFinite
<1>2. /\ t \in Table /\ DOMAIN t = DOMAIN s /\ t[1][n] = e
      /\ \A i \in DOMAIN s, m \in Num : i # 1 \/ m # n => t[i][m] = s[i][m]
  <2> DEFINE q == 1
  <2>1. q \in DOMAIN s
    BY <1>1
  <2> HIDE DEF q
  <2>2. /\ SetCell(s, q, n, e) \in Table /\ DOMAIN SetCell(s, q, n, e) = DOMAIN s
        /\ SetCell(s, q, n, e)[q][n] = e
        /\ \A i \in DOMAIN s, m \in Num :
             i # q \/ m # n => SetCell(s, q, n, e)[i][m] = s[i][m]
    BY <2>1, SetCellIs
  <2> QED BY <2>2 DEF q
<1> HIDE DEF t
<1>3. Where(t, n) = 1 /\ Entry(t, n) = e
  <2>1. Where(t, n) = 1
    BY <1>1, <1>2, EntryIs
  <2> QED BY <1>2, <2>1 DEF Entry
<1>4. ASSUME NEW m \in Num, m # n PROVE Where(t, m) = Where(s, m) /\ Entry(t, m) = Entry(s, m)
  <2>1. \A i \in DOMAIN s : t[i][m] = s[i][m]
    BY <1>2, <1>4
  <2>2. Where(t, m) = Where(s, m)
    BY <1>2, <2>1, WhereSame
  <2>3. Where(s, m) \in DOMAIN s
    BY EntryIs
  <2> QED BY <2>1, <2>2, <2>3 DEF Entry
<1>5. Bare(t)
  BY <1>2 DEF Bare
<1>6. ASSUME NEW l \in Nat, Shape(s, l), n <= l, e.type # "o" PROVE Shape(t, l)
  <2>1. \A m \in Streams : m \in Num
    BY LayoutAssumption, ObjFinite DEF Streams, Num
  <2>2. \A m \in Streams : Entry(t, m).type # "undefined"
    BY <1>3, <1>4, <1>6, <2>1 DEF Shape
  <2>3. ASSUME NEW j \in DOMAIN t, NEW m \in Num
        PROVE  /\ m > l => t[j][m].type = "undefined"
               /\ t[j][m].type = "o" =>
                    t[j][m].ofs \in Streams /\ Tells(t[j][m].ofs, m, t[j][m].at)
    <3>1. CASE j = 1 /\ m = n
      <4>1. n \in Nat
        BY ObjFinite DEF Num
      <4> QED BY <1>2, <1>6, <3>1, <4>1
    <3>2. CASE j # 1 \/ m # n
      BY <1>2, <1>6, <3>2 DEF Shape
    <3> QED BY <3>1, <3>2
  <2> QED BY <2>2, <2>3 DEF Shape
<1> QED BY <1>3, <1>4, <1>5, <1>6 DEF t

\* Behind the first section of t are those there are, or less is cached there.
Emptier(x, y) == x = y \/ x = [y EXCEPT !.obj = NULL, !.buf = 0]
Older(t, j) ==
  \E i \in DOMAIN sections : (altered => i = j) /\ \A m \in Num : Emptier(t[j][m], sections[i][m])

\* Moving an entry leaves everything as it is read, and gives nothing up.
LEMMA MovedIs ==
  ASSUME sections \in Table, altered \in BOOLEAN, Bare(sections), NEW k \in Clients, NEW n \in Num
  PROVE  /\ Moved(n) \in Table /\ Bare(Moved(n)) /\ Ext(Moved(n), k) = Ext(sections, k)
         /\ \A l \in Nat : Shape(sections, l) => Shape(Moved(n), l)
         /\ \A m \in Num : SameEntry(Moved(n), sections, m)
         /\ Entry(sections, n).type # "undefined" => Where(Moved(n), n) = 1
         /\ \A m \in Num : m # n => Moved(n)[1][m] = IF altered THEN sections[1][m] ELSE NoEntry
         /\ Entry(sections, n).type = "undefined" =>
              Moved(n)[1][n] = IF altered THEN sections[1][n] ELSE NoEntry
         /\ \A j \in DOMAIN Moved(n) : j # 1 => Older(Moved(n), j)
<1> DEFINE s == Incremental
           j == Where(s, n)
           e == s[j][n]
           d == [e EXCEPT !.obj = NULL, !.buf = 0]
           t == SetCell(s, 1, n, e)
           u == SetCell(t, j, n, d)
<1>1. /\ s \in Table /\ Bare(s) /\ Ext(s, k) = Ext(sections, k)
      /\ \A l \in Nat : Shape(sections, l) => Shape(s, l)
      /\ \A m \in Num : SameEntry(s, sections, m)
      /\ \A m \in Num : s[1][m] = IF altered THEN sections[1][m] ELSE NoEntry
      /\ \A i \in DOMAIN s : i # 1 => \E h \in DOMAIN sections :
           s[i] = sections[h] /\ (altered => h = i)
      /\ \A m \in Num : Entry(sections, m).type # "undefined" =>
           Where(s, m) = IF altered THEN Where(sections, m) ELSE Where(sections, m) + 1
  BY IncrementalIs
<1> HIDE DEF s
<1>2. /\ j \in DOMAIN s /\ e = Entry(s, n) /\ e \in Cell /\ 1 \in DOMAIN s
      /\ s[1][n].type # "undefined" => j = 1
      /\ e.type = "undefined" => j = 1
      /\ \A m \in Num : Where(s, m) \in DOMAIN s /\ Entry(s, m) = s[Where(s, m)][m]
      /\ Entry(sections, n) \in Cell
  BY <1>1, EntryIs, TableFinite
<1>3. CASE j = 1
  <2>1. Moved(n) = s
    BY <1>3 DEF Moved, s
  <2>2. \A i \in DOMAIN s : i # 1 => Older(s, i)
    <3> SUFFICES ASSUME NEW i \in DOMAIN s, i # 1 PROVE Older(s, i)
      OBVIOUS
    <3>1. PICK h \in DOMAIN sections : s[i] = sections[h] /\ (altered => h = i)
      BY <1>1
    <3> QED BY <3>1 DEF Older, Emptier
  <2> QED BY <1>1, <1>3, <2>1, <2>2
<1>4. CASE j # 1
  <2>1. e.type # "undefined" /\ s[1][n].type = "undefined" /\ s[1][n].obj = NULL
    BY <1>1, <1>2, <1>4 DEF Bare
  <2>2. /\ d \in Cell /\ d.obj = NULL /\ d.type = e.type /\ d.ofs = e.ofs /\ d.at = e.at /\ d.buf = 0
    BY <1>2 DEF Cell
  <2> HIDE DEF e, j, d
  <2>3. /\ t \in Table /\ DOMAIN t = DOMAIN s /\ t[1][n] = e
        /\ \A i \in DOMAIN s, m \in Num : i # 1 \/ m # n => t[i][m] = s[i][m]
    <3> DEFINE q == 1
    <3>1. q \in DOMAIN s /\ s \in Table /\ e \in Cell
      BY <1>1, <1>2
    <3> HIDE DEF q
    <3>2. /\ SetCell(s, q, n, e) \in Table /\ DOMAIN SetCell(s, q, n, e) = DOMAIN s
          /\ SetCell(s, q, n, e)[q][n] = e
          /\ \A i \in DOMAIN s, m \in Num :
               i # q \/ m # n => SetCell(s, q, n, e)[i][m] = s[i][m]
      BY <3>1, SetCellIs
    <3> QED BY <3>2 DEF q
  <2>4. /\ Bare(t) /\ Entry(t, n) = e /\ Where(t, n) = 1
        /\ \A m \in Num : m # n => Entry(t, m) = Entry(s, m) /\ Where(t, m) = Where(s, m)
    BY <1>1, <1>2, <2>1, FirstSet
  <2>5. t[j][n] = e
    BY <1>2, <1>4, <2>3 DEF e
  <2>6. Moved(n) = u
    <3>1. s \in [DOMAIN s -> [Num -> Cell]]
      BY <1>1, TableFinite
    <3>2. Moved(n) = [s EXCEPT ![1][n] = s[j][n], ![j][n].obj = NULL, ![j][n].buf = 0]
      BY <1>4 DEF Moved, s, j
    <3>3. [t EXCEPT ![j][n].obj = NULL, ![j][n].buf = 0] = [t EXCEPT ![j][n] = d]
      <4>1. t \in [DOMAIN s -> [Num -> Cell]]
        BY <2>3, TableFinite
      <4> HIDE DEF t
      <4> QED BY <1>2, <2>5, <4>1 DEF d
    <3>4. Moved(n) = [t EXCEPT ![j][n].obj = NULL, ![j][n].buf = 0]
      BY <3>2, Zenon DEF t, SetCell, e
    <3> QED BY <3>3, <3>4 DEF SetCell
  <2> HIDE DEF t
  <2>7. /\ u \in Table /\ DOMAIN u = DOMAIN s /\ u[j][n] = d
        /\ \A i \in DOMAIN s, m \in Num : i # j \/ m # n => u[i][m] = t[i][m]
    BY <1>2, <2>2, <2>3, SetCellIs
  <2>8. Ext(u, k) = Ext(sections, k)
    <3>1. \A o \in Obj : Ext(t, k)[o] = Ext(s, k)[o] + One(o, e.obj) - One(o, s[1][n].obj)
      BY <1>1, <1>2, ExtCell DEF t
    <3>2. \A o \in Obj : Ext(u, k)[o] = Ext(t, k)[o] + One(o, d.obj) - One(o, t[j][n].obj)
      BY <1>2, <2>2, <2>3, ExtCell
    <3>3. \A o \in Obj : One(o, NULL) = 0
      BY ObjFinite DEF One
    <3>4. Ext(u, k) \in [Obj -> Nat] /\ Ext(s, k) \in [Obj -> Nat]
      BY <1>1, <2>7, ExtIs
    <3>5. \A o \in Obj : Ext(u, k)[o] = Ext(s, k)[o]
      <4> TAKE o \in Obj
      <4>1. Ext(s, k)[o] \in Nat /\ One(o, e.obj) \in Nat
        BY <3>4 DEF One
      <4>2. Ext(t, k)[o] = Ext(s, k)[o] + One(o, e.obj)
        BY <2>1, <3>1, <3>3, <4>1
      <4>3. Ext(u, k)[o] = Ext(t, k)[o] - One(o, e.obj)
        BY <2>2, <2>5, <3>2, <3>3, <4>1, <4>2
      <4> QED BY <4>1, <4>2, <4>3
    <3> QED BY <1>1, <3>4, <3>5
  <2> HIDE DEF u
  <2>9. u[1][n] = e /\ 1 \in DOMAIN u
    BY <1>2, <1>4, <2>3, <2>7
  <2>10. ASSUME NEW i \in DOMAIN u, NEW m \in Num, i # 1
         PROVE  u[i][m] = s[i][m] \/ (i = j /\ m = n /\ u[i][m] = d /\ s[i][m] = e)
    BY <1>2, <2>3, <2>7, <2>10 DEF e
  <2>11. \A m \in Num : m # n => u[1][m] = s[1][m]
    BY <1>2, <2>3, <2>7
  <2>12. Where(u, n) = 1 /\ Entry(u, n) = e
    <3>1. Where(u, n) = 1
      BY <2>1, <2>7, <2>9, EntryIs
    <3> QED BY <2>9, <3>1 DEF Entry
  <2>13. ASSUME NEW m \in Num, m # n PROVE Entry(u, m) = Entry(s, m)
    <3>1. \A i \in DOMAIN s : u[i][m] = s[i][m]
      BY <2>7, <2>10, <2>11, <2>13
    <3>2. Where(u, m) = Where(s, m)
      BY <2>7, <3>1, WhereSame
    <3> QED BY <1>2, <3>1, <3>2 DEF Entry
  <2>14. Bare(u)
    <3>1. \A i \in DOMAIN u, m \in Num : i # 1 /\ u[i][m].type = "undefined" => u[i][m].obj = NULL
      BY <1>1, <2>2, <2>7, <2>10 DEF Bare
    <3>2. \A m \in Num : u[1][m].type = "undefined" => u[1][m].obj = NULL
      BY <1>1, <1>2, <2>1, <2>9, <2>11 DEF Bare
    <3> QED BY <3>1, <3>2 DEF Bare
  <2>15. ASSUME NEW l \in Nat, Shape(sections, l) PROVE Shape(u, l)
    <3>1. Shape(s, l)
      BY <1>1, <2>15
    <3>2. \A m \in Streams : m \in Num
      BY LayoutAssumption, ObjFinite DEF Streams, Num
    <3>3. \A m \in Streams : Entry(u, m).type # "undefined"
      BY <2>1, <2>12, <2>13, <3>1, <3>2 DEF Shape
    <3>4. /\ n > l => e.type = "undefined"
          /\ e.type = "o" => e.ofs \in Streams /\ Tells(e.ofs, n, e.at)
      BY <1>2, <3>1 DEF Shape, e
    <3>5. ASSUME NEW i \in DOMAIN u, NEW m \in Num
          PROVE  /\ m > l => u[i][m].type = "undefined"
                 /\ u[i][m].type = "o" =>
                      u[i][m].ofs \in Streams /\ Tells(u[i][m].ofs, m, u[i][m].at)
      <4>1. CASE u[i][m] = s[i][m]
        BY <2>7, <3>1, <4>1 DEF Shape
      <4>2. CASE m = n /\ u[i][m] \in {e, d}
        BY <2>2, <3>4, <4>2
      <4> QED BY <2>9, <2>10, <2>11, <4>1, <4>2
    <3> QED BY <3>3, <3>5 DEF Shape
  <2>16. \A m \in Num : SameEntry(u, sections, m)
    <3> TAKE m \in Num
    <3>1. Entry(u, m) = Entry(s, m)
      BY <1>2, <2>12, <2>13
    <3> QED BY <1>1, <3>1 DEF SameEntry
  <2>17. \A i \in DOMAIN u : i # 1 => Older(u, i)
    <3> SUFFICES ASSUME NEW i \in DOMAIN u, i # 1 PROVE Older(u, i)
      OBVIOUS
    <3>1. PICK h \in DOMAIN sections : s[i] = sections[h] /\ (altered => h = i)
      BY <1>1, <2>7
    <3>2. ASSUME NEW m \in Num
          PROVE  Emptier(u[i][m], sections[h][m])
      BY <2>10, <3>1 DEF d, Emptier
    <3> QED BY <3>1, <3>2 DEF Older
  <2>18. Entry(sections, n).type # "undefined"
    BY <1>1, <1>2, <2>1 DEF SameEntry
  <2> HIDE DEF u
  <2>19. \A m \in Num : m # n => u[1][m] = IF altered THEN sections[1][m] ELSE NoEntry
    BY <1>1, <2>11
  <2>20. u \in Table
    BY <2>7
  <2> QED BY <2>6, <2>8, <2>12, <2>14, <2>15, <2>16, <2>17, <2>18, <2>19, <2>20, Zenon
<1> QED BY <1>3, <1>4

-----------------------------------------------------------------------------
(* Loading, one object at a time                                           *)

Results == [s : Table, h : Heap, err : {"none", "later", "other"}]

Filled(s, n, o) == [s EXCEPT ![Where(s, n)][n].obj = o]
LEMMA FilledIs ==
  ASSUME NEW s \in Table, NEW n \in Num, NEW o \in Obj \cup {NULL}, NEW k \in Clients
  PROVE  /\ Filled(s, n, o) \in Table /\ DOMAIN Filled(s, n, o) = DOMAIN s
         /\ \A m \in Num : Where(Filled(s, n, o), m) = Where(s, m)
         /\ Entry(Filled(s, n, o), n) = [Entry(s, n) EXCEPT !.obj = o]
         /\ Filled(s, n, o)[Where(s, n)][n] = Entry(Filled(s, n, o), n)
         /\ \A m \in Num : m # n => Entry(Filled(s, n, o), m) = Entry(s, m)
         /\ \A i \in DOMAIN s, m \in Num :
              i # Where(s, n) \/ m # n => Filled(s, n, o)[i][m] = s[i][m]
         /\ Entry(s, n).obj = NULL /\ o \in Obj => Ext(Filled(s, n, o), k) = More(Ext(s, k), o)
<1> DEFINE t == Filled(s, n, o)
           j == Where(s, n)
           e == [s[j][n] EXCEPT !.obj = o]
<1>1. j \in DOMAIN s /\ Entry(s, n) = s[j][n] /\ s[j][n] \in Cell
  BY EntryIs
<1>2. e \in Cell /\ e.obj = o /\ e.type = s[j][n].type
  BY <1>1 DEF Cell
<1>3. t = SetCell(s, j, n, e)
  BY <1>1, TableFinite DEF SetCell, Filled
<1> HIDE DEF j, t, e
<1>4. /\ SetCell(s, j, n, e) \in Table /\ DOMAIN SetCell(s, j, n, e) = DOMAIN s
      /\ SetCell(s, j, n, e)[j][n] = e
      /\ \A i \in DOMAIN s, m \in Num :
           i # j \/ m # n => SetCell(s, j, n, e)[i][m] = s[i][m]
  BY <1>1, <1>2, SetCellIs
<1>5. /\ t \in Table /\ DOMAIN t = DOMAIN s /\ t[j][n] = e
      /\ \A i \in DOMAIN s, m \in Num : i # j \/ m # n => t[i][m] = s[i][m]
  BY <1>3, <1>4
<1>6. ASSUME NEW m \in Num PROVE Where(t, m) = Where(s, m)
  <2>1. \A i \in DOMAIN s : s[i][m].type = "undefined" <=> t[i][m].type = "undefined"
    BY <1>1, <1>2, <1>5
  <2> QED BY <1>5, <2>1, WhereSame
<1>7. Entry(t, n) = e /\ t[j][n] = Entry(t, n)
  BY <1>5, <1>6 DEF Entry, j
<1>8. \A m \in Num : m # n => Entry(t, m) = Entry(s, m)
  <2>1. \A m \in Num : Where(s, m) \in DOMAIN s
    BY EntryIs
  <2> QED BY <1>5, <1>6, <2>1 DEF Entry
<1>9. Entry(s, n).obj = NULL /\ o \in Obj => Ext(t, k) = More(Ext(s, k), o)
  <2>1. e.obj \in Obj /\ s[j][n].obj = NULL => Ext(SetCell(s, j, n, e), k) = More(Ext(s, k), e.obj)
    BY <1>1, <1>2, ExtCell
  <2> QED BY <1>1, <1>2, <1>3, <2>1
<1>10. e = [Entry(s, n) EXCEPT !.obj = o]
  BY <1>1 DEF e
<1> QED BY <1>5, <1>6, <1>7, <1>8, <1>9, <1>10 DEF j, t

\* What an entry has cached is as it is in the file.
Fills(g, e) == e.type = "f" \/ Fits(g, e.obj, e.at)
\* Something that nothing else refers to is cached.
Taken(h, g, x, e) ==
  /\ e.obj = NULL /\ e.type # "undefined" /\ x.obj \in Obj /\ x = [e EXCEPT !.obj = x.obj]
  /\ Fills(g, x)
  /\ h[x.obj].refs = 0 /\ g[x.obj].refs = 1
  /\ g[x.obj].kid # NULL => h[g[x.obj].kid].refs = 0 /\ g[g[x.obj].kid].refs = 1
Grown(s, h, c) ==
  /\ DOMAIN c.s = DOMAIN s
  /\ \A j \in DOMAIN s, n \in Num :
       c.s[j][n] = s[j][n] \/ (j = Where(s, n) /\ Taken(h, c.h, c.s[j][n], s[j][n]))
Lives(h, g) ==
  \A o \in Obj : h[o].refs # 0 =>
    g[o].refs = h[o].refs /\ g[o].val = h[o].val /\ g[o].kid = h[o].kid
Uncached(s) == {n \in Num : Entry(s, n).obj = NULL}
Roomy(c) == Cardinality(Free(c.h)) >= 2 * Cardinality(Uncached(c.s))

\* What an entry has cached is edited as what has its number, or as what has no
\* number if it came along with something else.
OwnCell(h, e, n) ==
  e.obj # NULL =>
    /\ h[e.obj].parent = n \/ (h[e.obj].parent = 0 /\ e.type = "o")
    /\ h[e.obj].kid # NULL => h[h[e.obj].kid].parent = h[e.obj].parent
Steady(s, h) ==
  \A m \in Streams :
    LET o == Entry(s, m).obj
    IN  o # NULL => h[o].parent = m /\ (h[o].kid # NULL => h[h[o].kid].parent = m)
\* Loading makes no difference to who owns what, but to number q.
Parented(s, h, c, q) ==
  Steady(s, h) =>
    /\ \A o \in Obj : h[o].refs # 0 => c.h[o].parent = h[o].parent
    /\ \A j \in DOMAIN s, n \in Num :
         c.s[j][n] # s[j][n] /\ n # q => OwnCell(c.h, c.s[j][n], n)

\* c is what a table s and objects h are when more has been loaded.
Stage(s, h, k, c) ==
  /\ c \in Results /\ Good(c.h, Ext(c.s, k))
  /\ Grown(s, h, c) /\ Lives(h, c.h) /\ Roomy(c)
Stages(s, h, k) == {c \in Results : Stage(s, h, k, c) /\ Parented(s, h, c, 0)}

\* What is cached already stays as it is when something new is built.
LEMMA CachedStage ==
  ASSUME NEW s \in Table, NEW h \in Heap, NEW k \in Clients,
         NEW c, Stage(s, h, k, c), Parented(s, h, c, 0), NEW n \in Num,
         Entry(c.s, n).obj = NULL, Entry(c.s, n).type # "undefined",
         NEW at \in Content, Entry(c.s, n).type = "f" \/ at = Entry(c.s, n).at, NEW p \in Nat
  PROVE  LET d == Cached(c.s, n, New(c.h, at, p))
         IN  /\ Stage(s, h, k, d) /\ Parented(s, h, d, n) /\ d.err = "none"
             /\ Entry(d.s, n).obj \in Obj
             /\ Entry(s, n).obj = NULL /\ Entry(s, n).type = Entry(c.s, n).type
             /\ Entry(c.s, n).type = "o" => Parented(s, h, d, 0)
             /\ \A m \in Num : m # n => Entry(d.s, m) = Entry(c.s, m)
<1> DEFINE r == New(c.h, at, p)
           o == r.obj
           g == r.h
           kid == g[o].kid
           j == Where(c.s, n)
           t == [c.s EXCEPT ![j][n].obj = o]
           d == Cached(c.s, n, r)
<1>1. c.s \in Table /\ c.h \in Heap /\ Good(c.h, Ext(c.s, k)) /\ Grown(s, h, c) /\ Lives(h, c.h) /\ Roomy(c)
  BY DEF Stage, Results
<1>2. Cardinality(Free(c.h)) >= 2 * Cardinality(Uncached(c.s))
      /\ IsFiniteSet(Uncached(c.s)) /\ Cardinality(Uncached(c.s)) \in Nat /\ n \in Uncached(c.s)
  BY <1>1, ObjFinite, FS_Subset, FS_CardinalityType DEF Roomy, Uncached
<1>3. Cardinality(Uncached(c.s) \ {n}) = Cardinality(Uncached(c.s)) - 1
      /\ Cardinality(Uncached(c.s) \ {n}) \in Nat
  BY <1>2, FS_RemoveElement, FS_CardinalityType
<1>4. Cardinality(Free(c.h)) \in Nat /\ Cardinality(Free(c.h)) >= 2
  BY <1>2, <1>3, FreeIs
<1>5. /\ o \in Obj /\ c.h[o].refs = 0 /\ Good(g, More(Ext(c.s, k), o))
      /\ Fits(g, o, at) /\ g[o].parent = 0 /\ g[o].refs = 1
      /\ kid # NULL => /\ kid \in Obj /\ kid # o /\ c.h[kid].refs = 0
                       /\ g[kid].parent = 0 /\ g[kid].kid = NULL
      /\ \A q \in Obj : q # o /\ q # kid => g[q] = c.h[q]
      /\ Cardinality(Free(g)) >= Cardinality(Free(c.h)) - 2
  <2>1. Cardinality(Free(c.h)) >= IF at.kid = 0 THEN 1 ELSE 2
    BY <1>4
  <2> DEFINE hh == c.h
             e == Ext(c.s, k)
             w == New(hh, at, p)
  <2>2. Good(hh, e) /\ Cardinality(Free(hh)) >= IF at.kid = 0 THEN 1 ELSE 2
    BY <1>1, <2>1
  <2> HIDE DEF hh, e
  <2>3. /\ w.obj \in Obj /\ hh[w.obj].refs = 0 /\ Good(w.h, More(e, w.obj))
        /\ Fits(w.h, w.obj, at) /\ w.h[w.obj].parent = 0 /\ w.h[w.obj].refs = 1
        /\ w.h[w.obj].kid # NULL =>
             /\ w.h[w.obj].kid \in Obj /\ w.h[w.obj].kid # w.obj /\ hh[w.h[w.obj].kid].refs = 0
             /\ w.h[w.h[w.obj].kid].parent = 0 /\ w.h[w.h[w.obj].kid].kid = NULL
        /\ \A q \in Obj : q # w.obj /\ q # w.h[w.obj].kid => w.h[q] = hh[q]
        /\ Cardinality(Free(w.h)) >= Cardinality(Free(hh)) - 2
    BY <2>2, NewGood
  <2> QED BY <2>3 DEF hh, e
<1> HIDE DEF r
<1>6. d = [s |-> t, h |-> g, err |-> "none"]
  BY DEF Cached, Loaded
<1> DEFINE cs == c.s
<1>7. /\ t \in Table /\ DOMAIN t = DOMAIN c.s
      /\ Entry(t, n) = [Entry(c.s, n) EXCEPT !.obj = o]
      /\ t[j][n] = Entry(t, n)
      /\ \A m \in Num : m # n => Entry(t, m) = Entry(c.s, m)
      /\ \A i \in DOMAIN c.s, m \in Num : i # j \/ m # n => t[i][m] = c.s[i][m]
      /\ Ext(t, k) = More(Ext(c.s, k), o)
  <2> DEFINE x == c.s
             oo == o
             u == Filled(x, n, oo)
  <2>1. x \in Table /\ oo \in Obj /\ oo \in Obj \cup {NULL} /\ Entry(x, n).obj = NULL
    BY <1>1, <1>5
  <2> HIDE DEF x, oo
  <2>2. /\ u \in Table /\ DOMAIN u = DOMAIN x
        /\ Entry(u, n) = [Entry(x, n) EXCEPT !.obj = oo]
        /\ u[Where(x, n)][n] = Entry(u, n)
        /\ \A m \in Num : m # n => Entry(u, m) = Entry(x, m)
        /\ \A i \in DOMAIN x, m \in Num : i # Where(x, n) \/ m # n => u[i][m] = x[i][m]
        /\ Ext(u, k) = More(Ext(x, k), oo)
    BY <2>1, FilledIs
  <2>3. u = t
    BY Zenon DEF x, oo, Filled
  <2> HIDE DEF u
  <2> QED BY <2>2, <2>3 DEF x, oo
<1>8. /\ j \in DOMAIN c.s /\ Entry(c.s, n) = c.s[j][n] /\ Entry(c.s, n) \in Cell
      /\ DOMAIN c.s = DOMAIN s
  BY <1>1, EntryIs DEF Grown
<1> HIDE DEF t, g, o, kid
<1>9. g \in Heap
  BY <1>5 DEF Good
<1>10. ASSUME NEW q \in Obj, c.h[q].refs # 0 PROVE q # o /\ q # kid /\ g[q] = c.h[q]
  BY <1>5, <1>10, ObjFinite
<1>11. ASSUME kid # NULL PROVE g[kid].refs = 1
  <2> DEFINE e == More(Ext(c.s, k), o)
  <2>1. /\ g[kid].refs = e[kid] + Count(KidOf(g), kid) /\ kid \in Obj
        /\ c.h[kid].refs = Ext(c.s, k)[kid] + Count(KidOf(c.h), kid)
        /\ Ext(c.s, k)[kid] \in Nat /\ Count(KidOf(c.h), kid) \in Nat /\ Count(KidOf(g), kid) \in Nat
    <3>1. kid \in Obj
      BY <1>5, <1>11
    <3>2. g[kid].refs = e[kid] + Count(KidOf(g), kid) /\ Count(KidOf(g), kid) \in Nat
      BY <1>5, <3>1, GoodIs
    <3>3. /\ c.h[kid].refs = Ext(c.s, k)[kid] + Count(KidOf(c.h), kid)
          /\ Ext(c.s, k)[kid] \in Nat /\ Count(KidOf(c.h), kid) \in Nat
      BY <1>1, <3>1, GoodIs
    <3> QED BY <3>1, <3>2, <3>3
  <2>2. e[kid] = 0
    <3>1. Ext(c.s, k) \in [Obj -> Nat] /\ kid # o /\ Ext(c.s, k)[kid] = 0
      BY <1>1, <1>5, <1>11, <2>1, ExtIs
    <3> QED BY <2>1, <3>1 DEF More
  <2>3. Count(KidOf(g), kid) = 1
    <3>1. \A q \in Obj : q # o => g[q].kid # kid
      <4> SUFFICES ASSUME NEW q \in Obj, q # o, g[q].kid = kid PROVE FALSE
        OBVIOUS
      <4>1. q # kid
        BY <1>5, <1>11, ObjFinite
      <4>2. c.h[q].kid = kid
        BY <1>5, <4>1
      <4>3. c.h[kid].refs > 0
        BY <1>1, <1>11, <4>2, GoodIs
      <4> QED BY <1>5, <1>11, <4>3
    <3>2. {q \in DOMAIN KidOf(g) : KidOf(g)[q] = kid} = {o}
      BY <1>5, <3>1 DEF KidOf, kid
    <3> QED BY <3>2, FS_Singleton DEF Count
  <2> HIDE DEF e
  <2> QED BY <2>1, <2>2, <2>3
<1> DEFINE e == Entry(c.s, n)
           x == Entry(t, n)
<1>12. e \in Cell /\ x = [e EXCEPT !.obj = o] /\ e.obj = NULL /\ e.type # "undefined"
       /\ (e.type = "f" \/ at = e.at)
  BY <1>7, <1>8
<1>13. s[j][n] = e
  <2>1. ~ Taken(h, c.h, c.s[j][n], s[j][n])
    BY <1>8, ObjFinite DEF Taken
  <2> QED BY <1>1, <1>8, <2>1 DEF Grown
<1> HIDE DEF e, x
<1>14. x.obj = o /\ x.type = e.type /\ x.at = e.at /\ x.ofs = e.ofs /\ x.buf = e.buf
  BY <1>12 DEF Cell
<1>15. Taken(h, g, x, e)
  <2>0. h[o].refs = 0 /\ (kid # NULL => h[kid].refs = 0)
    BY <1>1, <1>5 DEF Lives
  <2>1. Fills(g, x)
    BY <1>5, <1>12, <1>14 DEF Fills
  <2>2. x = [e EXCEPT !.obj = x.obj]
    BY <1>12, <1>14
  <2> QED BY <1>5, <1>11, <1>12, <1>14, <2>0, <2>1, <2>2 DEF Taken, kid
<1>16. ASSUME NEW i \in DOMAIN s, NEW m \in Num, i # j \/ m # n, Taken(h, c.h, c.s[i][m], s[i][m])
       PROVE  Taken(h, g, t[i][m], s[i][m])
  <2> DEFINE y == c.s[i][m]
  <2>0. y.obj \in Obj /\ c.h[y.obj].refs = 1
    BY <1>16 DEF Taken
  <2>1. t[i][m] = y /\ y.obj \in Obj /\ c.h[y.obj].refs = 1
    BY <1>7, <1>8, <1>16, <2>0
  <2>2. g[y.obj] = c.h[y.obj]
    BY <1>10, <2>1
  <2>3. c.h[y.obj].kid # NULL => c.h[y.obj].kid \in Obj /\ c.h[c.h[y.obj].kid].refs > 0
    BY <1>1, <2>1, GoodIs
  <2>4. c.h[y.obj].kid # NULL => g[c.h[y.obj].kid] = c.h[c.h[y.obj].kid]
    BY <1>10, <2>3
  <2>5. Fills(c.h, y) => Fills(g, y)
    BY <2>2, <2>4 DEF Fills, Fits
  <2> HIDE DEF y
  <2>6. Taken(h, c.h, y, s[i][m])
    BY <1>16 DEF y
  <2>7. Taken(h, g, y, s[i][m])
    BY <2>1, <2>2, <2>3, <2>4, <2>5, <2>6 DEF Taken
  <2> QED BY <2>1, <2>7
<1>27. Where(s, n) = j
  <2>1. \A i \in DOMAIN s : s[i][n].type = "undefined" <=> c.s[i][n].type = "undefined"
    <3> TAKE i \in DOMAIN s
    <3>1. CASE c.s[i][n] = s[i][n]
      BY <3>1
    <3>2. CASE Taken(h, c.h, c.s[i][n], s[i][n])
      <4>1. s[i][n] \in Cell
        BY TableFinite
      <4>2. c.s[i][n].type = s[i][n].type
        BY <3>2, <4>1 DEF Taken, Cell
      <4> QED BY <4>2
    <3> QED BY <1>1, <3>1, <3>2 DEF Grown
  <2> QED BY <1>8, <2>1, WhereSame
<1>17. Grown(s, h, d)
  <2>1. ASSUME NEW i \in DOMAIN s, NEW m \in Num
        PROVE  t[i][m] = s[i][m] \/ (i = Where(s, m) /\ Taken(h, g, t[i][m], s[i][m]))
    <3>1. CASE i = j /\ m = n
      BY <1>7, <1>13, <1>15, <1>27, <3>1 DEF x
    <3>2. CASE i # j \/ m # n
      BY <1>1, <1>7, <1>8, <1>16, <3>2 DEF Grown
    <3> QED BY <3>1, <3>2
  <2> QED BY <1>6, <1>7, <1>8, <2>1 DEF Grown
<1>18. Lives(h, g)
  BY <1>1, <1>10 DEF Lives
<1>19. Cardinality(Free(g)) >= 2 * Cardinality(Uncached(t))
  <2>1. Uncached(t) = Uncached(c.s) \ {n}
    BY <1>5, <1>7, <1>14, ObjFinite DEF Uncached, x
  <2>2. Cardinality(Free(g)) \in Nat
    BY FreeIs
  <2> QED BY <1>2, <1>3, <1>4, <1>5, <2>1, <2>2
<1>20. Good(g, Ext(t, k))
  BY <1>5, <1>7
<1>21. Stage(s, h, k, d)
  <2>1. Roomy(d)
    BY <1>6, <1>19 DEF Roomy
  <2>2. d \in Results
    BY <1>6, <1>7, <1>9 DEF Results
  <2> QED BY <1>6, <1>17, <1>18, <1>20, <2>1, <2>2 DEF Stage
<1>22. ASSUME Steady(s, h), NEW q \in Obj, h[q].refs # 0 PROVE g[q].parent = h[q].parent
  <2>1. c.h[q].refs # 0 /\ c.h[q].parent = h[q].parent
    BY <1>1, <1>22 DEF Lives, Parented
  <2> QED BY <1>10, <2>1
<1>23. ASSUME Steady(s, h), NEW i \in DOMAIN s, NEW m \in Num, i # j \/ m # n, t[i][m] # s[i][m]
       PROVE  OwnCell(g, t[i][m], m)
  <2> DEFINE y == c.s[i][m]
  <2>1. t[i][m] = y /\ y # s[i][m] /\ m # 0
    BY <1>7, <1>8, <1>23 DEF Num
  <2>2. OwnCell(c.h, y, m)
    BY <1>23, <2>1 DEF Parented
  <2>3. y.obj \in Obj /\ c.h[y.obj].refs = 1
    BY <1>1, <1>23, <2>1 DEF Grown, Taken
  <2>4. c.h[y.obj].kid # NULL => c.h[y.obj].kid \in Obj /\ c.h[c.h[y.obj].kid].refs > 0
    BY <1>1, <2>3, GoodIs
  <2>5. g[y.obj] = c.h[y.obj] /\ (c.h[y.obj].kid # NULL => g[c.h[y.obj].kid] = c.h[c.h[y.obj].kid])
    BY <1>10, <2>3, <2>4
  <2> QED BY <2>1, <2>2, <2>5 DEF OwnCell
<1>24. \A i \in DOMAIN s, m \in Num : m # n => i # j \/ m # n
  OBVIOUS
<1>25. Parented(s, h, d, n)
  BY <1>6, <1>22, <1>23, <1>24 DEF Parented
<1>26. ASSUME e.type = "o" PROVE Parented(s, h, d, 0)
  <2>1. OwnCell(g, x, n)
    BY <1>5, <1>14, <1>26 DEF OwnCell, kid
  <2>2. ASSUME Steady(s, h), NEW i \in DOMAIN s, NEW m \in Num, t[i][m] # s[i][m]
        PROVE  OwnCell(g, t[i][m], m)
    <3>1. CASE i = j /\ m = n
      BY <1>7, <2>1, <3>1 DEF x
    <3>2. CASE i # j \/ m # n
      BY <1>23, <2>2, <3>2
    <3> QED BY <3>1, <3>2
  <2> QED BY <1>6, <1>22, <2>2 DEF Parented
<1>28. Entry(s, n) = e
  BY <1>13, <1>27 DEF Entry
<1>29. d.err = "none" /\ d.s = t /\ Entry(d.s, n).obj \in Obj
  BY <1>5, <1>6, <1>14 DEF x
<1>30. /\ Entry(s, n).obj = NULL /\ Entry(s, n).type = Entry(c.s, n).type
       /\ Entry(c.s, n).type = "o" => Parented(s, h, d, 0)
  BY <1>12, <1>26, <1>28 DEF e
<1>31. \A m \in Num : m # n => Entry(d.s, m) = Entry(c.s, m)
  BY <1>7, <1>29
<1> HIDE DEF d
<1> QED BY <1>21, <1>25, <1>29, <1>30, <1>31, Zenon DEF d, r

\* What has just been cached under a number, or was there and has it, is given it.
Numbered(c, n) == [s |-> c.s, h |-> SetParent(c.h, Entry(c.s, n).obj, n), err |-> c.err]
LEMMA NumberedStage ==
  ASSUME NEW s \in Table, NEW h \in Heap, NEW k \in Clients,
         NEW c, Stage(s, h, k, c), NEW n \in Num, Entry(c.s, n).obj \in Obj,
         \/ Entry(s, n).obj = NULL /\ Parented(s, h, c, n)
         \/ Entry(c.s, n) = Entry(s, n) /\ n \in Streams /\ Parented(s, h, c, 0)
            /\ h[Entry(s, n).obj].refs # 0
            /\ (h[Entry(s, n).obj].kid # NULL => h[h[Entry(s, n).obj].kid].refs # 0)
  PROVE  Stage(s, h, k, Numbered(c, n)) /\ Parented(s, h, Numbered(c, n), 0)
<1> DEFINE o == Entry(c.s, n).obj
           g == SetParent(c.h, o, n)
           d == Numbered(c, n)
           kid == c.h[o].kid
           j == Where(c.s, n)
<1>1. c \in Results /\ c.s \in Table /\ c.h \in Heap /\ Good(c.h, Ext(c.s, k)) /\ Grown(s, h, c)
      /\ Lives(h, c.h) /\ Roomy(c)
  BY DEF Stage, Results
<1>2. d = [s |-> c.s, h |-> g, err |-> c.err] /\ o \in Obj /\ o \in Obj \cup {NULL} /\ n \in Num \cup {0}
  BY DEF Numbered
<1> HIDE DEF o, d
<1>3. /\ Good(g, Ext(c.s, k))
      /\ \A p \in Obj : /\ g[p].refs = c.h[p].refs /\ g[p].kid = c.h[p].kid /\ g[p].val = c.h[p].val
                        /\ g[p].parent = IF o # NULL /\ (p = o \/ p = c.h[o].kid)
                                         THEN n ELSE c.h[p].parent
  BY <1>1, <1>2, SetParentGood
<1> HIDE DEF g
<1>4. g \in Heap /\ NULL \notin Obj /\ DOMAIN c.s = DOMAIN s
  BY <1>1, <1>3, ObjFinite DEF Good, Grown
<1>5. \A p \in Obj : c.h[p].kid \in Obj \cup {NULL}
  BY <1>1 DEF Heap, ObjType
<1>6. ASSUME NEW x, NEW e, Taken(h, c.h, x, e) PROVE Taken(h, g, x, e)
  <2> DEFINE q == x.obj
             v == c.h[q].kid
  <2>1. q \in Obj /\ v \in Obj \cup {NULL}
    BY <1>5, <1>6 DEF Taken
  <2>2. /\ g[q].kid = v /\ g[q].refs = c.h[q].refs /\ g[q].val = c.h[q].val
        /\ v # NULL => g[v].val = c.h[v].val /\ g[v].refs = c.h[v].refs
    BY <1>3, <2>1
  <2>3. Fills(c.h, x) => Fills(g, x)
    BY <2>2 DEF Fills, Fits
  <2>4. Fills(c.h, x)
    BY <1>6 DEF Taken
  <2> QED BY <1>6, <2>2, <2>3, <2>4 DEF Taken
<1>7. Grown(s, h, d)
  BY <1>1, <1>2, <1>6 DEF Grown
<1>8. Lives(h, g)
  BY <1>1, <1>3 DEF Lives
<1>9. Roomy(d)
  <2>1. Free(g) = Free(c.h)
    BY <1>3 DEF Free
  <2> QED BY <1>1, <1>2, <2>1 DEF Roomy
<1>10. Stage(s, h, k, d)
  BY <1>1, <1>2, <1>3, <1>4, <1>7, <1>8, <1>9 DEF Stage, Results
<1>11. o # NULL /\ g[o].parent = n /\ g[o].kid = kid /\ (kid # NULL => g[kid].parent = n /\ kid \in Obj)
       /\ \A p \in Obj : p # o /\ p # kid => g[p] = c.h[p] \/ g[p].parent = c.h[p].parent
  BY <1>2, <1>3, <1>4, <1>5
<1>12. /\ j \in DOMAIN c.s /\ Entry(c.s, n) = c.s[j][n] /\ c.s[j][n].obj = o
  BY <1>1, EntryIs DEF o
<1>13. CASE Entry(s, n).obj = NULL /\ Parented(s, h, c, n)
  <2>1. Where(s, n) = j
    <3>1. \A i \in DOMAIN s : s[i][n].type = "undefined" <=> c.s[i][n].type = "undefined"
      <4> TAKE i \in DOMAIN s
      <4>1. CASE c.s[i][n] = s[i][n]
        BY <4>1
      <4>2. CASE Taken(h, c.h, c.s[i][n], s[i][n])
        <5>1. s[i][n] \in Cell
          BY TableFinite
        <5>2. c.s[i][n].type = s[i][n].type
          BY <4>2, <5>1 DEF Taken, Cell
        <5> QED BY <5>2
      <4> QED BY <1>1, <4>1, <4>2 DEF Grown
    <3> QED BY <1>4, <3>1, WhereSame
  <2>2. s[j][n].obj = NULL
    BY <1>13, <2>1 DEF Entry
  <2>3. Taken(h, c.h, c.s[j][n], s[j][n])
    BY <1>1, <1>2, <1>4, <1>12, <2>2 DEF Grown
  <2>4. h[o].refs = 0 /\ c.h[o].refs = 1 /\ (kid # NULL => h[kid].refs = 0 /\ c.h[kid].refs = 1)
    BY <1>12, <2>3 DEF Taken
  <2>5. ASSUME Steady(s, h), NEW p \in Obj, h[p].refs # 0 PROVE g[p].parent = h[p].parent
    <3>1. p # o /\ p # kid
      BY <1>4, <2>4, <2>5
    <3>2. c.h[p].parent = h[p].parent
      BY <1>13, <2>5 DEF Parented
    <3> QED BY <1>3, <3>1, <3>2
  <2>6. ASSUME Steady(s, h), NEW i \in DOMAIN s, NEW m \in Num, c.s[i][m] # s[i][m]
        PROVE  OwnCell(g, c.s[i][m], m)
    <3>1. CASE i = j /\ m = n
      BY <1>11, <1>12, <3>1 DEF OwnCell
    <3>2. CASE i # j \/ m # n
      <4> DEFINE q == c.s[i][m].obj
      <4>1. Taken(h, c.h, c.s[i][m], s[i][m])
        BY <1>1, <2>6 DEF Grown
      <4>2. q \in Obj /\ c.h[q].refs = 1
        BY <4>1 DEF Taken
      <4>3. c.h[q].kid # NULL => c.h[q].kid \in Obj /\ c.h[c.h[q].kid].refs = 1
        BY <1>5, <4>1, <4>2 DEF Taken
      <4>4. q # o /\ q # kid
        BY <1>1, <1>2, <1>4, <1>12, <2>4, <3>2, <4>2, Sole
      <4>5. c.h[q].kid # NULL => c.h[q].kid # o /\ c.h[q].kid # kid
        <5> SUFFICES ASSUME c.h[q].kid # NULL PROVE c.h[q].kid # o /\ c.h[q].kid # kid
          OBVIOUS
        <5> DEFINE v == c.h[q].kid
        <5>1. v \in Obj /\ c.h[v].refs = 1
          BY <4>3
        <5>2. v # o
          <6> HIDE DEF q, kid, j
          <6>1. \A i1 \in DOMAIN c.s, m1 \in Num, p1 \in Obj : ~ (c.s[i1][m1].obj = o /\ c.h[p1].kid = o)
            BY <1>1, <1>2, <2>4, Sole
          <6> QED BY <1>12, <4>2, <6>1
        <5>3. ASSUME v = kid PROVE FALSE
          <6> HIDE DEF q, kid, j
          <6>1. \A p1, p2 \in Obj : c.h[p1].kid = v /\ c.h[p2].kid = v => p1 = p2
            <7> HIDE DEF v
            <7> QED BY <1>1, <5>1, Sole
          <6>2. c.h[o].kid = v
            BY <5>3 DEF kid
          <6> QED BY <1>2, <4>2, <4>4, <6>1, <6>2
        <5> QED BY <5>2, <5>3
      <4>6. OwnCell(c.h, c.s[i][m], m)
        <5>1. m # n
          <6> SUFFICES ASSUME m = n, i # j PROVE FALSE
            BY <3>2
          <6>1. i = Where(s, m)
            BY <1>1, <2>6 DEF Grown
          <6> QED BY <2>1, <6>1
        <5> QED BY <1>13, <2>6, <5>1 DEF Parented
      <4>7. g[q].parent = c.h[q].parent /\ g[q].kid = c.h[q].kid
            /\ (c.h[q].kid # NULL => g[c.h[q].kid].parent = c.h[c.h[q].kid].parent)
        BY <1>3, <4>2, <4>3, <4>4, <4>5
      <4> QED BY <4>6, <4>7 DEF OwnCell
    <3> QED BY <3>1, <3>2
  <2>7. Parented(s, h, d, 0)
    BY <1>2, <2>5, <2>6 DEF Parented
  <2> QED BY <1>10, <2>7 DEF d
<1>14. CASE /\ Entry(c.s, n) = Entry(s, n) /\ n \in Streams /\ Parented(s, h, c, 0)
            /\ h[Entry(s, n).obj].refs # 0
            /\ (h[Entry(s, n).obj].kid # NULL => h[h[Entry(s, n).obj].kid].refs # 0)
  <2>1. ASSUME Steady(s, h), NEW p \in Obj PROVE g[p].parent = c.h[p].parent
    <3>1. /\ Entry(s, n).obj = o /\ h[o].refs # 0 /\ h[o].parent = n /\ h[o].kid = kid
          /\ kid # NULL => kid \in Obj /\ h[kid].refs # 0 /\ h[kid].parent = n
      BY <1>1, <1>2, <1>4, <1>5, <1>14, <2>1 DEF Steady, Lives, o
    <3>2. c.h[o].parent = n /\ (kid # NULL => c.h[kid].parent = n)
      BY <1>2, <1>14, <2>1, <3>1 DEF Parented
    <3>3. g[o].parent = n /\ (kid # NULL => g[kid].parent = n)
      BY <1>11
    <3>4. CASE p = o
      BY <3>2, <3>3, <3>4
    <3>5. CASE p = kid /\ kid # NULL
      BY <3>2, <3>3, <3>5
    <3>6. CASE p # o /\ p # kid
      BY <1>11, <3>6
    <3> QED BY <1>4, <3>4, <3>5, <3>6
  <2>2. ASSUME Steady(s, h) PROVE \A i \in DOMAIN s, m \in Num :
          c.s[i][m] # s[i][m] => OwnCell(g, c.s[i][m], m)
    <3> TAKE i \in DOMAIN s, m \in Num
    <3> HAVE c.s[i][m] # s[i][m]
    <3>1. OwnCell(c.h, c.s[i][m], m) /\ m # 0
      BY <1>14, <2>2 DEF Parented, Num
    <3> DEFINE q == c.s[i][m].obj
    <3>2. q \in Obj
      BY <1>1 DEF Grown, Taken
    <3>3. c.h[q].kid \in Obj \cup {NULL} /\ g[q].kid = c.h[q].kid
      BY <1>3, <1>5, <3>2
    <3>4. g[q].parent = c.h[q].parent
      BY <2>1, <2>2, <3>2
    <3>5. c.h[q].kid # NULL => g[c.h[q].kid].parent = c.h[c.h[q].kid].parent
      BY <2>1, <2>2, <3>3
    <3> QED BY <3>1, <3>3, <3>4, <3>5 DEF OwnCell
  <2>3. Parented(s, h, d, 0)
    BY <1>2, <1>14, <2>1, <2>2 DEF Parented
  <2> QED BY <1>10, <2>3 DEF d
<1> QED BY <1>13, <1>14

\* What loading does to an entry.
LEMMA GrownEntry ==
  ASSUME NEW s \in Table, NEW h \in Heap, NEW k \in Clients, NEW c, Stage(s, h, k, c), NEW n \in Num
  PROVE  /\ Where(c.s, n) = Where(s, n)
         /\ Entry(c.s, n) \in Cell /\ Entry(s, n) \in Cell
         /\ Entry(c.s, n).type = Entry(s, n).type /\ Entry(c.s, n).ofs = Entry(s, n).ofs
         /\ Entry(c.s, n).at = Entry(s, n).at /\ Entry(c.s, n).buf = Entry(s, n).buf
         /\ \/ Entry(c.s, n) = Entry(s, n)
            \/ Taken(h, c.h, Entry(c.s, n), Entry(s, n))
<1>1. c.s \in Table /\ DOMAIN c.s = DOMAIN s /\ \A j \in DOMAIN s :
        c.s[j][n] = s[j][n] \/ (j = Where(s, n) /\ Taken(h, c.h, c.s[j][n], s[j][n]))
  BY DEF Stage, Results, Grown
<1>2. ASSUME NEW j \in DOMAIN s
      PROVE  /\ s[j][n] \in Cell /\ c.s[j][n].type = s[j][n].type /\ c.s[j][n].ofs = s[j][n].ofs
             /\ c.s[j][n].at = s[j][n].at /\ c.s[j][n].buf = s[j][n].buf
  <2>1. s[j][n] \in Cell
    BY TableFinite
  <2>2. CASE c.s[j][n] = s[j][n]
    BY <2>1, <2>2
  <2>3. CASE Taken(h, c.h, c.s[j][n], s[j][n])
    BY <2>1, <2>3 DEF Taken, Cell
  <2> QED BY <1>1, <2>1, <2>2, <2>3
<1>3. Where(c.s, n) = Where(s, n)
  <2>1. \A i \in DOMAIN s : s[i][n].type = "undefined" <=> c.s[i][n].type = "undefined"
    BY <1>2
  <2> QED BY <1>1, <2>1, WhereSame
<1>4. Where(s, n) \in DOMAIN s /\ Entry(c.s, n) \in Cell
  BY <1>1, EntryIs
<1> QED BY <1>1, <1>2, <1>3, <1>4 DEF Entry

\* One turn of pdf_load_obj_stm.
LEMMA UnpackingStage ==
  ASSUME NEW s \in Table, NEW h \in Heap, NEW k \in Clients, len \in Nat, Shape(s, len),
         NEW c \in Stages(s, h, k), NEW m \in Streams, NEW i \in DOMAIN Inside[m]
  PROVE  /\ Unpacking(c, Inside[m][i], m) \in Stages(s, h, k)
         /\ \A n \in Num : Entry(c.s, n).obj # NULL =>
              Entry(Unpacking(c, Inside[m][i], m).s, n) = Entry(c.s, n)
<1> DEFINE x == Inside[m][i]
           n == x.num
           e == Entry(c.s, n)
<1>1. Stage(s, h, k, c) /\ Parented(s, h, c, 0) /\ c.s \in Table /\ c.h \in Heap /\ c \in Results
  BY DEF Stages, Results
<1>2. m \in Num /\ x \in [num : Num, at : Content]
  <2>1. m \in Num
    BY LayoutAssumption, ObjFinite DEF Streams, Num
  <2>2. Inside[m] \in Seq([num : Num, at : Content])
    BY <2>1, LayoutAssumption
  <2> DEFINE q == Inside[m]
             T == [num : Num, at : Content]
  <2>3. q \in Seq(T) /\ i \in DOMAIN q
    BY <2>2
  <2> HIDE DEF q, T
  <2>4. q[i] \in T
    BY <2>3
  <2> QED BY <2>1, <2>4 DEF q, T
<1>3. n \in Num /\ x.at \in Content /\ n \in Nat
  BY <1>2, ObjFinite DEF Num
<1>4. CASE c.err = "none" /\ n <= len /\ e.type = "o" /\ e.ofs = m /\ e.obj = NULL
  <2>1. Unpacking(c, x, m) = Cached(c.s, n, New(c.h, x.at, n))
    BY <1>4 DEF Unpacking
  <2>2. x.at = e.at
    <3>1. e = Entry(s, n)
      BY <1>1, <1>3, <1>4, GrownEntry, ObjFinite DEF Taken
    <3>2. Where(s, n) \in DOMAIN s /\ Entry(s, n) = s[Where(s, n)][n]
      BY <1>3, EntryIs
    <3>3. Tells(m, n, e.at)
      BY <1>3, <1>4, <3>1, <3>2 DEF Shape
    <3> QED BY <3>3 DEF Tells
  <2> DEFINE d == Cached(c.s, n, New(c.h, x.at, n))
  <2>3. e.type # "undefined"
    BY <1>4
  <2>4. /\ Stage(s, h, k, d) /\ (e.type = "o" => Parented(s, h, d, 0))
        /\ \A q \in Num : q # n => Entry(d.s, q) = Entry(c.s, q)
    <3> DEFINE nn == n
               at == x.at
    <3>1. nn \in Num /\ nn \in Nat /\ at \in Content /\ Entry(c.s, nn).obj = NULL
          /\ Entry(c.s, nn).type # "undefined" /\ at = Entry(c.s, nn).at
      BY <1>3, <1>4, <2>2
    <3> HIDE DEF nn, at
    <3>2. /\ Stage(s, h, k, Cached(c.s, nn, New(c.h, at, nn)))
          /\ Entry(c.s, nn).type = "o" => Parented(s, h, Cached(c.s, nn, New(c.h, at, nn)), 0)
          /\ \A q \in Num : q # nn => Entry(Cached(c.s, nn, New(c.h, at, nn)).s, q) = Entry(c.s, q)
      BY <1>1, <3>1, CachedStage
    <3> QED BY <3>2 DEF nn, at
  <2> HIDE DEF d
  <2>5. d \in Stages(s, h, k)
    BY <1>4, <2>4 DEF Stages, Stage
  <2>6. \A q \in Num : Entry(c.s, q).obj # NULL => q # n
    BY <1>4
  <2> QED BY <2>1, <2>4, <2>5, <2>6 DEF d
<1>5. CASE c.err = "none" /\ n > len
  <2> DEFINE d == Fails(c.s, c.h, "other")
  <2>1. Unpacking(c, x, m) = d
    BY <1>3, <1>5 DEF Unpacking
  <2>2. d.s = c.s /\ d.h = c.h /\ d \in Results
    BY <1>1 DEF Fails, Results
  <2>3. Stage(s, h, k, d) /\ Parented(s, h, d, 0)
    BY <1>1, <2>2 DEF Stage, Grown, Roomy, Parented
  <2> QED BY <2>1, <2>2, <2>3 DEF Stages
<1>6. CASE /\ ~ (c.err = "none" /\ n > len)
           /\ ~ (c.err = "none" /\ n <= len /\ e.type = "o" /\ e.ofs = m /\ e.obj = NULL)
  <2>1. Unpacking(c, x, m) = c
    BY <1>6 DEF Unpacking
  <2> QED BY <2>1
<1> QED BY <1>4, <1>5, <1>6

\* The turns of pdf_load_obj_stm, one after the other.
Turns(g, s, h, m) ==
  \A i \in 0..1 + Len(Inside[m]) :
    g[i] = IF i <= 1 THEN Loaded(s, h) ELSE Unpacking(g[i - 1], Inside[m][i - 1], m)
LEMMA UnpackStage ==
  ASSUME NEW s \in Table, NEW h \in Heap, NEW k \in Clients, len \in Nat, Shape(s, len),
         NEW s1, NEW h1, Loaded(s1, h1) \in Stages(s, h, k), NEW m \in Streams,
         arrived[m] \in 0..1 + Len(Inside[m])
  PROVE  /\ Unpack(s1, h1, m) \in Stages(s, h, k)
         /\ \E g : /\ Unpack(s1, h1, m) = g[arrived[m]] /\ Turns(g, s1, h1, m)
                   /\ \A i \in 0..1 + Len(Inside[m]) : g[i] \in Stages(s, h, k)
<1> DEFINE S == Stages(s, h, k)
           N == 1 + Len(Inside[m])
           base == Loaded(s1, h1)
           step == [y \in S \X (1..N) |->
                      IF y[2] <= 1 THEN y[1] ELSE Unpacking(y[1], Inside[m][y[2] - 1], m)]
           Body(f) == [i \in 0..N |-> IF i <= 1 THEN Loaded(s1, h1)
                                      ELSE Unpacking(f[i - 1], Inside[m][i - 1], m)]
<1>1. N \in Nat /\ N >= 1 /\ DOMAIN Inside[m] = 1..N - 1
  <2>1. m \in Num
    BY LayoutAssumption, ObjFinite DEF Streams, Num
  <2> DEFINE q == Inside[m]
  <2>2. q \in Seq([num : Num, at : Content])
    BY <2>1, LayoutAssumption
  <2> HIDE DEF q
  <2>3. Len(q) \in Nat /\ DOMAIN q = 1..Len(q)
    BY <2>2
  <2> QED BY <2>3 DEF q
<1>2. step \in [S \X (1..N) -> S]
  <2> SUFFICES ASSUME NEW y \in S \X (1..N)
               PROVE (IF y[2] <= 1 THEN y[1] ELSE Unpacking(y[1], Inside[m][y[2] - 1], m)) \in S
    OBVIOUS
  <2>1. y[1] \in S /\ y[2] \in 1..N
    OBVIOUS
  <2>2. CASE y[2] <= 1
    BY <2>1, <2>2
  <2>3. CASE ~ (y[2] <= 1)
    <3> DEFINE i == y[2] - 1
               c == y[1]
    <3>1. i \in DOMAIN Inside[m] /\ c \in Stages(s, h, k)
      BY <1>1, <2>1, <2>3
    <3> HIDE DEF i, c
    <3>2. Unpacking(c, Inside[m][i], m) \in Stages(s, h, k)
      BY <3>1, UnpackingStage
    <3> QED BY <2>3, <3>2 DEF i, c
  <2> QED BY <2>2, <2>3
<1>3. base \in S
  OBVIOUS
<1> HIDE DEF N, S, step
<1>4. PICK g0 \in [0..N -> S] : Follows(g0, N, base, step)
  BY <1>1, <1>2, <1>3, Recursion
<1>5. g0 = Body(g0)
  <2>1. ASSUME NEW i \in 0..N
        PROVE  g0[i] = IF i <= 1 THEN Loaded(s1, h1) ELSE Unpacking(g0[i - 1], Inside[m][i - 1], m)
    <3>1. CASE i = 0
      <4>1. g0[i] = base
        BY <1>4, <3>1 DEF Follows
      <4> QED BY <3>1, <4>1
    <3>2. CASE i # 0
      <4>1. i - 1 \in 0..N /\ i \in 1..N /\ <<g0[i - 1], i>> \in S \X (1..N)
        BY <1>1, <1>4, <3>2
      <4>2. g0[i] = step[<<g0[i - 1], i>>]
        BY <1>4, <3>2 DEF Follows
      <4>3. g0[i] = IF i <= 1 THEN g0[i - 1] ELSE Unpacking(g0[i - 1], Inside[m][i - 1], m)
        BY <4>1, <4>2 DEF step
      <4>4. i <= 1 => g0[i - 1] = base
        <5> SUFFICES ASSUME i <= 1 PROVE g0[i - 1] = base
          OBVIOUS
        <5>1. i - 1 = 0 /\ 0 \in 0..N
          BY <1>1, <3>2
        <5>2. g0[0] = base
          BY <1>4, <5>1 DEF Follows
        <5> QED BY <5>1, <5>2
      <4> QED BY <4>3, <4>4
    <3> QED BY <3>1, <3>2
  <2>2. g0 = [i \in 0..N |-> g0[i]]
    BY <1>4
  <2> QED BY <2>1, <2>2
<1> DEFINE g == CHOOSE f : f = Body(f)
<1>6. Unpack(s1, h1, m) = g[arrived[m]]
  BY Zenon DEF Unpack, N
<1>7. g = Body(g)
  <2> HIDE DEF Body
  <2> QED BY <1>5, Zenon
<1> HIDE DEF g
<1>8. ASSUME NEW i \in 0..N
      PROVE  g[i] = IF i <= 1 THEN Loaded(s1, h1) ELSE Unpacking(g[i - 1], Inside[m][i - 1], m)
  <2>1. Body(g)[i] = IF i <= 1 THEN Loaded(s1, h1) ELSE Unpacking(g[i - 1], Inside[m][i - 1], m)
    OBVIOUS
  <2> HIDE DEF Body
  <2> QED BY <1>7, <2>1
<1>9. ASSUME NEW i \in 0..N PROVE g[i] \in S
  <2> DEFINE Bad == {j \in 0..N : g[j] \notin S}
  <2>1. SUFFICES ASSUME Bad # {} PROVE FALSE
    OBVIOUS
  <2>2. Bad \in SUBSET Nat
    OBVIOUS
  <2>3. PICK j \in Bad : \A y \in Bad : j <= y
    <3> HIDE DEF Bad
    <3> QED BY <2>1, <2>2, Least
  <2>4. j \in 0..N /\ ~ (j <= 1)
    BY <1>3, <1>8, <2>3
  <2>5. j - 1 \in 0..N /\ j - 1 \in DOMAIN Inside[m] /\ j - 1 \notin Bad
    BY <1>1, <2>3, <2>4
  <2>6. g[j - 1] \in S
    BY <2>5
  <2> DEFINE q == j - 1
             c == g[q]
  <2>7. Unpacking(c, Inside[m][q], m) \in S
    <3>1. q \in DOMAIN Inside[m] /\ c \in Stages(s, h, k)
      BY <2>5, <2>6 DEF S
    <3> HIDE DEF q, c
    <3> QED BY <3>1, UnpackingStage DEF S
  <2> QED BY <1>8, <2>3, <2>4, <2>7
<1>10. Turns(g, s1, h1, m)
  BY <1>8 DEF Turns, N
<1>11. arrived[m] \in 0..N
  BY DEF N
<1> QED BY <1>6, <1>9, <1>10, <1>11 DEF S, N

-----------------------------------------------------------------------------
(* Loading an object                                                       *)

FileCell == [type : Types, ofs : Num \cup {0}, at : Content]
Basic ==
  /\ sections \in Table /\ altered \in BOOLEAN /\ len \in FileLen..MaxNum
  /\ held \in Clients /\ code \in {"later", "other"} /\ edits \in Nat
  /\ arrived \in [Num -> Nat] /\ \A n \in Num : arrived[n] <= Whole[n]
  /\ Good(objs, Ext(sections, held))
  /\ Shape(sections, len) /\ Bare(sections)
  /\ file.secs \in Seq([Num -> FileCell]) /\ file.secs # << >>
  /\ file.len \in FileLen..MaxNum /\ file.len <= len
  /\ Shape(file.secs, file.len)

LEMMA StreamsAre ==
  /\ FileLen \in Nat /\ FileLen <= MaxNum
  /\ \A m \in Streams : /\ m \in Num /\ Inside[m] \in Seq([num : Num, at : Content])
                        /\ Len(Inside[m]) \in Nat /\ Whole[m] = 1 + Len(Inside[m])
                        /\ Inside[m] # << >>
<1>1. FileLen \in Nat /\ FileLen <= MaxNum /\ \A m \in Streams : m \in Num
  BY LayoutAssumption, ObjFinite DEF Streams, Num
<1>2. \A m \in Num : Inside[m] \in Seq([num : Num, at : Content])
  BY LayoutAssumption
<1>3. \A q \in Seq([num : Num, at : Content]) : Len(q) \in Nat
  OBVIOUS
<1>4. ASSUME NEW m \in Streams PROVE Whole[m] = 1 + Len(Inside[m])
  BY <1>1 DEF Whole, Streams
<1>5. \A m \in Streams : Inside[m] # << >>
  BY DEF Streams
<1> QED BY <1>1, <1>2, <1>3, <1>4, <1>5

\* Nothing has been loaded yet.
LEMMA LoadedStage ==
  ASSUME Basic, Loadable
  PROVE  /\ Loaded(sections, objs) \in Stages(sections, objs, held)
         /\ \A err \in {"none", "later", "other"} :
              Fails(sections, objs, err) \in Stages(sections, objs, held)
<1>1. objs \in Heap /\ sections \in Table
  BY DEF Basic, Good
<1>2. Cardinality(Free(objs)) >= 2 * Cardinality(Uncached(sections))
  <2>1. IsFiniteSet(Num) /\ Uncached(sections) \in SUBSET Num
    BY ObjFinite DEF Uncached
  <2>2. Cardinality(Uncached(sections)) <= Cardinality(Num) /\ Cardinality(Num) \in Nat
        /\ Cardinality(Uncached(sections)) \in Nat
    BY <2>1, FS_Subset, FS_CardinalityType
  <2>3. Cardinality(Free(objs)) >= 2 * Cardinality(Num)
    BY DEF Loadable, Room
  <2> QED BY <2>2, <2>3, FreeIs
<1>3. ASSUME NEW c \in Results, c.s = sections, c.h = objs PROVE c \in Stages(sections, objs, held)
  <2>1. Stage(sections, objs, held, c)
    <3>1. Good(c.h, Ext(c.s, held))
      BY <1>3 DEF Basic
    <3>2. Grown(sections, objs, c)
      BY <1>3, Zenon DEF Grown
    <3>3. Lives(objs, c.h) /\ Roomy(c)
      BY <1>2, <1>3 DEF Lives, Roomy
    <3> QED BY <1>3, <3>1, <3>2, <3>3 DEF Stage
  <2>2. Parented(sections, objs, c, 0)
    BY <1>3 DEF Parented
  <2> QED BY <2>1, <2>2 DEF Stages
<1>4. \A err \in {"none", "later", "other"} :
        LET c == [s |-> sections, h |-> objs, err |-> err]
        IN  c \in Results /\ c.s = sections /\ c.h = objs
  BY <1>1 DEF Results
<1> QED BY <1>3, <1>4 DEF Loaded, Fails

LEMMA CachedFirst ==
  ASSUME Basic, Loadable, NEW n \in Num,
         Entry(sections, n).obj = NULL, Entry(sections, n).type # "undefined",
         NEW at \in Content, Entry(sections, n).type = "f" \/ at = Entry(sections, n).at
  PROVE  LET d == Cached(sections, n, New(objs, at, n))
         IN  /\ Stage(sections, objs, held, d) /\ Parented(sections, objs, d, n)
             /\ d.err = "none" /\ Entry(d.s, n).obj \in Obj
             /\ \A m \in Num : m # n => Entry(d.s, m) = Entry(sections, m)
<1> DEFINE c == Loaded(sections, objs)
           s == sections
           h == objs
           k == held
<1>1. s \in Table /\ h \in Heap /\ k \in Clients /\ n \in Nat
  BY ObjFinite DEF Basic, Good, Num
<1>2. c.s = sections /\ c.h = objs
  BY DEF Loaded
<1>3. Stage(s, h, k, c) /\ Parented(s, h, c, 0)
  BY LoadedStage DEF Stages
<1>4. Entry(c.s, n).obj = NULL /\ Entry(c.s, n).type # "undefined"
      /\ (Entry(c.s, n).type = "f" \/ at = Entry(c.s, n).at)
  BY <1>2
<1> HIDE DEF c, s, h, k
<1> DEFINE d == Cached(c.s, n, New(c.h, at, n))
<1>5. /\ Stage(s, h, k, d) /\ Parented(s, h, d, n) /\ d.err = "none" /\ Entry(d.s, n).obj \in Obj
      /\ \A m \in Num : m # n => Entry(d.s, m) = Entry(c.s, m)
  BY <1>1, <1>3, <1>4, CachedStage
<1>6. d = Cached(sections, n, New(objs, at, n))
  BY <1>2
<1> HIDE DEF d
<1> QED BY <1>2, <1>5, <1>6 DEF s, h, k

LEMMA IndirectStage ==
  ASSUME Basic, Loadable, NEW n \in Num,
         Entry(sections, n).obj = NULL, Entry(sections, n).type # "undefined"
  PROVE  LET c == CacheIndirect(sections, objs, n)
         IN  /\ Stage(sections, objs, held, c) /\ Parented(sections, objs, c, n)
             /\ c.err # "none" => c \in Stages(sections, objs, held)
             /\ c.err = "none" => Entry(c.s, n).obj \in Obj
             /\ \A m \in Num : m # n => Entry(c.s, m) = Entry(sections, m)
<1> DEFINE c == CacheIndirect(sections, objs, n)
           at == Entry(sections, n).at
           d == Cached(sections, n, New(objs, at, n))
<1>1. at \in Content
  <2>1. Entry(sections, n) \in Cell
    BY EntryIs DEF Basic
  <2> QED BY <2>1 DEF Cell
<1>2. CASE c = d
  <2>1. /\ Stage(sections, objs, held, d) /\ Parented(sections, objs, d, n)
        /\ d.err = "none" /\ Entry(d.s, n).obj \in Obj
        /\ \A m \in Num : m # n => Entry(d.s, m) = Entry(sections, m)
    BY <1>1, CachedFirst
  <2> HIDE DEF c, d
  <2> QED BY <1>2, <2>1 DEF c
<1>3. ASSUME NEW err \in {"later", "other"}, c = Fails(sections, objs, err)
      PROVE  /\ Stage(sections, objs, held, c) /\ Parented(sections, objs, c, n)
             /\ c \in Stages(sections, objs, held) /\ c.err # "none" /\ c.s = sections
  <2>1. c \in Stages(sections, objs, held) /\ c.err # "none" /\ c.s = sections
    BY <1>3, LoadedStage DEF Fails
  <2> HIDE DEF c
  <2>2. Stage(sections, objs, held, c) /\ Parented(sections, objs, c, 0)
    BY <2>1 DEF Stages
  <2>3. Parented(sections, objs, c, n)
    BY <2>1, <2>2 DEF Parented
  <2> QED BY <2>1, <2>2, <2>3
<1>4. c = d \/ c = Fails(sections, objs, "later") \/ c = Fails(sections, objs, code)
  BY DEF CacheIndirect
<1>5. code \in {"later", "other"}
  BY DEF Basic
<1> HIDE DEF c, d
<1>6. CASE c # d
  <2>1. PICK err \in {"later", "other"} : c = Fails(sections, objs, err)
    BY <1>4, <1>5, <1>6
  <2>2. /\ Stage(sections, objs, held, c) /\ Parented(sections, objs, c, n)
        /\ c \in Stages(sections, objs, held) /\ c.err # "none" /\ c.s = sections
    BY <1>3, <2>1
  <2> QED BY <2>2 DEF c
<1> QED BY <1>2, <1>6

\* What an object stream has, once it has been loaded.
LEMMA InsideStage ==
  ASSUME Basic, Loadable, NEW n \in Num,
         Entry(sections, n).obj = NULL, Entry(sections, n).type = "o"
  PROVE  LET c == CacheInside(sections, objs, n)
         IN  /\ c \in Stages(sections, objs, held)
             /\ c.err = "none" => Entry(c.s, n).obj \in Obj
<1> DEFINE m == Entry(sections, n).ofs
           first == IF Entry(sections, m).obj # NULL THEN Loaded(sections, objs)
                    ELSE CacheIndirect(sections, objs, m)
           s == sections
           h == objs
           k == held
           d == Numbered(first, m)
           all == Unpack(d.s, d.h, m)
           c == CacheInside(sections, objs, n)
<1>1. /\ s \in Table /\ h \in Heap /\ k \in Clients /\ len \in Nat /\ Shape(s, len) /\ Bare(s)
      /\ Good(h, Ext(s, k))
  BY StreamsAre DEF Basic, Good
<1>2. m \in Streams
  <2>1. Where(s, n) \in DOMAIN s /\ Entry(s, n) = s[Where(s, n)][n]
    BY <1>1, EntryIs
  <2> QED BY <1>1, <2>1 DEF Shape
<1>3. m \in Num /\ Whole[m] = 1 + Len(Inside[m]) /\ arrived[m] \in 0..1 + Len(Inside[m])
      /\ arrived[m] <= Whole[m] /\ arrived[m] \in Nat /\ Whole[m] \in Nat
  BY <1>2, StreamsAre DEF Basic
<1>4. Entry(s, m).type # "undefined"
  BY <1>1, <1>2 DEF Shape
<1>5. c = FromStream(first, m, n)
  BY DEF CacheInside
<1> HIDE DEF m, c
<1>6. CASE first.err # "none"
  <2>1. Entry(s, m).obj = NULL
    BY <1>6 DEF Loaded
  <2>2. first = CacheIndirect(sections, objs, m)
    BY <2>1
  <2>3. first \in Stages(s, h, k)
    <3> HIDE DEF first
    <3> QED BY <1>3, <1>4, <1>6, <2>1, <2>2, IndirectStage
  <2>4. c = first
    BY <1>5, <1>6 DEF FromStream
  <2> QED BY <1>6, <2>3, <2>4 DEF c
<1>7. CASE first.err = "none"
  <2>1. /\ Stage(s, h, k, first) /\ Entry(first.s, m).obj \in Obj
        /\ \/ Entry(s, m).obj = NULL /\ Parented(s, h, first, m)
           \/ Entry(first.s, m) = Entry(s, m) /\ m \in Streams /\ Parented(s, h, first, 0)
              /\ h[Entry(s, m).obj].refs # 0
              /\ (h[Entry(s, m).obj].kid # NULL => h[h[Entry(s, m).obj].kid].refs # 0)
    <3>1. CASE Entry(s, m).obj = NULL
      <4>1. first = CacheIndirect(sections, objs, m)
        BY <3>1
      <4> HIDE DEF first
      <4> QED BY <1>3, <1>4, <1>7, <3>1, <4>1, IndirectStage
    <3>2. CASE Entry(s, m).obj # NULL
      <4>1. first = Loaded(sections, objs) /\ first.s = s
        BY <3>2 DEF Loaded
      <4>2. first \in Stages(s, h, k)
        BY <4>1, LoadedStage
      <4> HIDE DEF first
      <4>3. /\ Where(s, m) \in DOMAIN s /\ Entry(s, m) = s[Where(s, m)][m] /\ Entry(s, m) \in Cell
        BY <1>1, <1>3, EntryIs
      <4>4. Entry(s, m).obj \in Obj /\ Ext(s, k)[Entry(s, m).obj] > 0
        <5>1. Entry(s, m).obj \in Obj
          BY <3>2, <4>3 DEF Cell
        <5> QED BY <1>1, <1>3, <4>3, <5>1, ExtIs
      <4> DEFINE o == Entry(s, m).obj
      <4>5. h[o].refs # 0 /\ (h[o].kid # NULL => h[h[o].kid].refs # 0)
        <5>1. o \in Obj /\ Ext(s, k)[o] > 0
          BY <4>4
        <5> HIDE DEF o
        <5> QED BY <1>1, <5>1, GoodIs
      <4> QED BY <1>2, <4>1, <4>2, <4>4, <4>5 DEF Stages
    <3> QED BY <3>1, <3>2
  <2> HIDE DEF first, s, h, k
  <2>2. Stage(s, h, k, d) /\ Parented(s, h, d, 0)
    BY <1>1, <1>3, <2>1, NumberedStage
  <2>3. d.err = "none" /\ d.s = first.s /\ d.h = SetParent(first.h, Entry(first.s, m).obj, m)
    BY <1>7 DEF Numbered
  <2>4. Loaded(d.s, d.h) = d
    BY <1>7, <2>3 DEF Numbered, Loaded
  <2> HIDE DEF d
  <2>5. Loaded(d.s, d.h) \in Stages(s, h, k)
    BY <2>2, <2>4 DEF Stages, Stage
  <2>6. all \in Stages(s, h, k)
    <3> DEFINE s1 == d.s
               h1 == d.h
    <3>1. Loaded(s1, h1) \in Stages(s, h, k)
      BY <2>5
    <3> HIDE DEF s1, h1
    <3>2. Unpack(s1, h1, m) \in Stages(s, h, k)
      BY <1>1, <1>2, <1>3, <3>1, UnpackStage
    <3> QED BY <3>2 DEF s1, h1
  <2>7. c = Unpacked(all, m, n)
    BY <1>5, <1>7, <2>3 DEF FromStream
  <2> HIDE DEF all
  <2>8. /\ all \in Results /\ Stage(s, h, k, all) /\ Parented(s, h, all, 0) /\ all.s \in Table
        /\ all.h \in Heap
    BY <2>6 DEF Stages, Results
  <2>9. ASSUME NEW err \in {"later", "other"}, c = Fails(all.s, all.h, err)
        PROVE  c \in Stages(s, h, k) /\ c.err # "none"
    <3>1. c.s = all.s /\ c.h = all.h /\ c \in Results /\ c.err # "none"
      BY <2>8, <2>9 DEF Fails, Results
    <3> QED BY <2>8, <3>1 DEF Stages, Stage, Grown, Roomy, Parented
  <2>10. CASE all.err # "none"
    BY <2>6, <2>7, <2>10 DEF Unpacked, c, s, h, k
  <2>11. CASE all.err = "none" /\ arrived[m] < Whole[m]
    <3>1. c = Fails(all.s, all.h, "later")
      BY <1>3, <2>7, <2>11 DEF Unpacked
    <3> QED BY <2>9, <3>1 DEF c, s, h, k
  <2>12. CASE all.err = "none" /\ ~ (arrived[m] < Whole[m]) /\ Entry(all.s, n).obj = NULL
    <3>1. c = Fails(all.s, all.h, "other")
      BY <1>3, <2>7, <2>12 DEF Unpacked
    <3> QED BY <2>9, <3>1 DEF c, s, h, k
  <2>13. CASE all.err = "none" /\ ~ (arrived[m] < Whole[m]) /\ Entry(all.s, n).obj # NULL
    <3>1. c = all
      BY <2>7, <2>13 DEF Unpacked
    <3>2. Entry(all.s, n).obj \in Obj
      <4>1. Entry(all.s, n) \in Cell
        BY <2>8, EntryIs
      <4> QED BY <2>13, <4>1 DEF Cell
    <3> QED BY <2>6, <3>1, <3>2 DEF c, s, h, k
  <2> QED BY <2>10, <2>11, <2>12, <2>13
<1> QED BY <1>6, <1>7

\* pdf_cache_object, whatever comes of it.
LEMMA CacheStage ==
  ASSUME Basic, Loadable, NEW n \in Num
  PROVE  /\ Cache(n) \in Stages(sections, objs, held)
         /\ Cache(n).err = "none" => Entry(Cache(n).s, n).obj \in Obj
<1> DEFINE s == sections
           h == objs
           k == held
           e == Entry(s, n)
           c == CacheEntry(n)
<1>1. s \in Table /\ h \in Heap /\ k \in Clients /\ e \in Cell
  BY EntryIs DEF Basic, Good
<1>2. CASE n > len
  <2>1. Cache(n) = Fails(s, h, "other")
    BY <1>2 DEF Cache
  <2> QED BY <2>1, LoadedStage DEF Fails
<1>3. CASE ~ (n > len) /\ e.obj # NULL
  <2>1. Cache(n) = Loaded(s, h)
    BY <1>3 DEF Cache
  <2>2. e.obj \in Obj /\ Loaded(s, h).s = s
    BY <1>1, <1>3 DEF Cell, Loaded
  <2> QED BY <2>1, <2>2, LoadedStage
<1>4. CASE ~ (n > len) /\ e.obj = NULL
  <2>1. Cache(n) = WithParent(c, n)
    BY <1>4 DEF Cache
  <2>2. /\ Stage(s, h, k, c) /\ Parented(s, h, c, n)
        /\ c.err # "none" => c \in Stages(s, h, k)
        /\ c.err = "none" => Entry(c.s, n).obj \in Obj
    <3>1. CASE e.type = "f"
      <4>1. c = Cached(s, n, New(h, Nothing, n))
        BY <3>1 DEF CacheEntry
      <4>2. Nothing \in Content /\ e.type # "undefined"
        BY <3>1 DEF Nothing, Content
      <4> HIDE DEF c
      <4> QED BY <1>4, <3>1, <4>1, <4>2, CachedFirst
    <3>2. CASE e.type = "n"
      <4>1. c = CacheIndirect(s, h, n) /\ e.type # "undefined"
        BY <3>2 DEF CacheEntry
      <4> HIDE DEF c
      <4> QED BY <1>4, <4>1, IndirectStage
    <3>3. CASE e.type = "o"
      <4>1. c = CacheInside(s, h, n)
        BY <3>3 DEF CacheEntry
      <4> HIDE DEF c
      <4>2. c \in Stages(s, h, k) /\ (c.err = "none" => Entry(c.s, n).obj \in Obj)
        BY <1>4, <3>3, <4>1, InsideStage
      <4>3. Stage(s, h, k, c) /\ Parented(s, h, c, 0)
        BY <4>2 DEF Stages
      <4>4. n # 0
        BY DEF Num
      <4>5. Parented(s, h, c, n)
        <5>1. \A j \in DOMAIN s, m \in Num : c.s[j][m] # s[j][m] /\ m # n => c.s[j][m] # s[j][m] /\ m # 0
          BY DEF Num
        <5> QED BY <4>3, <5>1 DEF Parented
      <4> QED BY <4>2, <4>3, <4>5
    <3>4. CASE e.type = "undefined"
      <4>1. c = Fails(s, h, IF Streamed THEN "later" ELSE "other")
        BY <3>4 DEF CacheEntry
      <4>2. c.err # "none" /\ c \in Stages(s, h, k) /\ c.s = s
        BY <4>1, LoadedStage DEF Fails
      <4> HIDE DEF c
      <4>3. Stage(s, h, k, c) /\ Parented(s, h, c, 0)
        BY <4>2 DEF Stages
      <4>4. Parented(s, h, c, n)
        BY <4>2, <4>3 DEF Parented
      <4> QED BY <4>2, <4>3, <4>4
    <3> QED BY <1>1, <3>1, <3>2, <3>3, <3>4 DEF Cell, Types
  <2> HIDE DEF c
  <2>3. CASE c.err # "none"
    <3>1. Cache(n) = c
      BY <2>1, <2>3 DEF WithParent
    <3> QED BY <2>2, <2>3, <3>1
  <2>4. CASE c.err = "none"
    <3>1. c \in Results
      BY <2>2 DEF Stage
    <3>2. Cache(n) = Numbered(c, n)
      BY <2>1, <2>4, <3>1 DEF WithParent, Numbered, Results
    <3>3. Stage(s, h, k, Numbered(c, n)) /\ Parented(s, h, Numbered(c, n), 0)
      <4> HIDE DEF s, h, k, e
      <4>1. Entry(s, n).obj = NULL
        BY <1>4 DEF e
      <4> QED BY <1>1, <2>2, <2>4, <4>1, NumberedStage
    <3>4. Numbered(c, n).s = c.s
      BY DEF Numbered
    <3> QED BY <2>2, <2>4, <3>2, <3>3, <3>4 DEF Stages, Stage
  <2> QED BY <2>3, <2>4
<1> QED BY <1>2, <1>3, <1>4

-----------------------------------------------------------------------------
(* Opening and closing                                                     *)

LEMMA ReadIs ==
  ASSUME NEW f \in Seq([Num -> FileCell]), f # << >>
  PROVE  /\ Read(f) \in Table /\ DOMAIN Read(f) = DOMAIN f
         /\ \A j \in DOMAIN f, n \in Num :
              /\ Read(f)[j][n].type = f[j][n].type /\ Read(f)[j][n].ofs = f[j][n].ofs
              /\ Read(f)[j][n].at = f[j][n].at
              /\ Read(f)[j][n].obj = NULL /\ Read(f)[j][n].buf = 0
         /\ \A n \in Num :
              /\ Entry(Read(f), n).type = Entry(f, n).type /\ Entry(Read(f), n).ofs = Entry(f, n).ofs
              /\ Entry(Read(f), n).at = Entry(f, n).at /\ Where(Read(f), n) = Where(f, n)
              /\ Entry(Read(f), n).obj = NULL /\ Entry(Read(f), n).buf = 0
         /\ Bare(Read(f))
         /\ \A l : Shape(f, l) => Shape(Read(f), l)
<1> DEFINE s == Read(f)
<1>1. DOMAIN f = 1..Len(f) /\ Len(f) \in Nat /\ Len(f) # 0
      /\ \A j \in DOMAIN f, n \in Num : f[j][n] \in FileCell
  OBVIOUS
<1>2. /\ DOMAIN s = DOMAIN f
      /\ \A j \in DOMAIN f, n \in Num :
           s[j][n] = [type |-> f[j][n].type, ofs |-> f[j][n].ofs, at |-> f[j][n].at,
                      obj |-> NULL, buf |-> 0]
  BY DEF Read
<1>3. \A j \in DOMAIN f, n \in Num : s[j][n] \in Cell
  <2> TAKE j \in DOMAIN f, n \in Num
  <2> DEFINE x == f[j][n]
             y == s[j][n]
  <2>1. x \in FileCell
    BY <1>1
  <2>2. y = [type |-> x.type, ofs |-> x.ofs, at |-> x.at, obj |-> NULL, buf |-> 0]
    BY <1>2
  <2> HIDE DEF x, y
  <2>3. y \in Cell
    BY <2>1, <2>2 DEF FileCell, Cell
  <2> QED BY <2>3 DEF y
<1>4. s \in Table
  <2>1. s = [j \in 1..Len(f) |-> s[j]] /\ \A j \in DOMAIN f : s[j] = [n \in Num |-> s[j][n]]
    BY <1>1, <1>2 DEF Read
  <2> HIDE DEF s
  <2>2. s \in [1..Len(f) -> [Num -> Cell]]
    BY <1>1, <1>3, <2>1
  <2>3. s \in Seq([Num -> Cell]) /\ Len(s) = Len(f)
    BY <1>1, <2>2
  <2> QED BY <1>1, <2>3 DEF Table
<1> HIDE DEF s
<1>5. \A j \in DOMAIN f, n \in Num :
        /\ s[j][n].type = f[j][n].type /\ s[j][n].ofs = f[j][n].ofs
        /\ s[j][n].at = f[j][n].at /\ s[j][n].obj = NULL /\ s[j][n].buf = 0
  <2> TAKE j \in DOMAIN f, n \in Num
  <2> DEFINE x == f[j][n]
             y == s[j][n]
  <2>1. y = [type |-> x.type, ofs |-> x.ofs, at |-> x.at, obj |-> NULL, buf |-> 0]
    BY <1>2
  <2> HIDE DEF x, y
  <2>2. y.type = x.type /\ y.ofs = x.ofs /\ y.at = x.at /\ y.obj = NULL /\ y.buf = 0
    BY <2>1
  <2> QED BY <2>2 DEF x, y
<1>6. \A n \in Num : Where(s, n) = Where(f, n) /\ Where(f, n) \in DOMAIN f
  BY <1>2, <1>5, WhereSame, WhereIs
<1>7. \A n \in Num :
        /\ Entry(s, n).type = Entry(f, n).type /\ Entry(s, n).ofs = Entry(f, n).ofs
        /\ Entry(s, n).at = Entry(f, n).at
        /\ Entry(s, n).obj = NULL /\ Entry(s, n).buf = 0
  BY <1>5, <1>6 DEF Entry
<1>8. Bare(s)
  BY <1>2, <1>5 DEF Bare
<1>9. \A l : Shape(f, l) => Shape(s, l)
  <2> SUFFICES ASSUME NEW l, Shape(f, l) PROVE Shape(s, l)
    OBVIOUS
  <2>1. \A m \in Streams : Entry(s, m).type # "undefined"
    BY <1>7, StreamsAre DEF Shape
  <2> QED BY <1>2, <1>5, <2>1 DEF Shape
<1> QED BY <1>2, <1>4, <1>5, <1>6, <1>7, <1>8, <1>9 DEF s

\* Nothing refers to an object.
LEMMA ExtNone ==
  ASSUME NEW s \in Table, NEW k \in Clients, \A h \in Held : k[h] = NULL,
         \A j \in DOMAIN s, n \in Num : s[j][n].obj = NULL
  PROVE  Ext(s, k) = [o \in Obj |-> 0]
<1>1. IsFiniteSet(DOMAIN k) /\ DOMAIN k = Held /\ NULL \notin Obj
  BY BoundsAssumption, ObjFinite DEF Clients
<1>2. ASSUME NEW o \in Obj PROVE Ext(s, k)[o] = 0
  <2>1. Count(k, o) = 0
    <3>1. ~ \E h \in DOMAIN k : k[h] = o
      BY <1>1
    <3> QED BY <1>1, <3>1, CountNat
  <2>2. Count(ObjAt(s), o) = 0
    <3>1. ~ \E x \in DOMAIN ObjAt(s) : ObjAt(s)[x] = o
      BY <1>1 DEF ObjAt
    <3> DEFINE f == ObjAt(s)
    <3>2. IsFiniteSet(DOMAIN f) /\ ~ \E x \in DOMAIN f : f[x] = o
      BY <3>1, TableFinite
    <3> HIDE DEF f
    <3>3. Count(f, o) = 0
      BY <3>2, CountNat
    <3> QED BY <3>3 DEF f
  <2> QED BY <2>1, <2>2 DEF Ext
<1> QED BY <1>2 DEF Ext

LEMMA LayoutShape ==
  /\ Layout \in Seq([Num -> FileCell]) /\ Layout # << >> /\ Shape(Layout, FileLen)
  /\ \A m \in Streams : Entry(Layout, m).type = "n"
<1>1. Layout \in Seq([Num -> FileCell]) /\ Layout # << >>
  BY LayoutAssumption DEF FileCell, Types
<1>2. ASSUME NEW m \in Streams PROVE Entry(Layout, m).type = "n"
  <2>1. PICK j \in DOMAIN Layout :
          Layout[j][m].type = "n" /\ \A i \in 1..j - 1 : Layout[i][m].type = "undefined"
    BY DEF Streams
  <2>2. Where(Layout, m) = j
    BY <1>1, <2>1, WhereFirst
  <2> QED BY <2>1, <2>2 DEF Entry
<1>3. \A j \in DOMAIN Layout, n \in Num :
        /\ n > FileLen => Layout[j][n].type = "undefined"
        /\ Layout[j][n].type = "o" =>
             Layout[j][n].ofs \in Streams /\ Tells(Layout[j][n].ofs, n, Layout[j][n].at)
  BY LayoutAssumption
<1> QED BY <1>1, <1>2, <1>3 DEF Shape

LEMMA WholeIs == Whole \in [Num -> Nat]
<1>1. \A n \in Num : Inside[n] \in Seq([num : Num, at : Content])
  BY LayoutAssumption
<1>2. \A q \in Seq([num : Num, at : Content]) : Len(q) \in Nat
  OBVIOUS
<1> QED BY <1>1, <1>2 DEF Whole

LEMMA InitBasic == Init => Basic
<1> SUFFICES ASSUME Init PROVE Basic
  OBVIOUS
<1>1. /\ sections = Read(Layout) /\ altered = FALSE /\ len = FileLen
      /\ file = [secs |-> Layout, len |-> FileLen] /\ objs = [o \in Obj |-> Unused]
      /\ held = [h \in Held |-> NULL] /\ code = "other" /\ edits = 0
      /\ arrived = IF Streamed THEN [n \in Num |-> 0] ELSE Whole
  BY DEF Init
<1>2. /\ sections \in Table /\ Bare(sections) /\ Shape(sections, len)
      /\ \A j \in DOMAIN sections, n \in Num : sections[j][n].obj = NULL
  BY <1>1, LayoutShape, ReadIs
<1>3. held \in Clients /\ \A h \in Held : held[h] = NULL
  BY <1>1 DEF Clients
<1>4. Ext(sections, held) = [o \in Obj |-> 0]
  BY <1>2, <1>3, ExtNone
<1>5. Good(objs, Ext(sections, held))
  <2>1. objs \in Heap /\ \A o \in Obj : objs[o].refs = 0 /\ objs[o].kid = NULL
    BY <1>1 DEF Heap, ObjType, Unused
  <2>2. \A o \in Obj : Count(KidOf(objs), o) = 0
    BY <2>1, KidsCount, ObjFinite
  <2> QED BY <1>4, <2>1, <2>2 DEF Good
<1>6. arrived \in [Num -> Nat] /\ \A n \in Num : arrived[n] <= Whole[n]
  BY <1>1, WholeIs
<1>7. FileLen \in Nat /\ FileLen \in FileLen..MaxNum /\ MaxNum \in Nat
  BY StreamsAre, ObjFinite
<1>8. /\ file.secs \in Seq([Num -> FileCell]) /\ file.secs # << >>
      /\ file.len = FileLen /\ Shape(file.secs, file.len)
  BY <1>1, LayoutShape
<1>9. altered \in BOOLEAN
  BY <1>1, Zenon
<1>10. code \in {"later", "other"} /\ edits \in Nat
  BY <1>1
<1>11. len \in FileLen..MaxNum /\ file.len \in FileLen..MaxNum /\ file.len <= len
  <2>1. len = FileLen
    BY <1>1
  <2> QED BY <1>7, <1>8, <2>1
<1> QED BY <1>2, <1>3, <1>5, <1>6, <1>8, <1>9, <1>10, <1>11 DEF Basic

LEMMA DropIs ==
  ASSUME NEW h \in Heap, NEW o \in Obj \cup {NULL}
  PROVE  Drop(h, o) \in Heap
<1>1. CASE o = NULL
  BY <1>1 DEF Drop
<1>2. CASE o # NULL
  <2>1. o \in Obj /\ Less(h, o) \in Heap /\ h[o].kid \in Obj \cup {NULL}
    BY <1>2, LessIs DEF Heap, ObjType
  <2>2. h[o].kid # NULL => Less(Less(h, o), h[o].kid) \in Heap
    BY <2>1, LessIs
  <2> QED BY <1>2, <2>1, <2>2 DEF Drop
<1> QED BY <1>1, <1>2

\* The entries up to number n of section j, and the sections before it, are emptied.
Gone(i, m, j, n) == i < j \/ (i = j /\ m <= n)
Blanked(e) == [e EXCEPT !.obj = NULL]
Cut(s, j, n) ==
  [i \in DOMAIN s |-> [m \in Num |-> IF Gone(i, m, j, n)
                                     THEN Blanked(s[i][m]) ELSE s[i][m]]]
LEMMA CutIs ==
  ASSUME NEW s \in Table, NEW j \in Nat, NEW n \in Nat
  PROVE  /\ Cut(s, j, n) \in Table /\ DOMAIN Cut(s, j, n) = DOMAIN s
         /\ \A i \in DOMAIN s, m \in Num :
              /\ Gone(i, m, j, n) => /\ Cut(s, j, n)[i][m] = Blanked(s[i][m])
                                     /\ Cut(s, j, n)[i][m].obj = NULL
              /\ ~ Gone(i, m, j, n) => Cut(s, j, n)[i][m] = s[i][m]
<1> DEFINE t == Cut(s, j, n)
<1>1. DOMAIN s = 1..Len(s) /\ Len(s) \in Nat /\ \A i \in DOMAIN s, m \in Num : s[i][m] \in Cell
  BY TableFinite
<1>2. /\ DOMAIN t = DOMAIN s
      /\ \A i \in DOMAIN s, m \in Num :
           t[i][m] = IF Gone(i, m, j, n) THEN Blanked(s[i][m]) ELSE s[i][m]
  BY DEF Cut
<1>3. \A i \in DOMAIN s, m \in Num :
        /\ t[i][m] \in Cell
        /\ t[i][m].obj = IF Gone(i, m, j, n) THEN NULL ELSE s[i][m].obj
  <2> TAKE i \in DOMAIN s, m \in Num
  <2>1. s[i][m] \in Cell
    BY <1>1
  <2>2. Blanked(s[i][m]) \in Cell /\ Blanked(s[i][m]).obj = NULL
    BY <2>1 DEF Cell, Blanked
  <2> HIDE DEF t
  <2> QED BY <1>2, <2>1, <2>2
<1>4. t \in Table
  <2>1. t = [i \in 1..Len(s) |-> t[i]] /\ \A i \in DOMAIN s : t[i] = [m \in Num |-> t[i][m]]
    BY <1>1 DEF Cut
  <2> HIDE DEF t
  <2>2. t \in [1..Len(s) -> [Num -> Cell]]
    BY <1>1, <1>3, <2>1
  <2>3. t \in Seq([Num -> Cell]) /\ Len(t) = Len(s)
    BY <1>1, <2>2
  <2>4. Len(s) # 0
    <3>1. 1 \in DOMAIN s
      BY TableFinite
    <3> QED BY <1>1, <3>1
  <2>5. t # << >>
    BY <2>3, <2>4
  <2> QED BY <2>3, <2>5 DEF Table
<1> QED BY <1>2, <1>3, <1>4

LEMMA CutAt ==
  ASSUME NEW s, NEW j, NEW n, NEW i \in DOMAIN s, NEW m \in Num
  PROVE  Cut(s, j, n)[i][m] = IF Gone(i, m, j, n) THEN Blanked(s[i][m]) ELSE s[i][m]
BY DEF Cut

\* Emptying an entry drops what it has.
LEMMA CutGood ==
  ASSUME NEW s \in Table, NEW k \in Clients, NEW j \in DOMAIN s, NEW n \in Num, NEW h,
         Good(h, Ext(Cut(s, j, n - 1), k))
  PROVE  Good(Drop(h, s[j][n].obj), Ext(Cut(s, j, n), k))
<1> DEFINE t == Cut(s, j, n - 1)
           u == Cut(s, j, n)
           o == s[j][n].obj
           e == Blanked(s[j][n])
<1>1. j \in Nat /\ n \in Nat /\ n - 1 \in Nat /\ s[j][n] \in Cell /\ DOMAIN s = 1..Len(s)
  <2>1. j \in 1..Len(s) /\ Len(s) \in Nat /\ s[j][n] \in Cell /\ DOMAIN s = 1..Len(s)
    BY TableFinite
  <2>2. n \in 1..MaxNum /\ MaxNum \in Nat
    BY ObjFinite DEF Num
  <2> QED BY <2>1, <2>2
<1>2. /\ t \in Table /\ DOMAIN t = DOMAIN s
      /\ \A i \in DOMAIN s, m \in Num :
           /\ Gone(i, m, j, n - 1) => t[i][m] = Blanked(s[i][m])
           /\ ~ Gone(i, m, j, n - 1) => t[i][m] = s[i][m]
  <2> DEFINE q == n - 1
  <2>1. q \in Nat
    BY <1>1
  <2> HIDE DEF q
  <2>2. /\ Cut(s, j, q) \in Table /\ DOMAIN Cut(s, j, q) = DOMAIN s
        /\ \A i \in DOMAIN s, m \in Num :
             /\ Gone(i, m, j, q) => Cut(s, j, q)[i][m] = Blanked(s[i][m])
             /\ ~ Gone(i, m, j, q) => Cut(s, j, q)[i][m] = s[i][m]
    <3>1. Cut(s, j, q) \in Table /\ DOMAIN Cut(s, j, q) = DOMAIN s
      BY <1>1, <2>1, CutIs
    <3>2. ASSUME NEW i \in DOMAIN s, NEW m \in Num
          PROVE  /\ Gone(i, m, j, q) => Cut(s, j, q)[i][m] = Blanked(s[i][m])
                 /\ ~ Gone(i, m, j, q) => Cut(s, j, q)[i][m] = s[i][m]
      <4>1. Cut(s, j, q)[i][m] = IF Gone(i, m, j, q) THEN Blanked(s[i][m]) ELSE s[i][m]
        BY CutAt
      <4> QED BY <4>1
    <3> QED BY <3>1, <3>2
  <2> QED BY <2>2 DEF q
<1>3. /\ u \in Table /\ DOMAIN u = DOMAIN s
      /\ \A i \in DOMAIN s, m \in Num :
           /\ Gone(i, m, j, n) => u[i][m] = Blanked(s[i][m])
           /\ ~ Gone(i, m, j, n) => u[i][m] = s[i][m]
  <2>1. u \in Table
    BY <1>1, CutIs
  <2>2. DOMAIN u = DOMAIN s
    BY <1>1, CutIs
  <2>3. ASSUME NEW i \in DOMAIN s, NEW m \in Num
        PROVE  /\ Gone(i, m, j, n) => u[i][m] = Blanked(s[i][m])
               /\ ~ Gone(i, m, j, n) => u[i][m] = s[i][m]
    <3>1. Cut(s, j, n)[i][m] = IF Gone(i, m, j, n) THEN Blanked(s[i][m]) ELSE s[i][m]
      BY CutAt
    <3> QED BY <3>1
  <2> QED BY <2>1, <2>2, <2>3
<1>4. e \in Cell /\ e.obj = NULL /\ o \in Obj \cup {NULL}
  BY <1>1 DEF Cell, Blanked
<1> HIDE DEF t, u, e
<1>5. t[j][n] = s[j][n] /\ u[j][n] = e
  <2>1. ~ Gone(j, n, j, n - 1) /\ Gone(j, n, j, n)
    BY <1>1 DEF Gone
  <2> QED BY <1>2, <1>3, <2>1 DEF e
<1>6. \A i \in DOMAIN s, m \in Num : i # j \/ m # n => u[i][m] = t[i][m]
  <2> TAKE i \in DOMAIN s, m \in Num
  <2> HAVE i # j \/ m # n
  <2>1. i \in Nat /\ m \in Nat
    BY <1>1, ObjFinite DEF Num
  <2>2. Gone(i, m, j, n) <=> Gone(i, m, j, n - 1)
    BY <1>1, <2>1 DEF Gone
  <2> QED BY <1>2, <1>3, <2>2
<1>7. u = SetCell(t, j, n, e)
  <2> DEFINE v == SetCell(t, j, n, e)
  <2>1. /\ v \in Table /\ DOMAIN v = DOMAIN t /\ v[j][n] = e
        /\ \A i \in DOMAIN t, m \in Num : i # j \/ m # n => v[i][m] = t[i][m]
    BY <1>2, <1>4, SetCellIs
  <2> HIDE DEF v
  <2>2. \A i \in DOMAIN s, m \in Num : u[i][m] = v[i][m]
    BY <1>2, <1>5, <1>6, <2>1
  <2>3. /\ u = [i \in DOMAIN s |-> u[i]] /\ v = [i \in DOMAIN s |-> v[i]]
        /\ \A i \in DOMAIN s : u[i] \in [Num -> Cell] /\ v[i] \in [Num -> Cell]
    BY <1>2, <1>3, <2>1, TableFinite
  <2>4. \A i \in DOMAIN s : u[i] = v[i]
    BY <2>2, <2>3
  <2>5. u = v
    BY <2>3, <2>4
  <2> QED BY <2>5 DEF v
<1>8. CASE o = NULL
  <2>1. e.obj = t[j][n].obj
    BY <1>4, <1>5, <1>8
  <2>2. Ext(SetCell(t, j, n, e), k) = Ext(t, k)
    BY <1>2, <1>4, <2>1, ExtCell
  <2>3. Drop(h, o) = h
    BY <1>8 DEF Drop
  <2>4. Good(h, Ext(t, k))
    BY DEF t
  <2> QED BY <1>7, <2>2, <2>3, <2>4 DEF u
<1>9. CASE o # NULL
  <2>1. o \in Obj /\ t[j][n].obj = o
    BY <1>4, <1>5, <1>9
  <2>2. Ext(SetCell(t, j, n, e), k) = Fewer(Ext(t, k), o)
    BY <1>2, <1>4, <2>1, ExtCell
  <2>3. Ext(t, k)[o] > 0
    BY <1>2, <2>1, ExtIs
  <2> DEFINE f == Ext(t, k)
  <2>4. Good(h, f)
    BY DEF t
  <2> HIDE DEF f, o
  <2>5. Good(Drop(h, o), Fewer(f, o))
    BY <2>1, <2>3, <2>4, DropGood DEF f
  <2> QED BY <1>7, <2>2, <2>5 DEF u, f, o
<1> QED BY <1>8, <1>9

\* What holds first, and then if it held before, holds of all.
LEMMA Climbs ==
  ASSUME NEW N \in Nat, NEW G, 0 \in G, \A n \in 1..N : n - 1 \in G => n \in G
  PROVE  \A n \in 0..N : n \in G
<1> DEFINE Bad == {n \in 0..N : n \notin G}
<1>1. SUFFICES ASSUME Bad # {} PROVE FALSE
  OBVIOUS
<1>2. Bad \in SUBSET Nat
  OBVIOUS
<1>3. PICK n \in Bad : \A y \in Bad : n <= y
  <2> HIDE DEF Bad
  <2> QED BY <1>1, <1>2, Least
<1>4. n \in 1..N /\ n - 1 \in 0..N /\ n - 1 \notin Bad
  BY <1>3
<1> QED BY <1>3, <1>4

\* The same for a recursion whose steps are total on what it goes through.
LEMMA EmptiedIs ==
  ASSUME NEW h \in Heap, NEW section \in [Num -> Cell]
  PROVE  \E g : /\ Emptied(h, section) = g[MaxNum] /\ g[0] = h
                /\ \A n \in 1..MaxNum : g[n] = Drop(g[n - 1], section[n].obj)
                /\ \A n \in 0..MaxNum : g[n] \in Heap
<1> DEFINE N == MaxNum
           step == [y \in Heap \X (1..N) |-> Drop(y[1], section[y[2]].obj)]
           Body(f) == [n \in 0..N |-> IF n = 0 THEN h ELSE Drop(f[n - 1], section[n].obj)]
<1>1. N \in Nat
  BY ObjFinite
<1>2. \A n \in 1..N : section[n].obj \in Obj \cup {NULL}
  BY DEF Num, Cell
<1>3. step \in [Heap \X (1..N) -> Heap]
  <2> SUFFICES ASSUME NEW y \in Heap \X (1..N) PROVE Drop(y[1], section[y[2]].obj) \in Heap
    OBVIOUS
  <2>1. y[1] \in Heap /\ y[2] \in 1..N
    OBVIOUS
  <2> QED BY <1>2, <2>1, DropIs
<1> HIDE DEF N, step
<1>4. PICK g0 \in [0..N -> Heap] : Follows(g0, N, h, step)
  BY <1>1, <1>3, Recursion
<1>5. g0 = Body(g0)
  <2>1. ASSUME NEW n \in 0..N PROVE g0[n] = IF n = 0 THEN h ELSE Drop(g0[n - 1], section[n].obj)
    <3>1. CASE n = 0
      BY <1>4, <3>1 DEF Follows
    <3>2. CASE n # 0
      <4>1. <<g0[n - 1], n>> \in Heap \X (1..N)
        BY <1>1, <1>4, <3>2
      <4>2. g0[n] = step[<<g0[n - 1], n>>]
        BY <1>4, <3>2 DEF Follows
      <4> QED BY <3>2, <4>1, <4>2 DEF step
    <3> QED BY <3>1, <3>2
  <2>2. g0 = [n \in 0..N |-> g0[n]]
    BY <1>4
  <2> QED BY <2>1, <2>2
<1> DEFINE g == CHOOSE f : f = Body(f)
<1>6. Emptied(h, section) = g[MaxNum]
  BY Zenon DEF Emptied, N
<1>7. g = Body(g)
  <2> HIDE DEF Body
  <2> QED BY <1>5, Zenon
<1> HIDE DEF g
<1>8. ASSUME NEW n \in 0..N PROVE g[n] = IF n = 0 THEN h ELSE Drop(g[n - 1], section[n].obj)
  <2>1. Body(g)[n] = IF n = 0 THEN h ELSE Drop(g[n - 1], section[n].obj)
    OBVIOUS
  <2> HIDE DEF Body
  <2> QED BY <1>7, <2>1
<1>9. \A n \in 0..N : n \in {i \in 0..N : g[i] \in Heap}
  <2> DEFINE G == {i \in 0..N : g[i] \in Heap}
  <2>1. 0 \in G
    BY <1>1, <1>8
  <2>2. \A n \in 1..N : n - 1 \in G => n \in G
    BY <1>1, <1>2, <1>8, DropIs
  <2> HIDE DEF G
  <2>3. \A n \in 0..N : n \in G
    BY <1>1, <2>1, <2>2, Climbs
  <2> QED BY <2>3 DEF G
<1>10. \A n \in 1..N : g[n] = Drop(g[n - 1], section[n].obj)
  BY <1>1, <1>8
<1>11. g[0] = h
  BY <1>1, <1>8
<1> QED BY <1>6, <1>9, <1>10, <1>11 DEF N

LEMMA FreedIs ==
  ASSUME NEW h \in Heap, NEW s \in Table
  PROVE  \E g : /\ Freed(h, s) = g[Len(s)] /\ g[0] = h
                /\ \A j \in 1..Len(s) : g[j] = Emptied(g[j - 1], s[j])
                /\ \A j \in 0..Len(s) : g[j] \in Heap
<1> DEFINE N == Len(s)
           step == [y \in Heap \X (1..N) |-> Emptied(y[1], s[y[2]])]
           Body(f) == [n \in 0..N |-> IF n = 0 THEN h ELSE Emptied(f[n - 1], s[n])]
<1>1. N \in Nat /\ \A n \in 1..N : s[n] \in [Num -> Cell]
  BY TableFinite
<1>2. \A x \in Heap, n \in 1..N : Emptied(x, s[n]) \in Heap
  <2> TAKE x \in Heap, n \in 1..N
  <2> DEFINE section == s[n]
  <2>1. section \in [Num -> Cell]
    BY <1>1
  <2> HIDE DEF section
  <2>2. MaxNum \in 0..MaxNum
    BY ObjFinite
  <2>3. Emptied(x, section) \in Heap
    BY <2>1, <2>2, EmptiedIs
  <2> QED BY <2>3 DEF section
<1>3. step \in [Heap \X (1..N) -> Heap]
  <2> SUFFICES ASSUME NEW y \in Heap \X (1..N) PROVE Emptied(y[1], s[y[2]]) \in Heap
    OBVIOUS
  <2>1. y[1] \in Heap /\ y[2] \in 1..N
    OBVIOUS
  <2> QED BY <1>2, <2>1
<1> HIDE DEF N, step
<1>4. PICK g0 \in [0..N -> Heap] : Follows(g0, N, h, step)
  BY <1>1, <1>3, Recursion
<1>5. g0 = Body(g0)
  <2>1. ASSUME NEW n \in 0..N PROVE g0[n] = IF n = 0 THEN h ELSE Emptied(g0[n - 1], s[n])
    <3>1. CASE n = 0
      BY <1>4, <3>1 DEF Follows
    <3>2. CASE n # 0
      <4>1. <<g0[n - 1], n>> \in Heap \X (1..N)
        BY <1>1, <1>4, <3>2
      <4>2. g0[n] = step[<<g0[n - 1], n>>]
        BY <1>4, <3>2 DEF Follows
      <4> QED BY <3>2, <4>1, <4>2 DEF step
    <3> QED BY <3>1, <3>2
  <2>2. g0 = [n \in 0..N |-> g0[n]]
    BY <1>4
  <2> QED BY <2>1, <2>2
<1> DEFINE g == CHOOSE f : f = Body(f)
<1>6. Freed(h, s) = g[N]
  BY Zenon DEF Freed, N
<1>7. g = Body(g)
  <2> HIDE DEF Body
  <2> QED BY <1>5, Zenon
<1> HIDE DEF g
<1>8. ASSUME NEW n \in 0..N PROVE g[n] = IF n = 0 THEN h ELSE Emptied(g[n - 1], s[n])
  <2>1. Body(g)[n] = IF n = 0 THEN h ELSE Emptied(g[n - 1], s[n])
    OBVIOUS
  <2> HIDE DEF Body
  <2> QED BY <1>7, <2>1
<1>9. \A n \in 0..N : g[n] \in Heap
  <2> DEFINE G == {i \in 0..N : g[i] \in Heap}
  <2>1. 0 \in G
    BY <1>1, <1>8
  <2>2. \A n \in 1..N : n - 1 \in G => n \in G
    BY <1>1, <1>2, <1>8
  <2> HIDE DEF G
  <2>3. \A n \in 0..N : n \in G
    BY <1>1, <2>1, <2>2, Climbs
  <2> QED BY <2>3 DEF G
<1>10. \A n \in 1..N : g[n] = Emptied(g[n - 1], s[n])
  BY <1>1, <1>8
<1>11. g[0] = h
  BY <1>1, <1>8
<1> QED BY <1>6, <1>9, <1>10, <1>11 DEF N

\* A document that is closed gives up everything that its entries have.
LEMMA FreedGood ==
  ASSUME NEW s \in Table, NEW k \in Clients, NEW h, Good(h, Ext(s, k)), \A x \in Held : k[x] = NULL
  PROVE  Good(Freed(h, s), [o \in Obj |-> 0])
<1>1. h \in Heap /\ MaxNum \in Nat /\ DOMAIN s = 1..Len(s) /\ Len(s) \in Nat
      /\ \A j \in 1..Len(s) : s[j] \in [Num -> Cell]
  BY ObjFinite, TableFinite DEF Good
<1>2. PICK g : /\ Freed(h, s) = g[Len(s)] /\ g[0] = h
               /\ \A j \in 1..Len(s) : g[j] = Emptied(g[j - 1], s[j])
               /\ \A j \in 0..Len(s) : g[j] \in Heap
  BY <1>1, FreedIs
<1> DEFINE G == {j \in 0..Len(s) : Good(g[j], Ext(Cut(s, j + 1, 0), k))}
<1>3. Cut(s, 0 + 1, 0) = s
  <2>1. ASSUME NEW i \in DOMAIN s, NEW m \in Num PROVE ~ Gone(i, m, 0 + 1, 0)
    BY <1>1 DEF Gone, Num
  <2>2. \A i \in DOMAIN s : s[i] = [m \in Num |-> s[i][m]]
    BY <1>1
  <2>3. \A i \in DOMAIN s :
          [m \in Num |-> IF Gone(i, m, 0 + 1, 0) THEN Blanked(s[i][m]) ELSE s[i][m]] = s[i]
    BY <2>1, <2>2
  <2>4. s = [i \in DOMAIN s |-> s[i]]
    BY TableFinite
  <2> QED BY <2>3, <2>4 DEF Cut
<1>4. 0 \in G
  BY <1>1, <1>2, <1>3
<1>5. ASSUME NEW j \in 1..Len(s), j - 1 \in G PROVE j \in G
  <2>1. Good(g[j - 1], Ext(Cut(s, j, 0), k)) /\ g[j - 1] \in Heap
    <3>1. (j - 1) + 1 = j /\ j - 1 \in 0..Len(s)
      BY <1>1
    <3> QED BY <1>2, <1>5, <3>1
  <2> DEFINE section == s[j]
             h0 == g[j - 1]
  <2>2. section \in [Num -> Cell] /\ h0 \in Heap
    BY <1>1, <2>1
  <2> HIDE DEF section, h0, G
  <2>3. PICK f : /\ Emptied(h0, section) = f[MaxNum] /\ f[0] = h0
                 /\ \A n \in 1..MaxNum : f[n] = Drop(f[n - 1], section[n].obj)
                 /\ \A n \in 0..MaxNum : f[n] \in Heap
    BY <2>2, EmptiedIs
  <2> DEFINE F == {n \in 0..MaxNum : Good(f[n], Ext(Cut(s, j, n), k))}
  <2>4. 0 \in F
    BY <1>1, <2>1, <2>3 DEF h0
  <2>5. ASSUME NEW n \in 1..MaxNum, n - 1 \in F PROVE n \in F
    <3>1. Good(f[n - 1], Ext(Cut(s, j, n - 1), k)) /\ n \in Num /\ j \in DOMAIN s
      BY <1>1, <2>5 DEF Num
    <3>2. Good(Drop(f[n - 1], s[j][n].obj), Ext(Cut(s, j, n), k))
      <4> DEFINE h1 == f[n - 1]
      <4>1. Good(h1, Ext(Cut(s, j, n - 1), k))
        BY <3>1
      <4> HIDE DEF h1
      <4>2. Good(Drop(h1, s[j][n].obj), Ext(Cut(s, j, n), k))
        BY <3>1, <4>1, CutGood
      <4> QED BY <4>2 DEF h1
    <3> QED BY <1>1, <2>3, <3>2 DEF section
  <2> HIDE DEF F
  <2>6. \A n \in 0..MaxNum : n \in F
    BY <1>1, <2>4, <2>5, Climbs
  <2>7. Good(Emptied(h0, section), Ext(Cut(s, j, MaxNum), k))
    BY <1>1, <2>3, <2>6 DEF F
  <2>8. Cut(s, j, MaxNum) = Cut(s, j + 1, 0)
    <3>1. ASSUME NEW i \in DOMAIN s, NEW m \in Num
          PROVE  Gone(i, m, j, MaxNum) <=> Gone(i, m, j + 1, 0)
      BY <1>1 DEF Gone, Num
    <3> QED BY <3>1 DEF Cut
  <2>9. g[j] = Emptied(h0, section) /\ j \in 0..Len(s)
    BY <1>1, <1>2 DEF h0, section
  <2> QED BY <2>7, <2>8, <2>9 DEF G
<1> HIDE DEF G
<1>6. \A j \in 0..Len(s) : j \in G
  BY <1>1, <1>4, <1>5, Climbs
<1>7. Good(g[Len(s)], Ext(Cut(s, Len(s) + 1, 0), k))
  BY <1>1, <1>6 DEF G
<1> DEFINE q == Len(s) + 1
           z == 0
           t == Cut(s, q, z)
<1>8. q \in Nat /\ z \in Nat /\ \A i \in DOMAIN s : i < q
  BY <1>1
<1> HIDE DEF q, z
<1>9. t \in Table /\ DOMAIN t = DOMAIN s /\ \A i \in DOMAIN s, m \in Num : t[i][m].obj = NULL
  <2>1. t \in Table /\ DOMAIN t = DOMAIN s
    BY <1>8, CutIs
  <2>2. ASSUME NEW i \in DOMAIN s, NEW m \in Num PROVE t[i][m].obj = NULL
    <3>1. t[i][m] = Blanked(s[i][m])
      BY <1>8, CutAt DEF Gone
    <3>2. s[i][m] \in Cell
      BY TableFinite
    <3> QED BY <3>1, <3>2 DEF Blanked, Cell
  <2> QED BY <2>1, <2>2
<1> HIDE DEF t
<1>10. Ext(t, k) = [o \in Obj |-> 0]
  BY <1>9, ExtNone
<1> QED BY <1>2, <1>7, <1>10 DEF t, q, z

-----------------------------------------------------------------------------
(* What edits do to objects                                                *)

LEMMA FewerMore ==
  ASSUME NEW e \in [Obj -> Nat], NEW o \in Obj
  PROVE  More(e, o) \in [Obj -> Nat] /\ Fewer(More(e, o), o) = e /\ More(e, o)[o] > 0
         /\ \A p \in Obj : More(e, o)[p] = e[p] + One(p, o)
<1> DEFINE m == More(e, o)
           f == Fewer(m, o)
<1>1. m \in [Obj -> Nat] /\ m[o] = e[o] + 1 /\ \A p \in Obj : p # o => m[p] = e[p]
  BY DEF More
<1>2. \A p \in Obj : m[p] = e[p] + One(p, o)
  BY <1>1 DEF One
<1> HIDE DEF m
<1>3. f = [p \in Obj |-> f[p]] /\ f[o] = m[o] - 1 /\ \A p \in Obj : p # o => f[p] = m[p]
  BY <1>1 DEF Fewer
<1> HIDE DEF f
<1>4. \A p \in Obj : f[p] = e[p]
  BY <1>1, <1>3
<1>5. f = e
  BY <1>3, <1>4
<1> QED BY <1>1, <1>2, <1>5 DEF m, f

\* What is in an object is replaced.
WithInside(h, o, v) == [h EXCEPT ![o].kid = v]
LEMMA KidSet ==
  ASSUME NEW h \in Heap, NEW o \in Obj, NEW v \in Obj \cup {NULL}
  PROVE  /\ WithInside(h, o, v) \in Heap
         /\ \A p \in Obj :
              /\ WithInside(h, o, v)[p].refs = h[p].refs
              /\ WithInside(h, o, v)[p].val = h[p].val
              /\ WithInside(h, o, v)[p].parent = h[p].parent
              /\ WithInside(h, o, v)[p].kid = IF p = o THEN v ELSE h[p].kid
         /\ \A w \in Obj : Count(KidOf(WithInside(h, o, v)), w)
                             = Count(KidOf(h), w) + One(w, v) - One(w, h[o].kid)
<1> DEFINE x == [h[o] EXCEPT !.kid = v]
           g == [h EXCEPT ![o] = x]
<1>1. h[o] \in ObjType /\ x \in ObjType /\ x.kid = v /\ x.refs = h[o].refs /\ x.val = h[o].val
      /\ x.parent = h[o].parent
  BY DEF Heap, ObjType
<1>2. WithInside(h, o, v) = g
  BY DEF Heap, WithInside
<1> HIDE DEF x
<1>3. g \in Heap /\ g[o] = x /\ \A p \in Obj : p # o => g[p] = h[p]
  BY <1>1 DEF Heap
<1>4. ASSUME NEW w \in Obj PROVE Count(KidOf(g), w) = Count(KidOf(h), w) + One(w, v) - One(w, h[o].kid)
  <2>1. Count(KidOf([h EXCEPT ![o] = x]), w) = Count(KidOf(h), w) + One(w, x.kid) - One(w, h[o].kid)
    BY <1>1, KidChanged
  <2> QED BY <1>1, <2>1
<1> HIDE DEF g
<1>5. \A p \in Obj : /\ g[p].refs = h[p].refs /\ g[p].val = h[p].val /\ g[p].parent = h[p].parent
                     /\ g[p].kid = IF p = o THEN v ELSE h[p].kid
  BY <1>1, <1>3
<1> QED BY <1>2, <1>3, <1>4, <1>5

LEMMA KidNull ==
  ASSUME NEW h \in Heap, NEW o \in Obj
  PROVE  /\ WithInside(h, o, NULL) \in Heap
         /\ \A p \in Obj :
              /\ WithInside(h, o, NULL)[p].refs = h[p].refs
              /\ WithInside(h, o, NULL)[p].val = h[p].val
              /\ WithInside(h, o, NULL)[p].parent = h[p].parent
              /\ WithInside(h, o, NULL)[p].kid = IF p = o THEN NULL ELSE h[p].kid
         /\ \A w \in Obj : Count(KidOf(WithInside(h, o, NULL)), w)
                             = Count(KidOf(h), w) + One(w, NULL) - One(w, h[o].kid)
<1> DEFINE v == NULL
<1>1. v \in Obj \cup {NULL}
  OBVIOUS
<1> HIDE DEF v
<1>2. /\ WithInside(h, o, v) \in Heap
      /\ \A p \in Obj :
           /\ WithInside(h, o, v)[p].refs = h[p].refs
           /\ WithInside(h, o, v)[p].val = h[p].val
           /\ WithInside(h, o, v)[p].parent = h[p].parent
           /\ WithInside(h, o, v)[p].kid = IF p = o THEN v ELSE h[p].kid
      /\ \A w \in Obj : Count(KidOf(WithInside(h, o, v)), w)
                          = Count(KidOf(h), w) + One(w, v) - One(w, h[o].kid)
  BY <1>1, KidSet
<1> QED BY Zenon, <1>2 DEF v

\* What is taken out of an object is given up.
Unset(h, o) ==
  IF h[o].kid = NULL THEN h ELSE [Drop(h, h[o].kid) EXCEPT ![o].kid = NULL]
LEMMA UnsetGood ==
  ASSUME NEW h, NEW e, Good(h, e), NEW o \in Obj
  PROVE  /\ Good(Unset(h, o), e) /\ Unset(h, o)[o].kid = NULL
         /\ Unset(h, o)[o].refs = h[o].refs /\ Unset(h, o)[o].val = h[o].val
         /\ Unset(h, o)[o].parent = h[o].parent
         /\ \A p \in Obj : p # o /\ p # h[o].kid => Unset(h, o)[p] = h[p]
         /\ Same([h EXCEPT ![o].kid = NULL], Unset(h, o))
<1> DEFINE k == h[o].kid
           g == [h EXCEPT ![o].kid = NULL]
           m == More(e, k)
           d == Drop(g, k)
<1>1. h \in Heap /\ e \in [Obj -> Nat] /\ NULL \notin Obj /\ k \in Obj \cup {NULL}
  BY GoodIs, ObjFinite DEF Good, ObjType
<1>2. CASE k = NULL
  <2>1. Unset(h, o) = h
    BY <1>2 DEF Unset
  <2>2. Same(g, h)
    <3>1. \A p \in Obj : /\ WithInside(h, o, NULL)[p].val = h[p].val
                         /\ WithInside(h, o, NULL)[p].parent = h[p].parent
                         /\ WithInside(h, o, NULL)[p].kid = IF p = o THEN NULL ELSE h[p].kid
      BY Zenon, <1>1, KidNull
    <3>2. WithInside(h, o, NULL) = g
      BY Zenon DEF WithInside
    <3> HIDE DEF g
    <3> QED BY <1>2, <3>1, <3>2 DEF Same
  <2> QED BY <1>2, <2>1, <2>2
<1>3. CASE k # NULL
  <2>1. k \in Obj /\ h[k].kid = NULL /\ k # o /\ h[k].refs > 0 /\ h[o].refs > 0
        /\ Count(KidOf(h), o) = 0
    BY <1>1, <1>3, GoodIs
  <2>2. /\ g \in Heap
        /\ \A p \in Obj : /\ g[p].refs = h[p].refs /\ g[p].val = h[p].val
                          /\ g[p].parent = h[p].parent
                          /\ g[p].kid = IF p = o THEN NULL ELSE h[p].kid
        /\ \A w \in Obj : Count(KidOf(g), w) = Count(KidOf(h), w) + One(w, NULL) - One(w, k)
    <3>1. WithInside(h, o, NULL) = g
      BY Zenon DEF WithInside
    <3> HIDE DEF g
    <3> QED BY Zenon, <1>1, <3>1, KidNull
  <2>3. m \in [Obj -> Nat] /\ Fewer(m, k) = e /\ m[k] > 0 /\ \A p \in Obj : m[p] = e[p] + One(p, k)
    BY <1>1, <2>1, FewerMore
  <2> HIDE DEF k, g, m
  <2>4. Good(g, m)
    <3>1. ASSUME NEW p \in Obj PROVE g[p].refs = m[p] + Count(KidOf(g), p)
      <4>1. h[p].refs = e[p] + Count(KidOf(h), p) /\ e[p] \in Nat /\ Count(KidOf(h), p) \in Nat
        BY GoodIs
      <4>2. One(p, NULL) = 0 /\ One(p, k) \in Nat
        BY <1>1 DEF One
      <4> QED BY <2>2, <2>3, <4>1, <4>2
    <3>2. \A p \in Obj : /\ g[p].kid # NULL => g[g[p].kid].kid = NULL
                         /\ g[p].refs = 0 => g[p].kid = NULL
      <4> TAKE p \in Obj
      <4>1. g[p].kid # NULL => h[p].kid = g[p].kid /\ h[p].kid \in Obj /\ h[h[p].kid].kid = NULL
        BY <2>2, GoodIs
      <4>2. h[p].refs = 0 => h[p].kid = NULL
        BY DEF Good
      <4> QED BY <2>2, <4>1, <4>2
    <3> QED BY <2>2, <2>3, <3>1, <3>2 DEF Good
  <2>5. Good(d, Fewer(m, k)) /\ Same(g, d)
    BY <2>1, <2>3, <2>4, DropGood
  <2>6. d = Unset(h, o)
    <3>1. g[k].refs = h[k].refs /\ g[k].kid = NULL /\ h[k].kid = NULL
      BY <2>1, <2>2
    <3>2. d = Less(g, k) /\ Drop(h, k) = Less(h, k)
      BY <1>1, <2>1, <3>1 DEF Drop
    <3>3. Unset(h, o) = [Less(h, k) EXCEPT ![o].kid = NULL]
      BY <1>3, <3>2 DEF Unset, k
    <3>4. CASE h[k].refs = 1
      <4>1. Less(g, k) = [g EXCEPT ![k] = Unused] /\ Less(h, k) = [h EXCEPT ![k] = Unused]
        BY <3>1, <3>4 DEF Less
      <4>2. [[h EXCEPT ![k] = Unused] EXCEPT ![o].kid = NULL] = [g EXCEPT ![k] = Unused]
        BY <1>1, <2>1 DEF g, Heap
      <4> QED BY <3>2, <3>3, <4>1, <4>2
    <3>5. CASE h[k].refs # 1
      <4>1. Less(g, k) = [g EXCEPT ![k].refs = @ - 1] /\ Less(h, k) = [h EXCEPT ![k].refs = @ - 1]
        BY <3>1, <3>5 DEF Less
      <4>2. [[h EXCEPT ![k].refs = @ - 1] EXCEPT ![o].kid = NULL] = [g EXCEPT ![k].refs = @ - 1]
        BY <1>1, <2>1 DEF g, Heap
      <4> QED BY <3>2, <3>3, <4>1, <4>2
    <3> QED BY <3>4, <3>5
  <2>7. \A p \in Obj : p # k => d[p] = g[p]
    <3>1. d = Less(g, k)
      BY <1>1, <2>1, <2>2 DEF Drop
    <3> QED BY <2>1, <2>2, <3>1, LessIs
  <2>8. g[o].kid = NULL /\ \A p \in Obj : p # o => g[p] = h[p]
    BY <1>1, <2>2 DEF g, Heap
  <2>9. d[o] = g[o]
    BY <2>1, <2>7
  <2>10. \A p \in Obj : p # o /\ p # k => d[p] = h[p]
    BY <2>7, <2>8
  <2>11. g[o].refs = h[o].refs /\ g[o].val = h[o].val /\ g[o].parent = h[o].parent
    BY <2>2
  <2> HIDE DEF d
  <2> QED BY <2>3, <2>5, <2>6, <2>8, <2>9, <2>10, <2>11 DEF g, k
<1> QED BY <1>2, <1>3

\* What is put into an object that has nothing in it.
LEMMA KidGood ==
  ASSUME NEW h, NEW e, Good(h, e), NEW o \in Obj, h[o].kid = NULL, h[o].refs > 0,
         Count(KidOf(h), o) = 0,
         NEW v \in Obj, v # o, h[v].kid = NULL, h[v].refs > 0
  PROVE  /\ Good(WithInside(Keep(h, v), o, v), e)
         /\ \A p \in Obj :
              /\ WithInside(Keep(h, v), o, v)[p].refs = h[p].refs + One(p, v)
              /\ WithInside(Keep(h, v), o, v)[p].val = h[p].val
              /\ WithInside(Keep(h, v), o, v)[p].parent = h[p].parent
              /\ WithInside(Keep(h, v), o, v)[p].kid = IF p = o THEN v ELSE h[p].kid
<1> DEFINE f == Keep(h, v)
           m == More(e, v)
           g == WithInside(f, o, v)
<1>1. h \in Heap /\ e \in [Obj -> Nat] /\ NULL \notin Obj
  BY ObjFinite DEF Good
<1>2. /\ Good(f, m)
      /\ \A p \in Obj : /\ f[p].kid = h[p].kid /\ f[p].val = h[p].val
                        /\ f[p].parent = h[p].parent
                        /\ f[p].refs = h[p].refs + One(p, v)
  BY KeepGood
<1>3. m[v] > 0 /\ \A p \in Obj : m[p] = e[p] + One(p, v)
  BY <1>1, FewerMore
<1> HIDE DEF f, m
<1>4. f \in Heap /\ v \in Obj \cup {NULL}
  BY <1>2 DEF Good
<1>5. /\ g \in Heap
      /\ \A p \in Obj : /\ g[p].refs = f[p].refs /\ g[p].val = f[p].val
                        /\ g[p].parent = f[p].parent
                        /\ g[p].kid = IF p = o THEN v ELSE f[p].kid
      /\ \A w \in Obj : Count(KidOf(g), w) = Count(KidOf(f), w) + One(w, v) - One(w, f[o].kid)
  BY <1>4, KidSet
<1> HIDE DEF g
<1>6. ASSUME NEW p \in Obj PROVE g[p].refs = e[p] + Count(KidOf(g), p)
  <2>1. f[p].refs = m[p] + Count(KidOf(f), p) /\ Count(KidOf(f), p) \in Nat /\ e[p] \in Nat
    BY <1>1, <1>2, GoodIs
  <2>2. One(p, f[o].kid) = 0 /\ One(p, v) \in Nat
    BY <1>1, <1>2 DEF One
  <2> QED BY <1>3, <1>5, <2>1, <2>2
<1>7. \A p \in Obj : h[p].kid # o
  <2>1. \A p \in Obj : h[p].kid = o => Count(KidOf(h), o) > 0
    BY KidsCount
  <2>2. ~ (0 > 0)
    OBVIOUS
  <2> QED BY <2>1, <2>2
<1>8. ASSUME NEW p \in Obj, g[p].kid # NULL PROVE g[g[p].kid].kid = NULL
  <2>1. CASE p = o
    <3>1. g[p].kid = v /\ g[v].kid = f[v].kid
      BY <1>5, <2>1
    <3> QED BY <1>2, <3>1
  <2>2. CASE p # o
    <3>1. g[p].kid = h[p].kid /\ h[p].kid # NULL
      BY <1>2, <1>5, <1>8, <2>2
    <3>2. h[p].kid \in Obj /\ h[h[p].kid].kid = NULL /\ h[p].kid # o
      BY <1>7, <3>1, GoodIs
    <3> QED BY <1>2, <1>5, <3>1, <3>2
  <2> QED BY <2>1, <2>2
<1>9. ASSUME NEW p \in Obj, g[p].refs = 0 PROVE g[p].kid = NULL
  <2>1. f[p].refs = 0 /\ f[p].refs = h[p].refs + One(p, v) /\ h[p].refs \in Nat
    BY <1>2, <1>5, <1>9, GoodIs
  <2>2. h[p].refs = 0
    BY <2>1 DEF One
  <2>3. p # o /\ h[p].kid = NULL
    BY <2>2 DEF Good
  <2> QED BY <1>2, <1>5, <2>3
<1>10. Good(g, e)
  BY <1>1, <1>5, <1>6, <1>8, <1>9 DEF Good
<1> QED BY <1>2, <1>5, <1>10 DEF f, g

-----------------------------------------------------------------------------
(* What an action has to keep                                              *)

\* The table, the objects and what clients have kept fit together.
Ties(s, l, h, k) ==
  s \in Table /\ k \in Clients /\ Good(h, Ext(s, k)) /\ Shape(s, l) /\ Bare(s)

LEMMA BasicAfter ==
  ASSUME Basic, Ties(sections', len', objs', held'), altered' \in BOOLEAN,
         len' \in FileLen..MaxNum, file.len <= len', UNCHANGED <<arrived, file>>,
         code' \in {"later", "other"}, edits' \in Nat
  PROVE  Basic'
<1>1. /\ sections' \in Table /\ held' \in Clients /\ Good(objs', Ext(sections', held'))
      /\ Shape(sections', len') /\ Bare(sections')
  BY DEF Ties
<1>2. arrived' = arrived /\ file' = file
  OBVIOUS
<1>3. /\ arrived \in [Num -> Nat] /\ \A n \in Num : arrived[n] <= Whole[n]
      /\ file.secs \in Seq([Num -> FileCell]) /\ file.secs # << >>
      /\ file.len \in FileLen..MaxNum /\ Shape(file.secs, file.len)
  BY DEF Basic
<1>4. /\ arrived' \in [Num -> Nat] /\ \A n \in Num : arrived'[n] <= Whole[n]
      /\ file'.secs \in Seq([Num -> FileCell]) /\ file'.secs # << >>
      /\ file'.len \in FileLen..MaxNum /\ Shape(file'.secs, file'.len) /\ file'.len <= len'
  BY <1>2, <1>3
<1> QED BY <1>1, <1>4 DEF Basic

LEMMA TiesNow ==
  ASSUME Basic
  PROVE  /\ Ties(sections, len, objs, held)
         /\ objs \in Heap /\ len \in Nat /\ MaxNum \in Nat /\ FileLen \in Nat
         /\ len \in FileLen..MaxNum /\ file.len <= len /\ edits \in Nat
         /\ code \in {"later", "other"} /\ altered \in BOOLEAN
<1>1. FileLen \in Nat /\ MaxNum \in Nat
  BY StreamsAre, BoundsAssumption
<1> QED BY <1>1 DEF Basic, Ties, Good

\* What an entry or a client has, and what is inside, is alive.
LEMMA Alive ==
  ASSUME NEW s, NEW l, NEW h, NEW k, Ties(s, l, h, k)
  PROVE  /\ \A j \in DOMAIN s, n \in Num : s[j][n].obj \in Obj => h[s[j][n].obj].refs > 0
         /\ \A x \in Held : k[x] \in Obj => h[k[x]].refs > 0
         /\ \A n \in Num : Entry(s, n).obj \in Obj \cup {NULL}
                           /\ (Entry(s, n).obj # NULL => h[Entry(s, n).obj].refs > 0)
<1>1. /\ \A j \in DOMAIN s, n \in Num : s[j][n].obj \in Obj => Ext(s, k)[s[j][n].obj] > 0
      /\ \A x \in Held : k[x] \in Obj => Ext(s, k)[k[x]] > 0
  BY ExtIs DEF Ties
<1>2. Good(h, Ext(s, k)) /\ s \in Table
  BY DEF Ties
<1>3. \A o \in Obj : Ext(s, k)[o] > 0 => h[o].refs > 0
  BY <1>2, GoodIs
<1>4. \A n \in Num : Where(s, n) \in DOMAIN s /\ Entry(s, n) = s[Where(s, n)][n] /\ Entry(s, n) \in Cell
  BY <1>2, EntryIs
<1>5. \A n \in Num : Entry(s, n).obj \in Obj \cup {NULL}
  BY <1>4 DEF Cell
<1> QED BY <1>1, <1>3, <1>4, <1>5

LEMMA KnownAlive ==
  ASSUME Basic, NEW o \in Known \cup Inner
  PROVE  o \in Obj /\ objs[o].refs > 0
<1>1. Ties(sections, len, objs, held) /\ held \in Clients /\ NULL \notin Obj
  BY TiesNow, ObjFinite DEF Ties
<1>2. ASSUME NEW p \in Known PROVE p \in Obj /\ objs[p].refs > 0
  <2>1. p # NULL /\ ((\E h \in Held : p = held[h]) \/ \E n \in Num : p = Entry(sections, n).obj)
    BY DEF Known
  <2>2. \A h \in Held : held[h] \in Obj \cup {NULL}
    BY <1>1 DEF Clients
  <2>3. /\ \A x \in Held : held[x] \in Obj => objs[held[x]].refs > 0
        /\ \A n \in Num : Entry(sections, n).obj \in Obj \cup {NULL}
                          /\ (Entry(sections, n).obj # NULL => objs[Entry(sections, n).obj].refs > 0)
    BY <1>1, Alive
  <2> QED BY <2>1, <2>2, <2>3
<1>3. CASE o \in Known
  BY <1>2, <1>3
<1>4. CASE o \in Inner
  <2>1. PICK p \in Known : o = objs[p].kid /\ o # NULL
    BY <1>4 DEF Inner
  <2>2. p \in Obj /\ Good(objs, Ext(sections, held))
    BY <1>1, <1>2 DEF Ties
  <2>3. objs[p].kid # NULL => objs[p].kid \in Obj /\ objs[objs[p].kid].refs > 0
    BY <2>2, GoodIs
  <2> QED BY <2>1, <2>3
<1> QED BY <1>3, <1>4

-----------------------------------------------------------------------------
(* Reading                                                                 *)

LEMMA StageKeeps ==
  ASSUME NEW s, NEW l, NEW h, NEW k, Ties(s, l, h, k), NEW c, Stage(s, h, k, c)
  PROVE  Ties(c.s, l, c.h, k)
<1>1. /\ s \in Table /\ k \in Clients /\ h \in Heap /\ Shape(s, l) /\ Bare(s)
      /\ Good(c.h, Ext(c.s, k)) /\ c.s \in Table
  BY DEF Ties, Good, Stage, Results
<1>2. DOMAIN c.s = DOMAIN s
  BY DEF Stage, Grown
<1>3. ASSUME NEW j \in DOMAIN s, NEW n \in Num
      PROVE  /\ c.s[j][n].type = s[j][n].type /\ c.s[j][n].ofs = s[j][n].ofs
             /\ c.s[j][n].at = s[j][n].at
             /\ s[j][n].type = "undefined" => c.s[j][n].obj = s[j][n].obj
  <2>1. s[j][n] \in Cell
    BY <1>1, TableFinite
  <2>2. c.s[j][n] = s[j][n] \/ Taken(h, c.h, c.s[j][n], s[j][n])
    BY DEF Stage, Grown
  <2> DEFINE x == c.s[j][n]
             e == s[j][n]
  <2>3. CASE x = e
    BY <2>3
  <2>4. CASE Taken(h, c.h, x, e)
    <3>1. x = [e EXCEPT !.obj = x.obj] /\ e.type # "undefined"
      BY <2>4 DEF Taken
    <3> QED BY <2>1, <3>1 DEF Cell
  <2> QED BY <2>2, <2>3, <2>4
<1>4. \A n \in Num : Entry(c.s, n).type = Entry(s, n).type
  BY <1>1, GrownEntry
<1>5. Bare(c.s)
  BY <1>1, <1>2, <1>3 DEF Bare
<1>6. Streams \in SUBSET Num
  BY StreamsAre
<1>7. Shape(c.s, l)
  BY <1>1, <1>2, <1>3, <1>4, <1>6 DEF Shape
<1> QED BY <1>1, <1>5, <1>7 DEF Ties

LEMMA ThrewCode ==
  ASSUME Basic, NEW err \in {"none", "later", "other"}, Threw(err)
  PROVE  code' \in {"later", "other"}
BY DEF Basic, Threw

LEMMA LoadBasic ==
  ASSUME Basic, NEW n \in Num, NEW h \in Held, Load(n, h)
  PROVE  Basic'
<1> DEFINE c == Cache(n)
           o == Entry(c.s, n).obj
<1>1. /\ Loadable /\ held[h] = NULL /\ sections' = c.s
      /\ (IF c.err = "none" THEN objs' = Keep(c.h, o) /\ held' = [held EXCEPT ![h] = o]
                            ELSE objs' = c.h /\ held' = held)
      /\ Threw(c.err) /\ UNCHANGED <<altered, len, arrived, file, edits>>
  BY DEF Load
<1>2. Stage(sections, objs, held, c) /\ c.err \in {"none", "later", "other"}
      /\ (c.err = "none" => o \in Obj)
  BY <1>1, CacheStage DEF Stages, Results
<1> HIDE DEF c
<1>3. Ties(c.s, len, c.h, held)
  BY <1>2, TiesNow, StageKeeps
<1>4. Ties(sections', len, objs', held')
  <2>1. CASE c.err # "none"
    BY <1>1, <1>3, <2>1
  <2>2. CASE c.err = "none"
    <3>1. o \in Obj /\ objs' = Keep(c.h, o) /\ held' = [held EXCEPT ![h] = o] /\ sections' = c.s
      BY <1>1, <1>2, <2>2
    <3>2. c.h[o].refs > 0 /\ NULL \notin Obj
      BY <1>3, <3>1, Alive, ObjFinite
    <3> HIDE DEF o
    <3>3. c.s \in Table /\ held \in Clients /\ Good(c.h, Ext(c.s, held)) /\ Shape(c.s, len) /\ Bare(c.s)
      BY <1>3 DEF Ties
    <3>4. Good(Keep(c.h, o), More(Ext(c.s, held), o))
      BY <3>1, <3>2, <3>3, KeepGood
    <3>5. held' \in Clients /\ Ext(c.s, held') = More(Ext(c.s, held), o)
      <4>1. /\ [held EXCEPT ![h] = o] \in Clients
            /\ held[h] = NULL => Ext(c.s, [held EXCEPT ![h] = o]) = More(Ext(c.s, held), o)
        BY <3>1, <3>3, ExtHeld
      <4> QED BY <1>1, <3>1, <4>1
    <3> QED BY <3>1, <3>3, <3>4, <3>5 DEF Ties
  <2> QED BY <2>1, <2>2
<1>5. Ties(sections', len', objs', held')
  BY <1>1, <1>4
<1>6. code' \in {"later", "other"}
  BY <1>1, <1>2, ThrewCode
<1> QED BY <1>1, <1>5, <1>6, TiesNow, BasicAfter

LEMMA ResolveBasic ==
  ASSUME Basic, NEW n \in Num, Resolve(n)
  PROVE  Basic'
<1> DEFINE c == Cache(n)
<1>1. /\ Loadable /\ sections' = c.s /\ objs' = c.h
      /\ Threw(c.err) /\ UNCHANGED <<altered, len, held, arrived, file, edits>>
  BY DEF Resolve
<1>2. Stage(sections, objs, held, c) /\ c.err \in {"none", "later", "other"}
  BY <1>1, CacheStage DEF Stages, Results
<1> HIDE DEF c
<1>3. Ties(c.s, len, c.h, held)
  BY <1>2, TiesNow, StageKeeps
<1>4. Ties(sections', len', objs', held')
  BY <1>1, <1>3
<1>5. code' \in {"later", "other"}
  BY <1>1, <1>2, ThrewCode
<1> QED BY <1>1, <1>4, <1>5, TiesNow, BasicAfter

LEMMA ReleaseBasic ==
  ASSUME Basic, NEW h \in Held, Release(h)
  PROVE  Basic' /\ Same(objs, objs')
<1> DEFINE o == held[h]
<1>1. /\ o # NULL /\ objs' = Drop(objs, o) /\ held' = [held EXCEPT ![h] = NULL]
      /\ UNCHANGED <<sections, altered, len, arrived, code, file, edits>>
  BY DEF Release, Reading
<1>2. /\ sections \in Table /\ held \in Clients /\ Good(objs, Ext(sections, held))
      /\ Shape(sections, len) /\ Bare(sections)
  BY DEF Basic
<1>3. o \in Obj
  BY <1>1, <1>2 DEF Clients
<1>4. Ext(sections, held)[o] > 0
  BY <1>2, <1>3, ExtIs
<1>5. held[h] = o
  OBVIOUS
<1> HIDE DEF o
<1>6. Good(Drop(objs, o), Fewer(Ext(sections, held), o)) /\ Same(objs, Drop(objs, o))
  BY <1>2, <1>3, <1>4, DropGood
<1>7. /\ [held EXCEPT ![h] = NULL] \in Clients
      /\ Ext(sections, [held EXCEPT ![h] = NULL]) = Fewer(Ext(sections, held), o)
  BY <1>2, <1>3, <1>5, ExtHeld
<1>8. Ties(sections', len', objs', held')
  BY <1>1, <1>2, <1>6, <1>7 DEF Ties
<1>9. Basic'
  BY <1>1, <1>8, TiesNow, BasicAfter
<1> QED BY <1>1, <1>6, <1>9

LEMMA ArriveBasic ==
  ASSUME Basic, NEW n \in Num, Arrive(n)
  PROVE  Basic'
<1>1. /\ arrived[n] < Whole[n] /\ arrived' = [arrived EXCEPT ![n] = arrived[n] + 1]
      /\ UNCHANGED <<sections, altered, len, objs, held, code, file, edits>>
  BY DEF Arrive
<1>2. arrived \in [Num -> Nat] /\ Whole \in [Num -> Nat] /\ \A m \in Num : arrived[m] <= Whole[m]
  BY WholeIs DEF Basic
<1>3. arrived' \in [Num -> Nat] /\ \A m \in Num : arrived'[m] <= Whole[m]
  BY <1>1, <1>2
<1> QED BY <1>1, <1>3 DEF Basic

-----------------------------------------------------------------------------
(* Edits                                                                   *)

LEMMA AlteredIs ==
  ASSUME Basic, NEW o \in Obj, Altered(o)
  PROVE  /\ sections' \in Table /\ Bare(sections') /\ Shape(sections', len)
         /\ Ext(sections', held) = Ext(sections, held) /\ altered' \in BOOLEAN
         /\ \A m \in Num : SameEntry(sections', sections, m)
<1> DEFINE n == objs[o].parent
<1>1. /\ sections \in Table /\ altered \in BOOLEAN /\ Bare(sections) /\ held \in Clients
      /\ Shape(sections, len) /\ Good(objs, Ext(sections, held)) /\ len \in Nat
  BY TiesNow DEF Basic
<1>2. n \in Num \cup {0}
  BY <1>1, GoodIs DEF ObjType
<1>3. IF n = 0 THEN UNCHANGED <<sections, altered>>
      ELSE sections' = Moved(n) /\ altered' = TRUE
  BY DEF Altered
<1> HIDE DEF n
<1>4. CASE n = 0
  <2>1. sections' = sections /\ altered' = altered
    BY <1>3, <1>4
  <2> QED BY <1>1, <2>1 DEF SameEntry
<1>5. CASE n # 0
  <2>1. sections' = Moved(n) /\ altered' = TRUE /\ n \in Num
    BY <1>2, <1>3, <1>5
  <2>2. /\ Moved(n) \in Table /\ Bare(Moved(n)) /\ Ext(Moved(n), held) = Ext(sections, held)
        /\ \A l \in Nat : Shape(sections, l) => Shape(Moved(n), l)
        /\ \A m \in Num : SameEntry(Moved(n), sections, m)
    BY <1>1, <2>1, MovedIs
  <2> QED BY <1>1, <2>1, <2>2
<1> QED BY <1>4, <1>5

LEMMA EditBasic ==
  ASSUME Basic, NEW o \in Obj, Altered(o), Good(objs', Ext(sections, held)),
         UNCHANGED <<len, held, Reading>>, edits' = edits + 1
  PROVE  Basic'
<1>1. /\ sections' \in Table /\ Bare(sections') /\ Shape(sections', len)
      /\ Ext(sections', held) = Ext(sections, held) /\ altered' \in BOOLEAN
  BY AlteredIs
<1>2. held' = held /\ len' = len /\ held \in Clients
  BY DEF Basic
<1>3. Ties(sections', len', objs', held')
  BY <1>1, <1>2 DEF Ties
<1> QED BY <1>1, <1>2, <1>3, TiesNow, BasicAfter DEF Reading

LEMMA PutBasic ==
  ASSUME Basic, NEW o \in Obj, Put(o), edits' = edits + 1
  PROVE  Basic'
<1>1. Good(objs, Ext(sections, held)) /\ objs \in Heap /\ Fresh \in Nat
  BY TiesNow DEF Basic, Fresh
<1> DEFINE v == Fresh
           g == [objs EXCEPT ![o].val = v]
<1>2. objs' = g /\ Altered(o) /\ UNCHANGED <<len, held, Reading>>
  BY DEF Put
<1> HIDE DEF v
<1>3. g \in Heap /\ \A p \in Obj : g[p].refs = objs[p].refs /\ g[p].kid = objs[p].kid
  <2>1. v \in Nat
    BY <1>1 DEF v
  <2> QED BY <1>1, <2>1 DEF Heap, ObjType
<1> HIDE DEF g
<1>4. Good(g, Ext(sections, held))
  BY <1>1, <1>3, LooksGood
<1> QED BY <1>2, <1>4, EditBasic

LEMMA DelBasic ==
  ASSUME Basic, NEW o \in Obj, Del(o), edits' = edits + 1
  PROVE  Basic'
<1>1. /\ objs[o].kid # NULL /\ objs' = [Drop(objs, objs[o].kid) EXCEPT ![o].kid = NULL]
      /\ Altered(o) /\ UNCHANGED <<len, held, Reading>>
  BY DEF Del
<1>2. objs' = Unset(objs, o)
  BY Zenon, <1>1 DEF Unset
<1>3. Good(objs, Ext(sections, held))
  BY DEF Basic
<1>4. Good(Unset(objs, o), Ext(sections, held))
  BY <1>3, UnsetGood
<1>5. Good(objs', Ext(sections, held))
  BY Zenon, <1>2, <1>4
<1> QED BY <1>1, <1>5, EditBasic

\* A dictionary is put into another one, in place of what is there.
Replaced(h, o, v) == [Keep(Drop(h, h[o].kid), v) EXCEPT ![o].kid = v]
LEMMA ReplacedGood ==
  ASSUME NEW h, NEW e, Good(h, e), NEW o \in Obj, h[o].refs > 0,
         \A p \in Obj : h[p].kid # o,
         NEW v \in Obj, v # o, h[v].kid = NULL, h[v].refs > 0, h[o].kid # v
  PROVE  /\ Good(Replaced(h, o, v), e)
         /\ Replaced(h, o, v) = WithInside(Keep(Unset(h, o), v), o, v)
<1> DEFINE k == h[o].kid
           u == Unset(h, o)
<1>1. /\ Good(u, e) /\ u[o].kid = NULL /\ u[o].refs = h[o].refs
      /\ \A p \in Obj : p # o /\ p # k => u[p] = h[p]
  BY UnsetGood
<1>2. u[v] = h[v]
  BY <1>1
<1>3. Count(KidOf(h), o) = 0
  <2>1. Count(KidOf(h), o) \in Nat /\ (Count(KidOf(h), o) > 0 <=> \E p \in Obj : h[p].kid = o)
    BY KidsCount
  <2> QED BY <2>1
<1>4. Count(KidOf(u), o) = 0
  <2> HIDE DEF u
  <2>1. h[o].refs = e[o] + Count(KidOf(h), o) /\ e[o] \in Nat
    BY GoodIs
  <2>2. u[o].refs = e[o] + Count(KidOf(u), o) /\ Count(KidOf(u), o) \in Nat
    BY <1>1, GoodIs
  <2> QED BY <1>1, <1>3, <2>1, <2>2
<1>5. Good(WithInside(Keep(u, v), o, v), e)
  <2> HIDE DEF u
  <2>1. u[o].refs > 0 /\ u[v].kid = NULL /\ u[v].refs > 0
    BY <1>1, <1>2
  <2> QED BY <1>1, <1>4, <2>1, KidGood
<1>6. Replaced(h, o, v) = WithInside(Keep(u, v), o, v)
  <2>1. CASE k = NULL
    <3>1. u = h /\ Drop(h, k) = h
      BY <2>1 DEF Unset, Drop
    <3> QED BY Zenon, <3>1 DEF Replaced, WithInside
  <2>2. CASE k # NULL
    <3> DEFINE d == Drop(h, k)
    <3>1. u = [d EXCEPT ![o].kid = NULL]
      BY Zenon, <2>2 DEF Unset
    <3>2. h \in Heap /\ k \in Obj
      BY <2>2, GoodIs DEF Good, ObjType
    <3>3. d \in Heap
      BY <3>2, DropIs
    <3> HIDE DEF d, u
    <3>4. WithInside(Keep(u, v), o, v) = [Keep(d, v) EXCEPT ![o].kid = v]
      <4>1. WithInside(Keep(u, v), o, v) = [[u EXCEPT ![v].refs = @ + 1] EXCEPT ![o].kid = v]
        BY DEF WithInside, Keep
      <4>2. [Keep(d, v) EXCEPT ![o].kid = v] = [[d EXCEPT ![v].refs = @ + 1] EXCEPT ![o].kid = v]
        BY DEF Keep
      <4>3. [[u EXCEPT ![v].refs = @ + 1] EXCEPT ![o].kid = v]
              = [[d EXCEPT ![v].refs = @ + 1] EXCEPT ![o].kid = v]
        BY <3>1, <3>3 DEF Heap, ObjType
      <4> QED BY <4>1, <4>2, <4>3
    <3> QED BY <3>4 DEF Replaced, d
  <2> QED BY <2>1, <2>2
<1> QED BY <1>5, <1>6 DEF u

LEMMA PutDictBasic ==
  ASSUME Basic, NEW o \in Obj, NEW v \in Obj, PutDict(o, v), edits' = edits + 1
  PROVE  Basic'
<1> DEFINE put == IF objs[o].kid = v THEN objs
                  ELSE [Keep(Drop(objs, objs[o].kid), v) EXCEPT ![o].kid = v]
           n == objs[o].parent
<1>1. /\ o \in Known /\ v \in Known \cup Inner /\ v # o /\ objs[v].kid = NULL
      /\ o \notin {objs[p].kid : p \in Obj}
      /\ objs' = IF n = 0 THEN put ELSE SetParent(put, v, n)
      /\ Altered(o) /\ UNCHANGED <<len, held, Reading>>
  BY DEF PutDict
<1>2. objs[o].refs > 0 /\ objs[v].refs > 0
  BY <1>1, KnownAlive
<1>3. Good(objs, Ext(sections, held))
  BY DEF Basic
<1>4. Good(put, Ext(sections, held))
  <2>1. CASE objs[o].kid = v
    BY <1>3, <2>1
  <2>2. CASE objs[o].kid # v
    <3>1. Good(Replaced(objs, o, v), Ext(sections, held))
      BY <1>1, <1>2, <1>3, <2>2, ReplacedGood
    <3>2. put = Replaced(objs, o, v)
      BY Zenon, <2>2 DEF Replaced
    <3> HIDE DEF put
    <3> QED BY Zenon, <3>1, <3>2
  <2> QED BY <2>1, <2>2
<1>5. n \in Num \cup {0}
  BY <1>3, GoodIs DEF ObjType
<1> HIDE DEF put, n
<1>6. Good(SetParent(put, v, n), Ext(sections, held))
  BY <1>4, <1>5, SetParentGood
<1>7. Good(objs', Ext(sections, held))
  BY <1>1, <1>4, <1>6
<1> QED BY <1>1, <1>7, EditBasic

LEMMA NewDictBasic ==
  ASSUME Basic, NEW h \in Held, NewDict(h), edits' = edits + 1
  PROVE  /\ Basic' /\ Lives(objs, objs') /\ UNCHANGED sections
         /\ \E o \in Obj : /\ objs[o].refs = 0 /\ objs'[o].refs = 1
                           /\ held' = [held EXCEPT ![h] = o]
                           /\ \A p \in Obj : p # o => objs'[p] = objs[p]
<1> DEFINE c == [Nothing EXCEPT !.val = Fresh]
           n == MaxObj
           new == New(objs, c, n)
<1>1. /\ held[h] = NULL /\ Room(1) /\ objs' = new.h /\ held' = [held EXCEPT ![h] = new.obj]
      /\ UNCHANGED <<sections, altered, len, Reading>>
  BY DEF NewDict
<1>2. c \in Content /\ c.kid = 0 /\ n \in Nat
  <2>1. Fresh \in Nat
    BY TiesNow DEF Fresh
  <2> QED BY <2>1, ObjFinite DEF Content, Nothing
<1>3. /\ sections \in Table /\ held \in Clients /\ Good(objs, Ext(sections, held))
      /\ Shape(sections, len) /\ Bare(sections)
  BY DEF Basic
<1>4. Cardinality(Free(objs)) >= IF c.kid = 0 THEN 1 ELSE 2
  BY <1>1, <1>2 DEF Room
<1> DEFINE o == new.obj
           g == new.h
<1>5. /\ o \in Obj /\ objs[o].refs = 0 /\ Good(g, More(Ext(sections, held), o))
      /\ g[o].refs = 1 /\ \A p \in Obj : p # o => g[p] = objs[p]
  <2> HIDE DEF c, n
  <2>1. /\ o \in Obj /\ objs[o].refs = 0 /\ Good(g, More(Ext(sections, held), o))
        /\ Fits(g, o, c) /\ g[o].parent = 0 /\ g[o].refs = 1
        /\ (g[o].kid # NULL => g[o].kid \in Obj /\ g[o].kid # o /\ objs[g[o].kid].refs = 0
                                /\ g[g[o].kid].parent = 0 /\ g[g[o].kid].kid = NULL)
        /\ \A p \in Obj : p # o /\ p # g[o].kid => g[p] = objs[p]
    BY <1>2, <1>3, <1>4, NewGood
  <2>2. g[o].kid = NULL
    BY <1>2, <2>1 DEF Fits
  <2> QED BY <2>1, <2>2, ObjFinite
<1> HIDE DEF new
<1>6. objs' = g /\ held' = [held EXCEPT ![h] = o]
  BY <1>1
<1> HIDE DEF o, g
<1>7. held' \in Clients /\ Ext(sections, held') = More(Ext(sections, held), o)
  <2>1. /\ [held EXCEPT ![h] = o] \in Clients
        /\ held[h] = NULL => Ext(sections, [held EXCEPT ![h] = o]) = More(Ext(sections, held), o)
    BY <1>3, <1>5, ExtHeld
  <2> QED BY <1>1, <1>6, <2>1
<1>8. Ties(sections', len', objs', held')
  BY <1>1, <1>3, <1>5, <1>6, <1>7 DEF Ties
<1>9. Lives(objs, objs')
  BY <1>5, <1>6, ObjFinite DEF Lives
<1>10. Basic'
  BY <1>1, <1>8, TiesNow, BasicAfter DEF Reading
<1> QED BY <1>1, <1>5, <1>6, <1>9, <1>10

\* What the first section has under a number is given up.
LEMMA FirstGiven ==
  ASSUME NEW s \in Table, NEW k \in Clients, NEW h, Good(h, Ext(s, k)), NEW n \in Num,
         NEW e \in Cell, e.obj = NULL
  PROVE  /\ Good(Drop(h, s[1][n].obj), Ext(SetCell(s, 1, n, e), k))
         /\ Same(h, Drop(h, s[1][n].obj))
<1> DEFINE o == s[1][n].obj
           q == 1
<1>1. q \in DOMAIN s /\ s[q][n] \in Cell /\ o = s[q][n].obj
  BY TableFinite
<1> HIDE DEF q
<1>2. o \in Obj \cup {NULL} /\ NULL \notin Obj
  BY <1>1, ObjFinite DEF Cell
<1>3. CASE o = NULL
  <2>1. Ext(SetCell(s, q, n, e), k) = Ext(s, k)
    <3>1. e.obj = s[q][n].obj
      BY <1>1, <1>3
    <3> HIDE DEF o
    <3> QED BY <1>1, <3>1, ExtCell
  <2>2. Drop(h, o) = h
    BY <1>3 DEF Drop
  <2>3. Same(h, h)
    BY DEF Same
  <2> HIDE DEF o
  <2> QED BY <2>1, <2>2, <2>3 DEF q, o
<1>4. CASE o # NULL
  <2>1. o \in Obj
    BY <1>2, <1>4
  <2>2. Ext(SetCell(s, q, n, e), k) = Fewer(Ext(s, k), o)
    BY <1>1, <2>1, ExtCell
  <2>3. Ext(s, k)[o] > 0
    BY <1>1, <2>1, ExtIs
  <2> HIDE DEF o
  <2>4. Good(Drop(h, o), Fewer(Ext(s, k), o)) /\ Same(h, Drop(h, o))
    BY <2>1, <2>3, DropGood
  <2> QED BY <2>2, <2>4 DEF q, o
<1> QED BY <1>3, <1>4

LEMMA CreateBasic ==
  ASSUME Basic, Create, edits' = edits + 1
  PROVE  Basic'
<1> DEFINE s == Incremental
           e == [NoEntry EXCEPT !.type = "f"]
           n == len + 1
           q == 1
<1>1. /\ n <= MaxNum /\ len' = n /\ altered' = TRUE
      /\ sections' = [s EXCEPT ![q][n] = e] /\ UNCHANGED <<objs, held, Reading>>
  BY TiesNow DEF Create
<1>2. sections' = SetCell(s, q, n, e)
  BY Zenon, <1>1 DEF SetCell
<1>3. /\ sections \in Table /\ altered \in BOOLEAN /\ held \in Clients
      /\ Good(objs, Ext(sections, held)) /\ Shape(sections, len) /\ Bare(sections) /\ len \in Nat
  BY TiesNow DEF Basic
<1>4. /\ s \in Table /\ Bare(s) /\ Ext(s, held) = Ext(sections, held) /\ Shape(s, len)
  BY <1>3, IncrementalIs
<1>5. n \in Num /\ n \in Nat /\ n > len
  BY <1>1, <1>3, ObjFinite DEF Num
<1>6. e \in Cell /\ e.obj = NULL /\ e.type = "f"
  BY DEF NoEntry, Nothing, Cell, Types, Content
<1>7. q \in DOMAIN s
  BY <1>4, TableFinite
<1> HIDE DEF s, e, n, q
<1>8. s[q][n].type = "undefined" /\ s[q][n].obj = NULL
  BY <1>4, <1>5, <1>7 DEF Shape, Bare
<1>9. Ext(SetCell(s, q, n, e), held) = Ext(s, held)
  <2>1. e.obj = s[q][n].obj
    BY <1>6, <1>8
  <2> QED BY <1>3, <1>4, <1>5, <1>6, <1>7, <2>1, ExtCell
<1>10. SetCell(s, q, n, e) \in Table
  BY <1>4, <1>5, <1>6, <1>7, SetCellIs
<1>11. Shape(s, n)
  BY <1>3, <1>4, <1>5 DEF Shape
<1>12. Bare(SetCell(s, q, n, e)) /\ Shape(SetCell(s, q, n, e), n)
  <2>1. /\ Bare(SetCell(s, 1, n, e))
        /\ \A l \in Nat : Shape(s, l) /\ n <= l /\ e.type # "o" => Shape(SetCell(s, 1, n, e), l)
    BY <1>4, <1>5, <1>6, FirstSet
  <2> QED BY <1>5, <1>6, <1>11, <2>1 DEF q
<1>13. Ties(sections', len', objs', held')
  BY <1>1, <1>2, <1>3, <1>4, <1>9, <1>10, <1>12 DEF Ties
<1>14. len' \in FileLen..MaxNum /\ file.len <= len'
  <2>1. len \in FileLen..MaxNum /\ file.len <= len /\ file.len \in FileLen..MaxNum
        /\ FileLen \in Nat /\ MaxNum \in Nat
    BY TiesNow DEF Basic
  <2> QED BY <1>1, <2>1 DEF n
<1> QED BY <1>1, <1>13, <1>14, TiesNow, BasicAfter DEF Reading

LEMMA EditableIs ==
  ASSUME Basic, NEW n \in Editable
  PROVE  n \in Num /\ n <= len /\ n \in Nat /\ n \notin Streams
<1>1. len \in Nat /\ MaxNum \in Nat /\ len <= MaxNum
  BY TiesNow
<1> QED BY <1>1 DEF Editable, Num, Streams

LEMMA DeleteBasic ==
  ASSUME Basic, NEW n \in Num, Delete(n), edits' = edits + 1
  PROVE  Basic' /\ Same(objs, objs')
<1> DEFINE s == Incremental
           e == [NoEntry EXCEPT !.type = "f"]
           q == 1
<1>1. /\ n \in Editable /\ objs' = Drop(objs, s[q][n].obj)
      /\ sections' = [s EXCEPT ![q][n] = e]
      /\ altered' = TRUE /\ UNCHANGED <<len, held, Reading>>
  BY DEF Delete
<1>2. sections' = SetCell(s, q, n, e)
  BY Zenon, <1>1 DEF SetCell
<1>3. /\ sections \in Table /\ altered \in BOOLEAN /\ held \in Clients
      /\ Good(objs, Ext(sections, held)) /\ Shape(sections, len) /\ Bare(sections) /\ len \in Nat
  BY TiesNow DEF Basic
<1>4. /\ s \in Table /\ Bare(s) /\ Ext(s, held) = Ext(sections, held) /\ Shape(s, len)
  BY <1>3, IncrementalIs
<1>5. n \in Nat /\ n <= len
  BY <1>1, EditableIs
<1>6. e \in Cell /\ e.obj = NULL /\ e.type = "f"
  BY DEF NoEntry, Nothing, Cell, Types, Content
<1>7. q \in DOMAIN s
  BY <1>4, TableFinite
<1> HIDE DEF s, e
<1>8. /\ Good(Drop(objs, s[1][n].obj), Ext(SetCell(s, 1, n, e), held))
      /\ Same(objs, Drop(objs, s[1][n].obj))
  BY <1>3, <1>4, <1>6, FirstGiven
<1>9. /\ Bare(SetCell(s, 1, n, e))
      /\ \A l \in Nat : Shape(s, l) /\ n <= l /\ e.type # "o" => Shape(SetCell(s, 1, n, e), l)
  BY <1>4, <1>6, FirstSet
<1> HIDE DEF q
<1>10. SetCell(s, q, n, e) \in Table
  BY <1>4, <1>6, <1>7, SetCellIs
<1>11. Bare(SetCell(s, q, n, e)) /\ Shape(SetCell(s, q, n, e), len)
  BY <1>3, <1>4, <1>5, <1>6, <1>9 DEF q
<1>12. Good(objs', Ext(sections', held)) /\ Same(objs, objs')
  BY <1>1, <1>2, <1>8 DEF q
<1>13. Ties(sections', len', objs', held')
  BY <1>1, <1>2, <1>3, <1>10, <1>11, <1>12 DEF Ties
<1> QED BY <1>1, <1>12, <1>13, TiesNow, BasicAfter DEF Reading

\* An entry that is set twice has what it is set to last.
LEMMA SetTwice ==
  ASSUME NEW s \in Table, NEW j \in DOMAIN s, NEW n \in Num, NEW x \in Cell, NEW e \in Cell
  PROVE  SetCell(SetCell(s, j, n, x), j, n, e) = SetCell(s, j, n, e)
<1>1. s \in [1..Len(s) -> [Num -> Cell]] /\ j \in 1..Len(s)
  BY TableFinite
<1> QED BY <1>1 DEF SetCell

LEMMA UpdateBasic ==
  ASSUME Basic, NEW n \in Num, NEW h \in Held, Update(n, h), edits' = edits + 1
  PROVE  /\ Basic'
         /\ \A p \in Obj : objs'[p].refs # 0 =>
              objs'[p].val = objs[p].val /\ objs'[p].kid = objs[p].kid
              /\ objs'[p].parent = objs[p].parent
<1> DEFINE s == Incremental
           o == held[h]
           q == 1
           x == [NoEntry EXCEPT !.type = "f"]
           e == [s[q][n] EXCEPT !.type = "n", !.ofs = 0, !.obj = o]
           old == s[q][n].obj
           t == SetCell(s, q, n, x)
           d == Drop(objs, old)
<1>1. /\ n \in Editable /\ o # NULL /\ objs' = Keep(d, o)
      /\ sections' = [s EXCEPT ![q][n].type = "n", ![q][n].ofs = 0, ![q][n].obj = o]
      /\ altered' = TRUE /\ UNCHANGED <<len, held, Reading>>
  BY DEF Update
<1>2. /\ sections \in Table /\ altered \in BOOLEAN /\ held \in Clients
      /\ Good(objs, Ext(sections, held)) /\ Shape(sections, len) /\ Bare(sections) /\ len \in Nat
  BY TiesNow DEF Basic
<1>3. /\ s \in Table /\ Bare(s) /\ Ext(s, held) = Ext(sections, held) /\ Shape(s, len)
  BY <1>2, IncrementalIs
<1>4. n \in Nat /\ n <= len
  BY <1>1, EditableIs
<1>5. o \in Obj /\ NULL \notin Obj
  BY <1>1, <1>2, ObjFinite DEF Clients
<1>6. x \in Cell /\ x.obj = NULL /\ x.type = "f"
  BY DEF NoEntry, Nothing, Cell, Types, Content
<1>7. q \in DOMAIN s /\ s[q][n] \in Cell /\ s \in [1..Len(s) -> [Num -> Cell]]
  BY <1>3, TableFinite
<1> HIDE DEF s, x, o
<1>8. e \in Cell /\ e.obj = o /\ e.type = "n"
  BY <1>5, <1>7 DEF Cell, Types
<1>9. sections' = SetCell(s, q, n, e)
  BY <1>1, <1>7 DEF SetCell, Cell
<1>10. Good(Drop(objs, s[1][n].obj), Ext(SetCell(s, 1, n, x), held))
       /\ Same(objs, Drop(objs, s[1][n].obj))
  BY <1>2, <1>3, <1>6, FirstGiven
<1>11. Good(d, Ext(t, held)) /\ Same(objs, d)
  BY <1>10
<1>12. t \in Table /\ t[q][n] = x /\ q \in DOMAIN t
  BY <1>3, <1>6, <1>7, SetCellIs
<1>13. d[o].refs > 0
  <2>1. Ext(t, held)[o] > 0
    <3>1. \A y \in Held : held[y] \in Obj => Ext(t, held)[held[y]] > 0
      BY <1>2, <1>12, ExtIs
    <3> HIDE DEF t
    <3> QED BY <1>5, <3>1 DEF o
  <2> HIDE DEF d, t
  <2> QED BY <1>5, <1>11, <2>1, GoodIs
<1>14. /\ Good(Keep(d, o), More(Ext(t, held), o))
       /\ \A p \in Obj : /\ Keep(d, o)[p].kid = d[p].kid /\ Keep(d, o)[p].val = d[p].val
                         /\ Keep(d, o)[p].parent = d[p].parent
                         /\ Keep(d, o)[p].refs = d[p].refs + One(p, o)
  <2> HIDE DEF d, t
  <2> QED BY <1>5, <1>11, <1>13, KeepGood
<1>15. Ext(SetCell(t, q, n, e), held) = More(Ext(t, held), o)
  <2> HIDE DEF t, e, q
  <2> QED BY <1>2, <1>5, <1>6, <1>8, <1>12, ExtCell
<1>16. SetCell(t, q, n, e) = SetCell(s, q, n, e)
  <2> HIDE DEF e, q
  <2> QED BY <1>3, <1>6, <1>7, <1>8, SetTwice
<1>17. /\ Bare(SetCell(s, 1, n, e))
       /\ \A l \in Nat : Shape(s, l) /\ n <= l /\ e.type # "o" => Shape(SetCell(s, 1, n, e), l)
  <2> HIDE DEF e, q
  <2> QED BY <1>3, <1>8, FirstSet
<1>18. Bare(SetCell(s, q, n, e)) /\ Shape(SetCell(s, q, n, e), len)
  <2>1. e.type # "o"
    BY <1>8
  <2> HIDE DEF e
  <2> QED BY <1>2, <1>3, <1>4, <1>17, <2>1
<1>19. SetCell(s, q, n, e) \in Table
  <2> HIDE DEF e, q
  <2> QED BY <1>3, <1>7, <1>8, SetCellIs
<1>20. Good(objs', Ext(sections', held))
  <2> HIDE DEF e, q, t, d
  <2> QED BY Zenon, <1>1, <1>9, <1>14, <1>15, <1>16
<1>21. Ties(sections', len', objs', held')
  <2> HIDE DEF e, q
  <2>1. len' = len /\ held' = held
    BY <1>1
  <2> QED BY <1>2, <1>9, <1>18, <1>19, <1>20, <2>1 DEF Ties
<1>22. \A p \in Obj : objs'[p].refs # 0 =>
         objs'[p].val = objs[p].val /\ objs'[p].kid = objs[p].kid
         /\ objs'[p].parent = objs[p].parent
  <2> HIDE DEF d, e, q, t
  <2>1. objs' = Keep(d, o)
    BY <1>1
  <2>2. \A p \in Obj : d[p].refs # 0 => d[p].val = objs[p].val /\ d[p].kid = objs[p].kid
                                        /\ d[p].parent = objs[p].parent
    BY <1>11 DEF Same
  <2>3. \A p \in Obj : Keep(d, o)[p].refs # 0 => d[p].refs # 0
    BY <1>13, <1>14 DEF One
  <2> QED BY <1>14, <2>1, <2>2, <2>3
<1>23. Basic'
  BY <1>1, <1>21, TiesNow, BasicAfter DEF Reading
<1> QED BY <1>22, <1>23

\* A stream that is set makes no difference to anything else.
WithBuf(s, j, n, v) == SetCell(s, j, n, [s[j][n] EXCEPT !.buf = v])
LEMMA BufSet ==
  ASSUME NEW s \in Table, NEW j \in DOMAIN s, NEW n \in Num, NEW v \in Nat, NEW k \in Clients
  PROVE  LET t == WithBuf(s, j, n, v)
         IN  /\ t \in Table /\ DOMAIN t = DOMAIN s /\ Ext(t, k) = Ext(s, k)
             /\ Bare(s) => Bare(t)
             /\ \A l \in Nat : Shape(s, l) => Shape(t, l)
             /\ \A m \in Num : Where(t, m) = Where(s, m) /\ Entry(t, m).obj = Entry(s, m).obj
             /\ \A i \in DOMAIN s, m \in Num :
                  t[i][m] = s[i][m] \/ (i = j /\ m = n /\ t[i][m] = [s[i][m] EXCEPT !.buf = v])
<1> DEFINE e == [s[j][n] EXCEPT !.buf = v]
           t == SetCell(s, j, n, e)
<1>1. s[j][n] \in Cell
  BY TableFinite
<1>2. e \in Cell /\ e.obj = s[j][n].obj /\ e.type = s[j][n].type /\ e.ofs = s[j][n].ofs
      /\ e.at = s[j][n].at
  BY <1>1 DEF Cell
<1>3. e = [s[j][n] EXCEPT !.buf = v]
  OBVIOUS
<1> HIDE DEF e
<1>4. /\ t \in Table /\ DOMAIN t = DOMAIN s /\ t[j][n] = e
      /\ \A i \in DOMAIN s, m \in Num : i # j \/ m # n => t[i][m] = s[i][m]
  BY <1>2, SetCellIs
<1>5. Ext(t, k) = Ext(s, k)
  BY <1>2, ExtCell
<1> HIDE DEF t
<1>6. \A i \in DOMAIN s, m \in Num :
         /\ t[i][m].type = s[i][m].type /\ t[i][m].ofs = s[i][m].ofs
         /\ t[i][m].at = s[i][m].at /\ t[i][m].obj = s[i][m].obj
  <2> TAKE i \in DOMAIN s, m \in Num
  <2>1. CASE i = j /\ m = n
    BY <1>2, <1>4, <2>1
  <2>2. CASE i # j \/ m # n
    <3>1. t[i][m] = s[i][m]
      BY <1>4, <2>2
    <3> QED BY <3>1
  <2> QED BY <2>1, <2>2
<1>7. \A m \in Num : Where(t, m) = Where(s, m)
  BY <1>4, <1>6, WhereSame
<1>8. \A m \in Num : /\ Entry(t, m).obj = Entry(s, m).obj /\ Entry(t, m).type = Entry(s, m).type
  <2> TAKE m \in Num
  <2>1. Where(s, m) \in DOMAIN s
    BY EntryIs
  <2>2. t[Where(s, m)][m].obj = s[Where(s, m)][m].obj /\ t[Where(s, m)][m].type = s[Where(s, m)][m].type
    BY <1>6, <2>1
  <2> QED BY <1>7, <2>2 DEF Entry
<1>9. Bare(s) => Bare(t)
  BY <1>4, <1>6 DEF Bare
<1>10. Streams \in SUBSET Num
  BY StreamsAre
<1>11. \A l \in Nat : Shape(s, l) => Shape(t, l)
  BY <1>4, <1>6, <1>8, <1>10 DEF Shape
<1>12. \A i \in DOMAIN s, m \in Num :
         t[i][m] = s[i][m] \/ (i = j /\ m = n /\ t[i][m] = [s[i][m] EXCEPT !.buf = v])
  BY <1>3, <1>4
<1>13. WithBuf(s, j, n, v) = t
  BY Zenon DEF WithBuf, t, e
<1> QED BY <1>4, <1>5, <1>7, <1>8, <1>9, <1>11, <1>12, <1>13

LEMMA UpdateStreamBasic ==
  ASSUME Basic, NEW n \in Num, UpdateStream(n), edits' = edits + 1
  PROVE  Basic' /\ \A m \in Num : Entry(sections', m).obj = Entry(sections, m).obj
<1> DEFINE s == IF StreamsMove THEN Moved(n) ELSE sections
           j == Where(s, n)
           v == Fresh
<1>1. /\ sections' = [s EXCEPT ![j][n].buf = v]
      /\ altered' = (altered \/ StreamsMove) /\ UNCHANGED <<len, objs, held, Reading>>
  BY DEF UpdateStream
<1>2. /\ sections \in Table /\ altered \in BOOLEAN /\ held \in Clients
      /\ Good(objs, Ext(sections, held)) /\ Shape(sections, len) /\ Bare(sections) /\ len \in Nat
  BY TiesNow DEF Basic
<1>3. /\ s \in Table /\ Bare(s) /\ Ext(s, held) = Ext(sections, held) /\ Shape(s, len)
      /\ \A m \in Num : Entry(s, m).obj = Entry(sections, m).obj
  <2>1. CASE StreamsMove
    <3>1. /\ Moved(n) \in Table /\ Bare(Moved(n)) /\ Ext(Moved(n), held) = Ext(sections, held)
          /\ \A l \in Nat : Shape(sections, l) => Shape(Moved(n), l)
          /\ \A m \in Num : SameEntry(Moved(n), sections, m)
      BY <1>2, MovedIs
    <3> QED BY <1>2, <2>1, <3>1 DEF SameEntry
  <2>2. CASE ~StreamsMove
    BY <1>2, <2>2
  <2> QED BY <2>1, <2>2
<1>4. v \in Nat
  BY TiesNow DEF Fresh
<1> HIDE DEF s, v
<1>5. j \in DOMAIN s /\ s \in [1..Len(s) -> [Num -> Cell]] /\ s[j][n] \in Cell
  BY <1>3, EntryIs, TableFinite
<1> HIDE DEF j
<1> DEFINE t == WithBuf(s, j, n, v)
<1>6. sections' = t
  BY <1>1, <1>5 DEF SetCell, Cell, WithBuf
<1>7. /\ t \in Table /\ Ext(t, held) = Ext(s, held) /\ (Bare(s) => Bare(t))
      /\ \A l \in Nat : Shape(s, l) => Shape(t, l)
      /\ \A m \in Num : Entry(t, m).obj = Entry(s, m).obj
  <2>1. s \in Table /\ j \in DOMAIN s /\ v \in Nat /\ held \in Clients
    BY <1>2, <1>3, <1>4, <1>5
  <2>2. /\ t \in Table /\ DOMAIN t = DOMAIN s /\ Ext(t, held) = Ext(s, held)
        /\ (Bare(s) => Bare(t))
        /\ \A l \in Nat : Shape(s, l) => Shape(t, l)
        /\ \A m \in Num : Where(t, m) = Where(s, m) /\ Entry(t, m).obj = Entry(s, m).obj
    BY <2>1, BufSet
  <2> QED BY <2>2
<1> HIDE DEF t
<1>8. Ties(sections', len', objs', held')
  BY <1>1, <1>2, <1>3, <1>6, <1>7 DEF Ties
<1>9. altered' \in BOOLEAN
  BY <1>1
<1>10. Basic'
  BY <1>1, <1>8, <1>9, TiesNow, BasicAfter DEF Reading
<1> QED BY <1>3, <1>6, <1>7, <1>10

-----------------------------------------------------------------------------
(* Saving and opening                                                      *)

LEMMA ValueIs ==
  ASSUME Basic, NEW n \in Num
  PROVE  Value(n) \in Content
<1> DEFINE e == Entry(sections, n)
           stm == IF e.buf # 0 THEN e.buf ELSE e.at.stm
           o == e.obj
           k == objs[o].kid
<1>1. e \in Cell /\ Good(objs, Ext(sections, held))
  BY EntryIs DEF Basic
<1>2. /\ e.at \in Content /\ e.obj \in Obj \cup {NULL} /\ stm \in Nat
      /\ [e.at EXCEPT !.stm = stm] \in Content /\ Nothing \in Content
  BY <1>1 DEF Cell, Content, Nothing
<1>3. o # NULL => objs[o].val \in Nat /\ (k # NULL => objs[k].val \in Nat)
  BY <1>1, <1>2, GoodIs DEF ObjType
<1>4. Value(n) = IF n > len \/ e.type \in {"undefined", "f"} THEN Nothing
                 ELSE IF o = NULL THEN [e.at EXCEPT !.stm = stm]
                 ELSE [val |-> objs[o].val, stm |-> stm,
                       kid |-> IF k = NULL THEN 0 ELSE objs[k].val]
  BY Zenon DEF Value
<1>5. o # NULL => [val |-> objs[o].val, stm |-> stm,
                   kid |-> IF k = NULL THEN 0 ELSE objs[k].val] \in Content
  BY <1>2, <1>3 DEF Content
<1> HIDE DEF e, stm, o, k
<1> QED BY <1>2, <1>4, <1>5

\* A section that is put in front of a file.
LEMMA AppendedShape ==
  ASSUME NEW f \in Seq([Num -> FileCell]), f # << >>, NEW x \in [Num -> FileCell],
         NEW l \in Nat, NEW q \in Nat, q <= l, Shape(f, q),
         \A n \in Num : x[n].type # "o" /\ (n > l => x[n].type = "undefined")
  PROVE  <<x>> \o f \in Seq([Num -> FileCell]) /\ <<x>> \o f # << >> /\ Shape(<<x>> \o f, l)
<1> DEFINE t == <<x>> \o f
<1>1. t \in Seq([Num -> FileCell]) /\ t # << >> /\ Len(t) = Len(f) + 1 /\ t[1] = x
      /\ DOMAIN t = 1..Len(f) + 1 /\ DOMAIN f = 1..Len(f) /\ Len(f) \in Nat
      /\ \A j \in 2..Len(f) + 1 : t[j] = f[j - 1]
  OBVIOUS
<1>2. ASSUME NEW m \in Streams PROVE Entry(t, m).type # "undefined"
  <2>1. Entry(f, m).type # "undefined"
    BY DEF Shape
  <2>2. f[Where(f, m)][m].type # "undefined"
    BY <2>1 DEF Entry
  <2>3. f[Where(f, m)][m].type # "undefined" \/ x[m].type # "undefined" =>
          Entry(t, m) = IF x[m].type # "undefined" THEN x[m] ELSE Entry(f, m)
    BY WherePushed
  <2> QED BY <2>1, <2>2, <2>3
<1> HIDE DEF t
<1>3. ASSUME NEW j \in DOMAIN t, NEW n \in Num
      PROVE  /\ n > l => t[j][n].type = "undefined"
             /\ t[j][n].type = "o" => t[j][n].ofs \in Streams /\ Tells(t[j][n].ofs, n, t[j][n].at)
  <2>1. CASE j = 1
    BY <1>1, <2>1
  <2>2. CASE j # 1
    <3>1. j \in 2..Len(f) + 1 /\ t[j] = f[j - 1] /\ j - 1 \in DOMAIN f
      BY <1>1, <2>2
    <3> DEFINE i == j - 1
    <3>2. i \in DOMAIN f /\ t[j] = f[i]
      BY <3>1
    <3> HIDE DEF i
    <3>3. n > l => n > q
      BY DEF Num
    <3> QED BY <3>2, <3>3 DEF Shape
  <2> QED BY <2>1, <2>2
<1>4. Shape(t, l)
  BY <1>2, <1>3 DEF Shape
<1> QED BY <1>1, <1>4 DEF t

\* What an incremental save writes under number n.
Section == [n \in Num |->
  CASE ~IsIncremental(n) -> [type |-> "undefined", ofs |-> 0, at |-> Nothing]
    [] IsIncremental(n) /\ sections[1][n].type = "f" ->
         [type |-> "f", ofs |-> 0, at |-> Nothing]
    [] OTHER -> [type |-> "n", ofs |-> n, at |-> Value(n)]]
LEMMA SectionIs ==
  ASSUME Basic
  PROVE  /\ Section \in [Num -> FileCell]
         /\ \A n \in Num :
              /\ ~IsIncremental(n) => Section[n] = [type |-> "undefined", ofs |-> 0, at |-> Nothing]
              /\ IsIncremental(n) /\ sections[1][n].type = "f" =>
                   Section[n] = [type |-> "f", ofs |-> 0, at |-> Nothing]
              /\ IsIncremental(n) /\ sections[1][n].type # "f" =>
                   Section[n] = [type |-> "n", ofs |-> n, at |-> Value(n)]
         /\ \A n \in Num : Section[n].type # "o" /\ (n > len => Section[n].type = "undefined")
<1>1. Section = [n \in Num |-> Section[n]]
  BY DEF Section
<1>2. ASSUME NEW n \in Num
      PROVE  /\ ~IsIncremental(n) => Section[n] = [type |-> "undefined", ofs |-> 0, at |-> Nothing]
             /\ IsIncremental(n) /\ sections[1][n].type = "f" =>
                  Section[n] = [type |-> "f", ofs |-> 0, at |-> Nothing]
             /\ IsIncremental(n) /\ sections[1][n].type # "f" =>
                  Section[n] = [type |-> "n", ofs |-> n, at |-> Value(n)]
  <2> DEFINE i == IsIncremental(n)
             f == sections[1][n].type = "f"
             v == Value(n)
  <2>1. Section[n] =
           CASE ~i -> [type |-> "undefined", ofs |-> 0, at |-> Nothing]
             [] i /\ f -> [type |-> "f", ofs |-> 0, at |-> Nothing]
             [] OTHER -> [type |-> "n", ofs |-> n, at |-> v]
    BY DEF Section
  <2> HIDE DEF i, f, v
  <2>2. /\ ~i => Section[n] = [type |-> "undefined", ofs |-> 0, at |-> Nothing]
        /\ i /\ f => Section[n] = [type |-> "f", ofs |-> 0, at |-> Nothing]
        /\ i /\ ~f => Section[n] = [type |-> "n", ofs |-> n, at |-> v]
    BY <2>1
  <2> QED BY <2>2 DEF i, f, v
<1>3. Nothing \in Content /\ \A n \in Num : Value(n) \in Content
  BY ValueIs DEF Nothing, Content
<1>4. ASSUME NEW n \in Num PROVE Section[n] \in FileCell
  <2>1. /\ [type |-> "undefined", ofs |-> 0, at |-> Nothing] \in FileCell
        /\ [type |-> "f", ofs |-> 0, at |-> Nothing] \in FileCell
        /\ [type |-> "n", ofs |-> n, at |-> Value(n)] \in FileCell
    BY <1>3 DEF FileCell, Types
  <2> QED BY <1>2, <2>1
<1>5. ASSUME NEW n \in Num PROVE Section[n].type # "o" /\ (n > len => Section[n].type = "undefined")
  <2>1. n > len => ~IsIncremental(n)
    <3>1. sections \in Table /\ Shape(sections, len)
      BY DEF Basic
    <3>2. n > len => sections[1][n].type = "undefined"
      BY <3>1, TableFinite DEF Shape
    <3> QED BY <3>2 DEF IsIncremental
  <2>2. CASE ~IsIncremental(n)
    <3>1. Section[n] = [type |-> "undefined", ofs |-> 0, at |-> Nothing]
      BY Zenon, <1>2, <2>2
    <3> QED BY <3>1
  <2>3. CASE IsIncremental(n) /\ sections[1][n].type = "f"
    <3>1. Section[n] = [type |-> "f", ofs |-> 0, at |-> Nothing]
      BY Zenon, <1>2, <2>3
    <3> QED BY <2>1, <2>3, <3>1
  <2>4. CASE IsIncremental(n) /\ sections[1][n].type # "f"
    <3>1. Section[n] = [type |-> "n", ofs |-> n, at |-> Value(n)]
      BY Zenon, <1>2, <2>4
    <3> QED BY <2>1, <2>4, <3>1
  <2> QED BY <2>2, <2>3, <2>4
<1> HIDE DEF Section
<1> QED BY <1>1, <1>2, <1>4, <1>5

LEMMA SaveBasic ==
  ASSUME Basic, SaveIncremental
  PROVE  Basic'
<1>1. /\ file' = [secs |-> <<Section>> \o file.secs, len |-> len]
      /\ UNCHANGED <<sections, altered, len, objs, held, arrived, code, edits>>
  BY Zenon DEF SaveIncremental, Section
<1>2. /\ file.secs \in Seq([Num -> FileCell]) /\ file.secs # << >> /\ Shape(file.secs, file.len)
      /\ len \in Nat /\ file.len \in Nat /\ file.len <= len /\ len \in FileLen..MaxNum
  BY TiesNow DEF Basic
<1>3. /\ Section \in [Num -> FileCell]
      /\ \A n \in Num : Section[n].type # "o" /\ (n > len => Section[n].type = "undefined")
  BY SectionIs
<1> DEFINE x == Section
           f == file.secs
           q == file.len
<1> HIDE DEF x, f, q
<1>4. <<x>> \o f \in Seq([Num -> FileCell]) /\ <<x>> \o f # << >> /\ Shape(<<x>> \o f, len)
  BY <1>2, <1>3, AppendedShape DEF x, f, q
<1>5. file'.secs = <<x>> \o f /\ file'.len = len
  BY <1>1 DEF x, f
<1>6. /\ file'.secs \in Seq([Num -> FileCell]) /\ file'.secs # << >>
      /\ file'.len \in FileLen..MaxNum /\ file'.len <= len' /\ Shape(file'.secs, file'.len)
  <2> DEFINE g == <<x>> \o f
  <2>1. g \in Seq([Num -> FileCell]) /\ g # << >> /\ Shape(g, len) /\ file'.secs = g
    BY <1>4, <1>5
  <2> HIDE DEF g
  <2>2. len' = len /\ file'.len = len
    BY <1>1, <1>5
  <2>3. Shape(file'.secs, file'.len)
    BY Zenon, <2>1, <2>2
  <2> QED BY <1>2, <2>1, <2>2, <2>3
<1>7. /\ sections' \in Table /\ altered' \in BOOLEAN /\ len' \in FileLen..MaxNum
      /\ held' \in Clients /\ code' \in {"later", "other"} /\ edits' \in Nat
      /\ arrived' \in [Num -> Nat] /\ (\A n \in Num : arrived'[n] <= Whole[n])
      /\ Good(objs', Ext(sections', held'))
      /\ Shape(sections', len') /\ Bare(sections')
  BY <1>1 DEF Basic
<1> QED BY <1>6, <1>7 DEF Basic

LEMMA ReopenBasic ==
  ASSUME Basic, Reopen
  PROVE  Basic'
<1>1. /\ \A h \in Held : held[h] = NULL
      /\ objs' = Freed(objs, sections) /\ sections' = Read(file.secs)
      /\ altered' = FALSE /\ len' = file.len
      /\ UNCHANGED <<held, arrived, code, file, edits>>
  BY DEF Reopen
<1>2. /\ sections \in Table /\ held \in Clients /\ Good(objs, Ext(sections, held))
      /\ file.secs \in Seq([Num -> FileCell]) /\ file.secs # << >>
      /\ file.len \in FileLen..MaxNum /\ Shape(file.secs, file.len)
  BY DEF Basic
<1>3. Good(Freed(objs, sections), [o \in Obj |-> 0])
  BY <1>1, <1>2, FreedGood
<1> DEFINE t == Read(file.secs)
<1>4. /\ t \in Table /\ Bare(t) /\ Shape(t, file.len)
      /\ \A j \in DOMAIN t, n \in Num : t[j][n].obj = NULL
  BY <1>2, ReadIs
<1> HIDE DEF t
<1>5. Ext(t, held) = [o \in Obj |-> 0]
  BY <1>1, <1>2, <1>4, ExtNone
<1>6. Ties(sections', len', objs', held')
  BY <1>1, <1>2, <1>3, <1>4, <1>5 DEF Ties, t
<1>7. file.len <= file.len
  BY <1>2, TiesNow
<1> QED BY <1>1, <1>2, <1>6, <1>7, TiesNow, BasicAfter

-----------------------------------------------------------------------------
(* What holds in every state                                               *)

LEMMA EditsBasic ==
  ASSUME Basic, Edits
  PROVE  Basic'
<1>1. edits' = edits + 1
  BY DEF Edits
<1>2. ASSUME NEW o \in Obj, Put(o) PROVE Basic'
  BY <1>1, <1>2, PutBasic
<1>3. ASSUME NEW o \in Obj, Del(o) PROVE Basic'
  BY <1>1, <1>3, DelBasic
<1>4. ASSUME NEW o \in Obj, NEW v \in Obj, PutDict(o, v) PROVE Basic'
  BY <1>1, <1>4, PutDictBasic
<1>5. ASSUME NEW h \in Held, NewDict(h) PROVE Basic'
  BY <1>1, <1>5, NewDictBasic
<1>6. ASSUME Create PROVE Basic'
  BY <1>1, <1>6, CreateBasic
<1>7. ASSUME NEW n \in Num, Delete(n) PROVE Basic'
  BY <1>1, <1>7, DeleteBasic
<1>8. ASSUME NEW n \in Num, UpdateStream(n) PROVE Basic'
  BY <1>1, <1>8, UpdateStreamBasic
<1>9. ASSUME NEW n \in Num, NEW h \in Held, Update(n, h) PROVE Basic'
  BY <1>1, <1>9, UpdateBasic
<1>10. \/ \E o \in Obj : Put(o) \/ Del(o) \/ \E v \in Obj : PutDict(o, v)
       \/ \E h \in Held : NewDict(h)
       \/ Create
       \/ \E n \in Num : Delete(n) \/ UpdateStream(n) \/ \E h \in Held : Update(n, h)
  BY DEF Edits
<1> QED BY Zenon, <1>2, <1>3, <1>4, <1>5, <1>6, <1>7, <1>8, <1>9, <1>10

LEMMA ReadsBasic ==
  ASSUME Basic, Reads
  PROVE  Basic'
<1>1. ASSUME NEW n \in Num, Resolve(n) PROVE Basic'
  BY <1>1, ResolveBasic
<1>2. ASSUME NEW n \in Num, Arrive(n) PROVE Basic'
  BY <1>2, ArriveBasic
<1>3. ASSUME NEW n \in Num, NEW h \in Held, Load(n, h) PROVE Basic'
  BY <1>3, LoadBasic
<1>4. ASSUME NEW h \in Held, Release(h) PROVE Basic'
  BY <1>4, ReleaseBasic
<1>5. \/ \E n \in Num : Resolve(n) \/ Arrive(n) \/ \E h \in Held : Load(n, h)
      \/ \E h \in Held : Release(h)
  BY DEF Reads
<1> QED BY Zenon, <1>1, <1>2, <1>3, <1>4, <1>5

LEMMA BasicStays ==
  ASSUME Basic, [Next]_vars
  PROVE  Basic'
<1>1. CASE Reads
  BY <1>1, ReadsBasic
<1>2. CASE Edits
  BY <1>2, EditsBasic
<1>3. CASE SaveIncremental
  BY <1>3, SaveBasic
<1>4. CASE Reopen
  BY <1>4, ReopenBasic
<1>5. CASE UNCHANGED vars
  <2>1. UNCHANGED <<sections, altered, len, objs, held, arrived, code, file, edits>>
    BY <1>5 DEF vars
  <2> QED BY <2>1 DEF Basic
<1> QED BY <1>1, <1>2, <1>3, <1>4, <1>5 DEF Next

\* The table, the objects and the file fit together, whatever is loaded, edited,
\* saved and opened again: entries have the type and place that the layout
\* allows, numbers beyond the end have nothing, and what is counted is there.
THEOREM BasicHolds == Spec => []Basic
<1>1. Init => Basic
  BY InitBasic
<1>2. Basic /\ [Next]_vars => Basic'
  BY BasicStays
<1> QED BY <1>1, <1>2, PTL DEF Spec

\* The entries that have an object are as many as it is counted for in the table.
LEMMA CountsAre ==
  ASSUME Basic
  PROVE  RefsExact
<1>1. ASSUME NEW o \in Obj
      PROVE  objs[o].refs = Cardinality({x \in (DOMAIN sections) \X Num : sections[x[1]][x[2]].obj = o})
                            + Cardinality({p \in Obj : objs[p].kid = o})
                            + Cardinality({h \in Held : held[h] = o})
  <2>1. sections \in Table /\ held \in Clients /\ Good(objs, Ext(sections, held))
    BY DEF Basic
  <2>2. objs[o].refs = Count(ObjAt(sections), o) + Count(held, o) + Count(KidOf(objs), o)
        /\ Count(KidOf(objs), o) \in Nat /\ Ext(sections, held)[o] \in Nat
    BY <2>1, GoodIs DEF Ext
  <2>3. Count(ObjAt(sections), o) = Cardinality({x \in (DOMAIN sections) \X Num : sections[x[1]][x[2]].obj = o})
    <3>1. DOMAIN ObjAt(sections) = (DOMAIN sections) \X Num
      BY DEF ObjAt
    <3>2. \A x \in (DOMAIN sections) \X Num : ObjAt(sections)[x] = sections[x[1]][x[2]].obj
      BY DEF ObjAt
    <3>3. {x \in DOMAIN ObjAt(sections) : ObjAt(sections)[x] = o}
            = {x \in (DOMAIN sections) \X Num : sections[x[1]][x[2]].obj = o}
      BY <3>1, <3>2
    <3> QED BY <3>3 DEF Count
  <2>4. Count(KidOf(objs), o) = Cardinality({p \in Obj : objs[p].kid = o})
    <3>1. {p \in DOMAIN KidOf(objs) : KidOf(objs)[p] = o} = {p \in Obj : objs[p].kid = o}
      BY DEF KidOf
    <3> QED BY <3>1 DEF Count
  <2>5. Count(held, o) = Cardinality({h \in Held : held[h] = o})
    <3>1. DOMAIN held = Held
      BY <2>1 DEF Clients
    <3> QED BY <3>1 DEF Count
  <2>6. Count(ObjAt(sections), o) \in Nat /\ Count(held, o) \in Nat
    <3>1. IsFiniteSet(DOMAIN ObjAt(sections)) /\ IsFiniteSet(DOMAIN held)
      BY <2>1, TableFinite, BoundsAssumption DEF Clients
    <3> QED BY <3>1, CountNat
  <2> QED BY <2>2, <2>3, <2>4, <2>5, <2>6
<1> QED BY <1>1 DEF RefsExact

\* An object is freed when the last entry, dictionary and client that refers to
\* it has dropped it (pdf_keep_obj, pdf_drop_obj), in the table, in dictionaries
\* and in the hands of clients.
THEOREM RefsExactHolds == Spec => []RefsExact
<1>1. Basic => RefsExact
  BY CountsAre
<1> QED BY <1>1, BasicHolds, PTL

-----------------------------------------------------------------------------
(* What has been lent                                                      *)

\* The entry of n has the object that it had.
Stays(n) == Entry(sections, n).obj # NULL => Entry(sections', n).obj = Entry(sections, n).obj

LEMMA StagedStays ==
  ASSUME Basic, Loadable, NEW q \in Num, sections' = Cache(q).s, NEW n \in Num
  PROVE  Stays(n)
<1> DEFINE c == Cache(q)
<1>1. Stage(sections, objs, held, c)
  BY CacheStage DEF Stages
<1>2. sections \in Table /\ objs \in Heap /\ held \in Clients
  BY TiesNow DEF Basic
<1> HIDE DEF c
<1>3. \/ Entry(c.s, n) = Entry(sections, n)
      \/ Taken(objs, c.h, Entry(c.s, n), Entry(sections, n))
  BY <1>1, <1>2, GrownEntry
<1>4. Entry(c.s, n).obj = Entry(sections, n).obj \/ Entry(sections, n).obj = NULL
  BY <1>3 DEF Taken
<1>5. sections' = c.s
  BY DEF c
<1> QED BY <1>4, <1>5 DEF Stays

LEMMA AlteredStays ==
  ASSUME Basic, NEW o \in Obj, Altered(o), NEW n \in Num
  PROVE  Stays(n)
<1>1. SameEntry(sections', sections, n)
  BY AlteredIs
<1> QED BY <1>1 DEF SameEntry, Stays

\* Number n has an entry in the section for changes.
Inc(s, a, n) == a /\ s[1][n].type # "undefined"
\* The entry of m in the first section, one for changes, is set to e.
Sets(m, e) ==
  e \in Cell /\ e.type # "undefined" /\ sections' = SetCell(Incremental, 1, m, e) /\ altered' = TRUE
Off == [NoEntry EXCEPT !.type = "f"]
LEMMA OffIs == Off \in Cell /\ Off.type = "f" /\ Off.obj = NULL
  BY DEF Off, NoEntry, Nothing, Cell, Types, Content

LEMMA CreateSets ==
  ASSUME Basic, Create
  PROVE  /\ Sets(len + 1, Off) /\ len + 1 \in Num /\ Entry(sections, len + 1).type = "undefined"
         /\ \A j \in DOMAIN sections : sections[j][len + 1].type = "undefined"
<1> DEFINE m == len + 1
           q == 1
<1>1. sections' = [Incremental EXCEPT ![q][m] = Off] /\ m <= MaxNum /\ altered' = TRUE
  BY TiesNow DEF Create, Off
<1>2. sections' = SetCell(Incremental, q, m, Off)
  BY Zenon, <1>1 DEF SetCell
<1>3. len \in Nat /\ sections \in Table /\ Shape(sections, len)
  BY TiesNow DEF Basic
<1>4. m \in Num /\ m > len
  BY <1>1, <1>3, ObjFinite DEF Num
<1> HIDE DEF m
<1>5. \A j \in DOMAIN sections : sections[j][m].type = "undefined"
  BY <1>3, <1>4 DEF Shape
<1>6. Entry(sections, m).type = "undefined"
  BY <1>3, <1>4, <1>5, EntryIs
<1> QED BY <1>1, <1>2, <1>4, <1>5, <1>6, OffIs DEF Sets, m, q

LEMMA DeleteSets ==
  ASSUME Basic, NEW m \in Num, Delete(m)
  PROVE  Sets(m, Off)
<1> DEFINE q == 1
<1>1. sections' = [Incremental EXCEPT ![q][m] = Off] /\ altered' = TRUE
  BY DEF Delete, Off
<1>2. sections' = SetCell(Incremental, q, m, Off)
  BY Zenon, <1>1 DEF SetCell
<1> QED BY <1>1, <1>2, OffIs DEF Sets, q

LEMMA UpdateSets ==
  ASSUME Basic, NEW m \in Num, NEW h \in Held, Update(m, h)
  PROVE  \E e : Sets(m, e) /\ e.type = "n" /\ e.ofs = 0 /\ e.obj = held[h]
<1> DEFINE s == Incremental
           o == held[h]
           q == 1
           e == [s[q][m] EXCEPT !.type = "n", !.ofs = 0, !.obj = o]
<1>1. /\ o # NULL /\ sections' = [s EXCEPT ![q][m].type = "n", ![q][m].ofs = 0, ![q][m].obj = o]
      /\ altered' = TRUE
  BY DEF Update
<1>2. sections \in Table /\ altered \in BOOLEAN /\ held \in Clients /\ Bare(sections)
  BY DEF Basic
<1>3. s \in Table
  BY <1>2, IncrementalIs
<1>4. q \in DOMAIN s /\ s[q][m] \in Cell /\ s \in [1..Len(s) -> [Num -> Cell]] /\ o \in Obj
  BY <1>1, <1>2, <1>3, TableFinite DEF Clients
<1> HIDE DEF s, o
<1>5. e \in Cell /\ e.type = "n" /\ e.ofs = 0 /\ e.obj = o
  BY <1>4 DEF Cell, Types
<1>6. sections' = SetCell(s, q, m, e)
  BY <1>1, <1>4 DEF SetCell, Cell
<1> HIDE DEF e
<1> QED BY <1>1, <1>5, <1>6 DEF Sets, s, o, q

\* Of the entries that are read only that of m changes, and it is in the section
\* for changes.
Alone(m) ==
  /\ Inc(sections', altered', m)
  /\ \A n \in Num : n # m => /\ SameEntry(sections', sections, n)
                             /\ Inc(sections', altered', n) <=> Inc(sections, altered, n)
LEMMA SetOthers ==
  ASSUME Basic, NEW m \in Num, NEW e, Sets(m, e)
  PROVE  Alone(m) /\ Entry(sections', m) = e
<1> DEFINE s == Incremental
<1>1. /\ sections \in Table /\ altered \in BOOLEAN /\ held \in Clients /\ Bare(sections)
  BY DEF Basic
<1>2. /\ s \in Table /\ Bare(s) /\ \A n \in Num : SameEntry(s, sections, n)
      /\ \A n \in Num : s[1][n] = IF altered THEN sections[1][n] ELSE NoEntry
  BY <1>1, IncrementalIs
<1>3. e \in Cell /\ e.type # "undefined" /\ sections' = SetCell(s, 1, m, e) /\ altered' = TRUE
  BY DEF Sets
<1>4. 1 \in DOMAIN s
  BY <1>2, TableFinite
<1> HIDE DEF s
<1>5. /\ Entry(SetCell(s, 1, m, e), m) = e
      /\ \A n \in Num : n # m => Entry(SetCell(s, 1, m, e), n) = Entry(s, n)
  BY <1>2, <1>3, FirstSet
<1> DEFINE q == 1
<1>6. q \in DOMAIN s
  BY <1>4
<1> HIDE DEF q
<1>7. /\ SetCell(s, q, m, e)[q][m] = e
      /\ \A i \in DOMAIN s, n \in Num : i # q \/ n # m => SetCell(s, q, m, e)[i][n] = s[i][n]
  BY <1>2, <1>3, <1>6, SetCellIs
<1>8. sections'[1][m] = e /\ \A n \in Num : n # m => sections'[1][n] = s[1][n]
  <2>1. sections'[q][m] = e /\ \A n \in Num : n # m => sections'[q][n] = s[q][n]
    BY <1>3, <1>6, <1>7 DEF q
  <2> QED BY <2>1 DEF q
<1>9. ASSUME NEW n \in Num, n # m
      PROVE  /\ SameEntry(sections', sections, n)
             /\ Inc(sections', altered', n) <=> Inc(sections, altered, n)
  <2>1. Entry(sections', n) = Entry(s, n)
    BY <1>3, <1>5, <1>9
  <2>2. SameEntry(sections', sections, n)
    BY <1>2, <2>1 DEF SameEntry
  <2>3. sections'[1][n] = IF altered THEN sections[1][n] ELSE NoEntry
    BY <1>2, <1>8, <1>9
  <2>4. NoEntry.type = "undefined"
    BY DEF NoEntry
  <2>5. sections'[1][n].type # "undefined" <=> altered /\ sections[1][n].type # "undefined"
    <3>1. CASE altered
      BY <2>3, <3>1
    <3>2. CASE ~altered
      BY <2>3, <2>4, <3>2
    <3> QED BY <3>1, <3>2
  <2>6. Inc(sections', altered', n) <=> Inc(sections, altered, n)
    BY Zenon, <1>3, <2>5 DEF Inc
  <2> QED BY <2>2, <2>6
<1>10. Inc(sections', altered', m)
  BY <1>3, <1>8 DEF Inc
<1> QED BY <1>3, <1>5, <1>9, <1>10 DEF Alone

LEMMA SetStays ==
  ASSUME Basic, NEW m \in Num, NEW e, Sets(m, e), NEW n \in Num, n # m
  PROVE  Stays(n)
BY SetOthers DEF SameEntry, Stays, Alone

LEMMA CreateStays ==
  ASSUME Basic, Create, NEW n \in Num
  PROVE  Stays(n)
<1>1. /\ Sets(len + 1, Off) /\ len + 1 \in Num /\ Entry(sections, len + 1).type = "undefined"
  BY CreateSets
<1>2. CASE n # len + 1
  BY <1>1, <1>2, SetStays
<1>3. CASE n = len + 1
  <2>1. Entry(sections, n).obj = NULL
    BY <1>1, <1>3, EntryIs DEF Basic
  <2> QED BY <2>1 DEF Stays
<1> QED BY <1>2, <1>3

LEMMA DeleteStays ==
  ASSUME Basic, NEW m \in Num, Delete(m), NEW n \in Num, n # m
  PROVE  Stays(n)
BY DeleteSets, SetStays

LEMMA UpdateStays ==
  ASSUME Basic, NEW m \in Num, NEW h \in Held, Update(m, h), NEW n \in Num, n # m
  PROVE  Stays(n)
<1>1. PICK e : Sets(m, e)
  BY UpdateSets
<1> QED BY <1>1, SetStays

LEMMA NextStays ==
  ASSUME Basic, [Next]_vars, NEW n \in Num, ~Reopen, ~Delete(n), ~ \E h \in Held : Update(n, h)
  PROVE  Stays(n)
<1>1. CASE UNCHANGED sections
  BY <1>1 DEF Stays
<1>2. CASE Reads
  <2>1. ASSUME NEW q \in Num, Resolve(q) PROVE Stays(n)
    <3>1. Loadable /\ sections' = Cache(q).s
      BY <2>1 DEF Resolve
    <3> QED BY <3>1, StagedStays
  <2>2. ASSUME NEW q \in Num, Arrive(q) PROVE Stays(n)
    BY <1>1, <2>2 DEF Arrive
  <2>3. ASSUME NEW q \in Num, NEW h \in Held, Load(q, h) PROVE Stays(n)
    <3>1. Loadable /\ sections' = Cache(q).s
      BY <2>3 DEF Load
    <3> QED BY <3>1, StagedStays
  <2>4. ASSUME NEW h \in Held, Release(h) PROVE Stays(n)
    BY <1>1, <2>4 DEF Release
  <2> QED BY Zenon, <1>2, <2>1, <2>2, <2>3, <2>4 DEF Reads
<1>3. CASE Edits
  <2>1. ASSUME NEW o \in Obj, Put(o) PROVE Stays(n)
    BY <2>1, AlteredStays DEF Put
  <2>2. ASSUME NEW o \in Obj, Del(o) PROVE Stays(n)
    BY <2>2, AlteredStays DEF Del
  <2>3. ASSUME NEW o \in Obj, NEW v \in Obj, PutDict(o, v) PROVE Stays(n)
    BY <2>3, AlteredStays DEF PutDict
  <2>4. ASSUME NEW h \in Held, NewDict(h) PROVE Stays(n)
    BY <1>1, <2>4 DEF NewDict
  <2>5. ASSUME Create PROVE Stays(n)
    BY <2>5, CreateStays
  <2>6. ASSUME NEW m \in Num, Delete(m) PROVE Stays(n)
    BY <2>6, DeleteStays
  <2>7. ASSUME NEW m \in Num, UpdateStream(m) PROVE Stays(n)
    BY <1>3, <2>7, UpdateStreamBasic DEF Edits, Stays
  <2>8. ASSUME NEW m \in Num, NEW h \in Held, Update(m, h) PROVE Stays(n)
    BY <2>8, UpdateStays
  <2> QED BY Zenon, <1>3, <2>1, <2>2, <2>3, <2>4, <2>5, <2>6, <2>7, <2>8 DEF Edits
<1>4. CASE SaveIncremental
  BY <1>1, <1>4 DEF SaveIncremental
<1>5. CASE UNCHANGED vars
  BY <1>1, <1>5 DEF vars
<1> QED BY Zenon, <1>2, <1>3, <1>4, <1>5 DEF Next

\* Whatever is loaded, moved, edited or fails to load, what was lent under a number
\* is cached under it still, and alive.
LEMMA LentStep ==
  ASSUME Basic, [Next]_vars, NEW n \in Num, Entry(sections, n).obj # NULL,
         Entry(sections', n).obj # Entry(sections, n).obj
           \/ objs'[Entry(sections, n).obj].refs = 0
  PROVE  Reopen \/ Delete(n) \/ \E h \in Held : Update(n, h)
<1> SUFFICES ASSUME ~Reopen, ~Delete(n), ~ \E h \in Held : Update(n, h)
             PROVE  FALSE
  OBVIOUS
<1>1. Entry(sections', n).obj = Entry(sections, n).obj
  BY NextStays DEF Stays
<1>2. Ties(sections', len', objs', held')
  BY BasicStays DEF Basic, Ties
<1>3. Entry(sections', n).obj # NULL => objs'[Entry(sections', n).obj].refs > 0
  BY <1>2, Alive
<1> QED BY <1>1, <1>3

\* What pdf_resolve_indirect has returned, and its caller has not kept, is what is
\* read under that number until it is updated, deleted or the document is closed.
THEOREM LentStaysHolds == Spec => LentStays
<1>1. Basic /\ [Next]_vars =>
        [\A n \in Num :
           LET obj == Entry(sections, n).obj
           IN  obj # NULL /\ (Entry(sections, n).obj' # obj \/ objs'[obj].refs = 0)
                 => Reopen \/ Delete(n) \/ \E h \in Held : Update(n, h)]_vars
  <2> SUFFICES ASSUME Basic, [Next]_vars, NEW n \in Num, Entry(sections, n).obj # NULL,
                      Entry(sections, n).obj' # Entry(sections, n).obj
                        \/ objs'[Entry(sections, n).obj].refs = 0
               PROVE  Reopen \/ Delete(n) \/ \E h \in Held : Update(n, h)
    BY Zenon
  <2>1. Entry(sections, n).obj' = Entry(sections', n).obj
    BY DEF Entry, Where
  <2> QED BY <2>1, LentStep
<1> QED BY <1>1, BasicHolds, PTL DEF Spec, LentStays

-----------------------------------------------------------------------------
(* What is read                                                            *)

\* What a number that has entry e is read as.
ValueFrom(e, h, l, n) ==
  LET stm == IF e.buf # 0 THEN e.buf ELSE e.at.stm
  IN  IF n > l \/ e.type \in {"undefined", "f"} THEN Nothing
      ELSE IF e.obj = NULL THEN [e.at EXCEPT !.stm = stm]
      ELSE [val |-> h[e.obj].val, stm |-> stm,
            kid |-> IF h[e.obj].kid = NULL THEN 0 ELSE h[h[e.obj].kid].val]

\* It is the same from objects that look the same, or have just been loaded.
LEMMA SameValue ==
  ASSUME NEW e \in Cell, NEW x \in Cell, NEW h, NEW g, NEW l, NEW n,
         x.type = e.type, x.at = e.at, x.buf = e.buf,
         \/ /\ x.obj = e.obj
            /\ e.obj # NULL =>
                 /\ g[e.obj].val = h[e.obj].val /\ g[e.obj].kid = h[e.obj].kid
                 /\ h[e.obj].kid # NULL => g[h[e.obj].kid].val = h[h[e.obj].kid].val
         \/ e.obj = NULL /\ x.obj # NULL /\ Fills(g, x)
  PROVE  ValueFrom(x, g, l, n) = ValueFrom(e, h, l, n)
<1> DEFINE stm == IF e.buf # 0 THEN e.buf ELSE e.at.stm
           p == n > l \/ e.type \in {"undefined", "f"}
<1>1. ValueFrom(e, h, l, n) =
        IF p THEN Nothing
        ELSE IF e.obj = NULL THEN [e.at EXCEPT !.stm = stm]
        ELSE [val |-> h[e.obj].val, stm |-> stm,
              kid |-> IF h[e.obj].kid = NULL THEN 0 ELSE h[h[e.obj].kid].val]
  BY Zenon DEF ValueFrom
<1>2. ValueFrom(x, g, l, n) =
        IF p THEN Nothing
        ELSE IF x.obj = NULL THEN [e.at EXCEPT !.stm = stm]
        ELSE [val |-> g[x.obj].val, stm |-> stm,
              kid |-> IF g[x.obj].kid = NULL THEN 0 ELSE g[g[x.obj].kid].val]
  BY DEF ValueFrom
<1>3. e.at \in Content
  BY DEF Cell
<1> DEFINE a == IF g[x.obj].kid = NULL THEN 0 ELSE g[g[x.obj].kid].val
           b == IF h[e.obj].kid = NULL THEN 0 ELSE h[h[e.obj].kid].val
<1>4. CASE p
  BY <1>1, <1>2, <1>4
<1>5. CASE ~p /\ x.obj = e.obj /\ e.obj = NULL
  <2> HIDE DEF stm, p
  <2> QED BY <1>1, <1>2, <1>5
<1>6. CASE ~p /\ x.obj = e.obj /\ e.obj # NULL
  <2>1. g[x.obj].val = h[e.obj].val /\ a = b
    BY <1>6
  <2> HIDE DEF a, b, stm, p
  <2>2. ValueFrom(e, h, l, n) = [val |-> h[e.obj].val, stm |-> stm, kid |-> b]
    BY <1>1, <1>6 DEF b
  <2>3. ValueFrom(x, g, l, n) = [val |-> g[x.obj].val, stm |-> stm, kid |-> a]
    BY <1>2, <1>6 DEF a
  <2> QED BY <2>1, <2>2, <2>3
<1>7. CASE ~p /\ e.obj = NULL /\ x.obj # NULL /\ Fills(g, x)
  <2>1. g[x.obj].val = e.at.val /\ a = e.at.kid
    <3>1. Fits(g, x.obj, e.at)
      BY <1>7 DEF Fills
    <3> QED BY <3>1 DEF Fits
  <2>2. [e.at EXCEPT !.stm = stm] = [val |-> e.at.val, stm |-> stm, kid |-> e.at.kid]
    <3> HIDE DEF stm
    <3> QED BY <1>3 DEF Content
  <2> HIDE DEF a, stm, p
  <2>3. ValueFrom(x, g, l, n) = [val |-> g[x.obj].val, stm |-> stm, kid |-> a]
    BY <1>2, <1>7 DEF a
  <2>4. ValueFrom(e, h, l, n) = [e.at EXCEPT !.stm = stm]
    BY <1>1, <1>7
  <2> QED BY <2>1, <2>2, <2>3, <2>4
<1> QED BY <1>4, <1>5, <1>6, <1>7

LEMMA ValueFromIs == ASSUME NEW n PROVE Value(n) = ValueFrom(Entry(sections, n), objs, len, n)
  BY Zenon DEF Value, ValueFrom

LEMMA ValueFromNext ==
  ASSUME NEW n PROVE Value(n)' = ValueFrom(Entry(sections', n), objs', len', n)
BY Zenon DEF Value, ValueFrom, Entry, Where

\* What is inside of an object that is alive is alive.
LEMMA LivesSame ==
  ASSUME NEW s, NEW l, NEW h, NEW k, Ties(s, l, h, k), NEW g,
         \A o \in Obj : h[o].refs # 0 => g[o].val = h[o].val /\ g[o].kid = h[o].kid,
         NEW n \in Num, Entry(s, n).obj # NULL
  PROVE  LET o == Entry(s, n).obj
         IN  /\ g[o].val = h[o].val /\ g[o].kid = h[o].kid
             /\ h[o].kid # NULL => g[h[o].kid].val = h[h[o].kid].val
<1> DEFINE o == Entry(s, n).obj
<1>1. o \in Obj /\ h[o].refs > 0 /\ Good(h, Ext(s, k))
  BY Alive DEF Ties
<1> HIDE DEF o
<1>2. h[o].kid # NULL => h[o].kid \in Obj /\ h[h[o].kid].refs > 0
  BY <1>1, GoodIs
<1> QED BY <1>1, <1>2 DEF o

LEMMA StagedValue ==
  ASSUME Basic, Loadable, NEW q \in Num, sections' = Cache(q).s, UNCHANGED len,
         \A o \in Obj : objs'[o].val = Cache(q).h[o].val /\ objs'[o].kid = Cache(q).h[o].kid,
         NEW n \in Num
  PROVE  Value(n)' = Value(n)
<1> DEFINE c == Cache(q)
           e == Entry(sections, n)
           x == Entry(c.s, n)
<1>1. Stage(sections, objs, held, c)
  BY CacheStage DEF Stages
<1>2. sections \in Table /\ objs \in Heap /\ held \in Clients /\ Ties(sections, len, objs, held)
  BY TiesNow DEF Basic
<1>3. /\ sections' = c.s
      /\ \A o \in Obj : objs'[o].val = c.h[o].val /\ objs'[o].kid = c.h[o].kid
  OBVIOUS
<1> HIDE DEF c
<1>4. /\ x \in Cell /\ e \in Cell /\ x.type = e.type /\ x.at = e.at /\ x.buf = e.buf
      /\ x = e \/ Taken(objs, c.h, x, e)
  BY <1>1, <1>2, GrownEntry
<1>5. Ties(c.s, len, c.h, held)
  BY <1>1, <1>2, StageKeeps
<1>6. CASE x = e
  <2>1. e.obj # NULL => /\ objs'[e.obj].val = objs[e.obj].val /\ objs'[e.obj].kid = objs[e.obj].kid
                        /\ objs[e.obj].kid # NULL => objs'[objs[e.obj].kid].val = objs[objs[e.obj].kid].val
    <3>1. \A o \in Obj : objs[o].refs # 0 => objs'[o].val = objs[o].val /\ objs'[o].kid = objs[o].kid
      BY <1>1, <1>3 DEF Stage, Lives
    <3> QED BY <1>2, <3>1, LivesSame
  <2> HIDE DEF x, e
  <2>2. ValueFrom(x, objs', len, n) = ValueFrom(e, objs, len, n)
    BY <1>4, <1>6, <2>1, SameValue
  <2> QED BY <1>3, <2>2, ValueFromIs, ValueFromNext DEF x, e
<1>7. CASE Taken(objs, c.h, x, e)
  <2>1. e.obj = NULL /\ x.obj \in Obj /\ x.obj # NULL /\ Fills(c.h, x)
    BY <1>7, ObjFinite DEF Taken
  <2>2. Fills(objs', x)
    <3>1. Fits(c.h, x.obj, x.at) => Fits(objs', x.obj, x.at)
      <4>1. Good(c.h, Ext(c.s, held))
        BY <1>5 DEF Ties
      <4>2. c.h[x.obj].kid # NULL => c.h[x.obj].kid \in Obj
        BY <2>1, <4>1, GoodIs
      <4> HIDE DEF x
      <4> QED BY <1>3, <2>1, <4>2 DEF Fits
    <3> QED BY <2>1, <3>1 DEF Fills
  <2> HIDE DEF x, e
  <2>3. ValueFrom(x, objs', len, n) = ValueFrom(e, objs, len, n)
    BY <1>4, <2>1, <2>2, SameValue
  <2> QED BY <1>3, <2>3, ValueFromIs, ValueFromNext DEF x, e
<1> QED BY <1>4, <1>6, <1>7

LEMMA ReadsValue ==
  ASSUME Basic, Reads, NEW n \in Num
  PROVE  Value(n)' = Value(n)
<1>1. ASSUME NEW q \in Num, Resolve(q) PROVE Value(n)' = Value(n)
  <2>1. Loadable /\ sections' = Cache(q).s /\ UNCHANGED len /\ objs' = Cache(q).h
    BY <1>1 DEF Resolve
  <2> QED BY <2>1, StagedValue
<1>2. ASSUME NEW q \in Num, Arrive(q) PROVE Value(n)' = Value(n)
  <2>1. UNCHANGED <<sections, objs, len>>
    BY <1>2 DEF Arrive
  <2> QED BY <2>1, ValueFromIs, ValueFromNext
<1>3. ASSUME NEW q \in Num, NEW h \in Held, Load(q, h) PROVE Value(n)' = Value(n)
  <2> DEFINE c == Cache(q)
             o == Entry(c.s, q).obj
  <2>1. /\ Loadable /\ sections' = c.s /\ UNCHANGED len
        /\ IF c.err = "none" THEN objs' = Keep(c.h, o) ELSE objs' = c.h
    BY <1>3 DEF Load
  <2>2. Stage(sections, objs, held, c) /\ (c.err = "none" => o \in Obj)
    BY <2>1, CacheStage DEF Stages
  <2> HIDE DEF c
  <2>3. Ties(c.s, len, c.h, held)
    BY <2>2, TiesNow, StageKeeps
  <2>4. \A p \in Obj : objs'[p].val = c.h[p].val /\ objs'[p].kid = c.h[p].kid
    <3>1. CASE c.err = "none"
      <4>1. o \in Obj /\ c.h[o].refs > 0 /\ Good(c.h, Ext(c.s, held))
        BY <2>2, <2>3, <3>1, Alive, ObjFinite DEF Ties
      <4> HIDE DEF o
      <4>2. \A p \in Obj : Keep(c.h, o)[p].kid = c.h[p].kid /\ Keep(c.h, o)[p].val = c.h[p].val
        BY <4>1, KeepGood
      <4> QED BY <2>1, <3>1, <4>2
    <3>2. CASE c.err # "none"
      BY <2>1, <3>2
    <3> QED BY <3>1, <3>2
  <2> QED BY <2>1, <2>4, StagedValue DEF c
<1>4. ASSUME NEW h \in Held, Release(h) PROVE Value(n)' = Value(n)
  <2>1. Basic' /\ Same(objs, objs') /\ UNCHANGED <<sections, len>>
    BY <1>4, ReleaseBasic DEF Release
  <2>2. Ties(sections, len, objs', held')
    BY <2>1 DEF Basic, Ties
  <2> DEFINE e == Entry(sections, n)
  <2>3. e \in Cell
    BY EntryIs DEF Basic
  <2>4. e.obj # NULL => /\ objs[e.obj].val = objs'[e.obj].val /\ objs[e.obj].kid = objs'[e.obj].kid
                        /\ objs'[e.obj].kid # NULL => objs[objs'[e.obj].kid].val = objs'[objs'[e.obj].kid].val
    <3>1. \A o \in Obj : objs'[o].refs # 0 => objs[o].val = objs'[o].val /\ objs[o].kid = objs'[o].kid
      BY <2>1 DEF Same
    <3> QED BY <2>2, <3>1, LivesSame
  <2> HIDE DEF e
  <2>5. ValueFrom(e, objs, len, n) = ValueFrom(e, objs', len, n)
    BY <2>3, <2>4, SameValue
  <2> QED BY <2>1, <2>5, ValueFromIs, ValueFromNext DEF e
<1> QED BY Zenon, <1>1, <1>2, <1>3, <1>4 DEF Reads

\* Loading, in whatever order and however far it gets, caches what is in the file,
\* and neither it nor a client that gives something up changes what is read.
THEOREM ReadsKeepHolds == Spec => ReadsKeep
<1>1. Basic /\ [Next]_vars => [(\E n \in Num : Value(n)' # Value(n)) => ~Reads]_vars
  BY Zenon, ReadsValue
<1> QED BY <1>1, BasicHolds, PTL DEF Spec, ReadsKeep

-----------------------------------------------------------------------------
(* What edits leave as it is in the file                                   *)

\* What clients may not do for that: README, Disagreements.
Orderly == ~Siblings /\ ~Shares /\ StreamsMove

\* A number that has not is as it is in the file, and is edited as what it is.
Clean(s, a, h, f, n) ==
  ~Inc(s, a, n) =>
    /\ Entry(s, n).type = Entry(f, n).type
    /\ Entry(s, n).type # "undefined" =>
         Entry(s, n).at = Entry(f, n).at /\ Entry(s, n).buf = 0
    /\ Entry(s, n).obj # NULL => Fills(h, Entry(s, n)) /\ OwnCell(h, Entry(s, n), n)
\* No object is in two places: at most one reference is not a client's.
Lone(h, k) == \A o \in Obj : h[o].refs <= 1 + Count(k, o)
StreamsStay == \A m \in Streams : ~Inc(sections, altered, m) /\ Entry(sections, m).type = "n"
Kept ==
  /\ Basic /\ StreamsStay /\ Lone(objs, held)
  /\ \A n \in Num : Clean(sections, altered, objs, file.secs, n)

\* What an object looks like is the same.
Untouched(h, g, o) ==
  /\ g[o].val = h[o].val /\ g[o].kid = h[o].kid /\ g[o].parent = h[o].parent
  /\ h[o].kid # NULL => /\ g[h[o].kid].val = h[h[o].kid].val
                        /\ g[h[o].kid].parent = h[h[o].kid].parent

LEMMA CleanKeeps ==
  ASSUME NEW s, NEW t, NEW a, NEW b, NEW h, NEW g, NEW f, NEW n, Clean(s, a, h, f, n),
         Inc(s, a, n) => Inc(t, b, n), SameEntry(t, s, n),
         ~Inc(t, b, n) /\ Entry(s, n).obj # NULL => Untouched(h, g, Entry(s, n).obj)
  PROVE  Clean(t, b, g, f, n)
<1> SUFFICES ASSUME ~Inc(t, b, n) PROVE Clean(t, b, g, f, n)
  BY DEF Clean
<1> DEFINE e == Entry(s, n)
           x == Entry(t, n)
           y == Entry(f, n)
<1>1. /\ e.type = y.type /\ (e.type # "undefined" => e.at = y.at /\ e.buf = 0)
      /\ e.obj # NULL => Fills(h, e) /\ OwnCell(h, e, n)
  BY DEF Clean
<1>2. x = e \/ (x.type = "undefined" /\ e.type = "undefined" /\ x.obj = NULL /\ e.obj = NULL)
  BY DEF SameEntry
<1>3. e.obj # NULL => Untouched(h, g, e.obj)
  OBVIOUS
<1> HIDE DEF e, x, y
<1>4. e.obj # NULL => Fills(g, e) /\ OwnCell(g, e, n)
  BY <1>1, <1>3 DEF Fills, Fits, OwnCell, Untouched
<1>5. /\ x.type = y.type /\ (x.type # "undefined" => x.at = y.at /\ x.buf = 0)
      /\ x.obj # NULL => Fills(g, x) /\ OwnCell(g, x, n)
  BY <1>1, <1>2, <1>4
<1> QED BY <1>5 DEF Clean, e, x, y

\* What has been left alone by a step that ends in objects g.
LEMMA UntouchedIs ==
  ASSUME NEW t, NEW l, NEW g, NEW k, Ties(t, l, g, k), NEW h, NEW E, NEW n \in Num,
         \A p \in Obj : g[p].refs # 0 /\ p \notin E =>
           g[p].val = h[p].val /\ g[p].kid = h[p].kid /\ g[p].parent = h[p].parent,
         Entry(t, n).obj # NULL, Entry(t, n).obj \notin E, h[Entry(t, n).obj].kid \notin E
  PROVE  Untouched(h, g, Entry(t, n).obj)
<1> DEFINE o == Entry(t, n).obj
<1>1. o \in Obj /\ g[o].refs > 0 /\ Good(g, Ext(t, k))
  BY Alive DEF Ties
<1>2. o \notin E /\ h[o].kid \notin E
  OBVIOUS
<1> HIDE DEF o
<1>3. g[o].val = h[o].val /\ g[o].kid = h[o].kid /\ g[o].parent = h[o].parent
  BY <1>1, <1>2
<1>4. g[o].kid # NULL => g[o].kid \in Obj /\ g[g[o].kid].refs > 0
  BY <1>1, GoodIs
<1> QED BY <1>2, <1>3, <1>4 DEF Untouched, o

LEMMA AlteredMore ==
  ASSUME Basic, NEW o \in Obj, Altered(o), NEW n \in Num
  PROVE  /\ Inc(sections, altered, n) => Inc(sections', altered', n)
         /\ objs[o].parent = n /\ Entry(sections, n).type # "undefined" => Inc(sections', altered', n)
         /\ objs[o].parent # n /\ Inc(sections', altered', n) => Inc(sections, altered, n)
<1> DEFINE q == objs[o].parent
<1>1. /\ sections \in Table /\ altered \in BOOLEAN /\ Bare(sections) /\ held \in Clients
      /\ Good(objs, Ext(sections, held))
  BY DEF Basic
<1>2. q \in Num \cup {0}
  BY <1>1, GoodIs DEF ObjType
<1>3. IF q = 0 THEN UNCHANGED <<sections, altered>>
      ELSE sections' = Moved(q) /\ altered' = TRUE
  BY DEF Altered
<1> HIDE DEF q
<1>4. CASE q = 0
  <2>1. sections' = sections /\ altered' = altered /\ q # n
    BY <1>3, <1>4 DEF Num
  <2> QED BY <2>1 DEF Inc, q
<1>5. CASE q # 0 /\ q # n
  <2>1. Moved(q)[1][n] = IF altered THEN sections[1][n] ELSE NoEntry
    BY <1>1, <1>2, <1>5, MovedIs
  <2>2. sections' = Moved(q) /\ altered' = TRUE
    BY <1>3, <1>5
  <2>3. altered => Moved(q)[1][n] = sections[1][n]
    BY <2>1
  <2>4. ~altered => Moved(q)[1][n] = NoEntry
    BY <2>1
  <2>5. NoEntry.type = "undefined"
    BY DEF NoEntry
  <2> QED BY <1>5, <2>2, <2>3, <2>4, <2>5 DEF Inc, q
<1>6. CASE q = n
  <2>1. sections' = Moved(n) /\ altered' = TRUE
    BY <1>3, <1>6 DEF Num
  <2>2. /\ SameEntry(Moved(n), sections, n)
        /\ Entry(sections, n).type # "undefined" => Where(Moved(n), n) = 1
    BY <1>1, MovedIs
  <2>3. Entry(sections, n).type # "undefined" => Moved(n)[1][n].type # "undefined"
    BY <2>2 DEF SameEntry, Entry
  <2>4. sections[1][n].type # "undefined" => Entry(sections, n).type # "undefined"
    BY <1>1, EntryIs, TableFinite
  <2> QED BY <1>6, <2>1, <2>3, <2>4 DEF Inc, q
<1> QED BY <1>4, <1>5, <1>6

\* What is edited belongs to no number that is as in the file after that.
LEMMA NotTheirs ==
  ASSUME Kept, Orderly, NEW o \in Obj, Mine(o), Altered(o), NEW n \in Num,
         ~Inc(sections', altered', n), Entry(sections, n).obj # NULL
  PROVE  Entry(sections, n).obj # o /\ objs[Entry(sections, n).obj].kid # o
<1> DEFINE e == Entry(sections, n)
           q == objs[o].parent
<1>1. Basic /\ sections \in Table /\ Bare(sections)
  BY DEF Kept, Basic
<1>2. ~Inc(sections, altered, n)
  BY <1>1, AlteredMore
<1>3. OwnCell(objs, e, n)
  BY <1>2 DEF Kept, Clean
<1>4. /\ Where(sections, n) \in DOMAIN sections /\ e = sections[Where(sections, n)][n]
      /\ e.type # "undefined"
  BY <1>1, EntryIs
<1>5. q # n
  BY <1>1, <1>4, AlteredMore
<1>6. SUFFICES ASSUME o \in {e.obj, objs[e.obj].kid} PROVE FALSE
  OBVIOUS
<1>7. NULL \notin Obj
  BY ObjFinite
<1> HIDE DEF e
<1>8. e.obj # NULL
  BY DEF e
<1>9. q = objs[e.obj].parent
  BY <1>3, <1>6, <1>7, <1>8 DEF OwnCell
<1>10. q = 0 /\ e.type = "o"
  BY <1>3, <1>5, <1>8, <1>9 DEF OwnCell
<1>11. q \notin Editable
  BY <1>10 DEF Editable
<1>12. \A j \in DOMAIN sections, m \in Num :
         LET d == sections[j][m] IN ~(d.type = "o" /\ d.obj # NULL /\ o \in {d.obj, objs[d.obj].kid})
  BY Zenon, <1>11 DEF Mine, Orderly, q
<1>13. ~(e.type = "o" /\ e.obj # NULL /\ o \in {e.obj, objs[e.obj].kid})
  BY Zenon, <1>4, <1>12
<1> QED BY <1>6, <1>8, <1>10, <1>13

\* A reference that is given up makes no count greater.
LEMMA DropLess ==
  ASSUME NEW h, NEW e, Good(h, e), NEW o \in Obj, e[o] > 0, NEW p \in Obj
  PROVE  Drop(h, o)[p].refs <= h[p].refs - One(p, o)
<1> DEFINE k == h[o].kid
           f == Less(h, o)
<1>1. h \in Heap /\ NULL \notin Obj /\ h[o].refs > 0 /\ h[o].refs \in Nat /\ h[p].refs \in Nat
  BY GoodIs, ObjFinite DEF Good
<1>2. k # NULL => k \in Obj /\ k # o /\ h[k].refs > 0 /\ h[k].refs \in Nat
  BY GoodIs
<1>3. f \in Heap /\ (p # o => f[p] = h[p]) /\ f[o].refs = h[o].refs - 1 /\ f[p].refs \in Int
  <2>1. /\ Less(h, o) \in Heap
        /\ \A q \in Obj : q # o => Less(h, o)[q] = h[q]
        /\ h[o].refs = 1 => Less(h, o)[o] = Unused
        /\ h[o].refs # 1 => Less(h, o)[o].refs = h[o].refs - 1
    BY <1>1, LessIs
  <2>2. f[p].refs \in Int
    BY <2>1 DEF Heap, ObjType
  <2>3. Unused.refs = 0
    BY DEF Unused
  <2> QED BY <1>1, <2>1, <2>2, <2>3
<1>4. f[p].refs = h[p].refs - One(p, o)
  BY <1>1, <1>3 DEF One
<1>5. CASE h[o].refs = 1 /\ k # NULL
  <2> DEFINE g == Less(f, k)
  <2>1. Drop(h, o) = g
    <3> HIDE DEF f
    <3>1. o # NULL
      BY <1>1
    <3> QED BY Zenon, <1>5, <3>1 DEF Drop, f
  <2> HIDE DEF f, k
  <2>2. /\ p # k => g[p] = f[p]
        /\ f[k].refs = 1 => g[k] = Unused
        /\ f[k].refs # 1 => g[k].refs = f[k].refs - 1
    BY <1>2, <1>3, <1>5, LessIs
  <2>3. Unused.refs = 0
    BY DEF Unused
  <2>4. g[p].refs <= f[p].refs
    BY <1>2, <1>3, <1>5, <2>2, <2>3
  <2> QED BY <1>1, <1>3, <1>4, <2>1, <2>4
<1>6. CASE ~(h[o].refs = 1 /\ k # NULL)
  <2>1. Drop(h, o) = f
    <3>1. o # NULL
      BY <1>1
    <3> QED BY <1>6, <3>1 DEF Drop
  <2> HIDE DEF f
  <2> QED BY <1>1, <1>3, <1>4, <2>1
<1> QED BY <1>5, <1>6

\* What is taken out of an object is given up, and nothing more.
LEMMA UnsetLess ==
  ASSUME NEW h, NEW e, Good(h, e), NEW o \in Obj, NEW p \in Obj
  PROVE  Unset(h, o)[p].refs <= h[p].refs
<1> DEFINE k == h[o].kid
           u == Unset(h, o)
<1>1. h \in Heap /\ h[p].refs \in Nat /\ k \in Obj \cup {NULL}
  BY GoodIs DEF Good, ObjType
<1>2. CASE k = NULL
  BY <1>1, <1>2 DEF Unset
<1>3. CASE k # NULL
  <2>1. k \in Obj /\ k # o /\ h[k].kid = NULL /\ h[k].refs > 0 /\ h[k].refs \in Nat
    BY <1>1, <1>3, GoodIs
  <2>2. u[o].refs = h[o].refs /\ \A q \in Obj : q # o /\ q # k => u[q] = h[q]
    BY UnsetGood
  <2>3. u[k].refs <= h[k].refs
    <3>1. u = [Drop(h, k) EXCEPT ![o].kid = NULL]
      BY Zenon, <1>3 DEF Unset
    <3>2. Drop(h, k) = Less(h, k)
      BY <1>1, <2>1, ObjFinite DEF Drop
    <3> DEFINE f == Less(h, k)
    <3> HIDE DEF u, k
    <3>3. /\ f \in Heap
          /\ h[k].refs = 1 => f[k] = Unused
          /\ h[k].refs # 1 => f[k].refs = h[k].refs - 1
      BY <1>1, <2>1, LessIs
    <3>4. Unused.refs = 0
      BY DEF Unused
    <3> HIDE DEF f
    <3>5. u[k] = f[k]
      BY <2>1, <3>1, <3>2, <3>3 DEF f, Heap
    <3> QED BY <2>1, <3>3, <3>4, <3>5
  <2> HIDE DEF u
  <2> QED BY <1>1, <2>2, <2>3 DEF u
<1> QED BY <1>2, <1>3

\* What has been loaded is referred to by the entry it has been loaded for only.
LEMMA StageOnce ==
  ASSUME NEW s, NEW l, NEW h, NEW k, Ties(s, l, h, k), NEW c, Stage(s, h, k, c),
         NEW p \in Obj, h[p].refs = 0
  PROVE  c.h[p].refs <= 1
<1> DEFINE g == c.h
           t == c.s
<1>1. /\ s \in Table /\ k \in Clients /\ Good(h, Ext(s, k)) /\ t \in Table
      /\ Good(g, Ext(t, k)) /\ DOMAIN t = DOMAIN s /\ Lives(h, g)
      /\ \A j \in DOMAIN s, n \in Num : t[j][n] = s[j][n] \/ Taken(h, g, t[j][n], s[j][n])
  BY DEF Ties, Stage, Results, Grown
<1> HIDE DEF g, t
<1>2. /\ \A j \in DOMAIN s, n \in Num : s[j][n].obj \in Obj => h[s[j][n].obj].refs > 0
      /\ \A x \in Held : k[x] \in Obj => h[k[x]].refs > 0
  BY Alive
<1>3. ASSUME NEW q \in Obj, h[q].refs = 0, Count(KidOf(g), q) = 0, g[q].refs # 0
      PROVE  \E j \in DOMAIN s, n \in Num : t[j][n].obj = q /\ Taken(h, g, t[j][n], s[j][n])
  <2>1. g[q].refs = Ext(t, k)[q] + Count(KidOf(g), q) /\ Ext(t, k)[q] \in Nat
    BY <1>1, GoodIs
  <2>2. Ext(t, k)[q] = Count(ObjAt(t), q) + Count(k, q)
    BY DEF Ext
  <2>3. /\ IsFiniteSet(DOMAIN ObjAt(t)) /\ DOMAIN ObjAt(t) = (DOMAIN t) \X Num
        /\ IsFiniteSet(DOMAIN k) /\ DOMAIN k = Held
    BY <1>1, TableFinite, BoundsAssumption DEF Clients
  <2>4. Count(k, q) = 0
    <3>1. Count(k, q) \in Nat /\ (Count(k, q) > 0 => \E x \in DOMAIN k : k[x] = q)
      BY <2>3, CountNat
    <3> QED BY <1>2, <1>3, <2>3, <3>1
  <2>5. \E x \in DOMAIN ObjAt(t) : ObjAt(t)[x] = q
    <3>1. Count(ObjAt(t), q) \in Nat /\ (Count(ObjAt(t), q) > 0 => \E x \in DOMAIN ObjAt(t) : ObjAt(t)[x] = q)
      BY <2>3, CountNat
    <3> QED BY <1>3, <2>1, <2>2, <2>4, <3>1
  <2>6. PICK j \in DOMAIN s, n \in Num : t[j][n].obj = q
    <3>1. PICK x \in (DOMAIN t) \X Num : ObjAt(t)[x] = q
      BY <2>3, <2>5
    <3>2. ObjAt(t)[x] = t[x[1]][x[2]].obj /\ x[1] \in DOMAIN s /\ x[2] \in Num
      BY <1>1 DEF ObjAt
    <3> QED BY <3>1, <3>2
  <2>7. t[j][n] # s[j][n]
    BY <1>2, <1>3, <2>6
  <2> QED BY <1>1, <2>6, <2>7
<1>4. g[p].refs \in Nat /\ Count(KidOf(g), p) \in Nat
  BY <1>1, GoodIs
<1>5. CASE Count(KidOf(g), p) = 0
  <2>1. g[p].refs # 0 => g[p].refs = 1
    BY <1>3, <1>5 DEF Taken
  <2> QED BY <1>4, <2>1 DEF g
<1>6. CASE Count(KidOf(g), p) # 0
  <2>1. PICK q \in Obj : g[q].kid = p
    BY <1>4, <1>6, KidsCount
  <2>2. g[q].kid # NULL /\ g[q].refs # 0 /\ Count(KidOf(g), q) = 0
    BY <1>1, <2>1, GoodIs, ObjFinite
  <2>3. h[q].refs = 0
    <3>1. h[q].refs # 0 => h[q].kid = p
      BY <1>1, <2>1 DEF Lives
    <3>2. h[q].kid # NULL => h[h[q].kid].refs > 0
      BY <1>1, GoodIs
    <3> QED BY <2>1, <2>2, <3>1, <3>2
  <2>4. PICK j \in DOMAIN s, n \in Num : t[j][n].obj = q /\ Taken(h, g, t[j][n], s[j][n])
    BY <1>3, <2>2, <2>3
  <2>5. g[g[q].kid].refs = 1
    BY <2>2, <2>4 DEF Taken
  <2> QED BY <2>1, <2>5 DEF g
<1> QED BY <1>5, <1>6

LEMMA KeptAfter ==
  ASSUME Basic', Lone(objs', held'),
         \A m \in Streams : ~Inc(sections', altered', m) /\ Entry(sections', m).type = "n",
         \A n \in Num : Clean(sections', altered', objs', file'.secs, n)
  PROVE  Kept'
<1>1. StreamsStay'
  BY DEF StreamsStay, Inc, Entry, Where
<1> QED BY <1>1 DEF Kept

LEMMA KeptIs ==
  ASSUME Kept
  PROVE  /\ Basic /\ Lone(objs, held) /\ sections \in Table /\ Bare(sections) /\ held \in Clients
         /\ Good(objs, Ext(sections, held)) /\ Shape(sections, len) /\ altered \in BOOLEAN
         /\ Streams \in SUBSET Num
         /\ \A m \in Streams : ~Inc(sections, altered, m) /\ Entry(sections, m).type = "n"
         /\ \A n \in Num : Clean(sections, altered, objs, file.secs, n)
         /\ \A o \in Obj : objs[o].refs \in Nat /\ Count(held, o) \in Nat
<1>1. Basic /\ Lone(objs, held) /\ StreamsStay
      /\ \A n \in Num : Clean(sections, altered, objs, file.secs, n)
  BY DEF Kept
<1>2. /\ sections \in Table /\ Bare(sections) /\ held \in Clients /\ altered \in BOOLEAN
      /\ Good(objs, Ext(sections, held)) /\ Shape(sections, len)
  BY <1>1 DEF Basic
<1>3. Streams \in SUBSET Num
  BY StreamsAre
<1>4. \A o \in Obj : objs[o].refs \in Nat
  BY <1>2, GoodIs
<1>5. \A o \in Obj : Count(held, o) \in Nat
  BY <1>2, BoundsAssumption, CountNat DEF Clients
<1> QED BY <1>1, <1>2, <1>3, <1>4, <1>5 DEF StreamsStay

\* An edit of o changes the objects in E only.
Touches(o, E) ==
  /\ \A p \in Obj : objs'[p].refs # 0 /\ p \notin E =>
       objs'[p].val = objs[p].val /\ objs'[p].kid = objs[p].kid /\ objs'[p].parent = objs[p].parent
  /\ \A n \in Num : LET x == Entry(sections, n).obj
                    IN  x # NULL /\ x # o /\ objs[x].kid # o => x \notin E /\ objs[x].kid \notin E
Edited(o) ==
  /\ Mine(o) /\ Altered(o) /\ UNCHANGED <<len, held, file>> /\ Lone(objs', held')
  /\ \E E : Touches(o, E)

\* What does not have o looks the same.
LEMMA EditSpares ==
  ASSUME Basic, Basic', NEW o \in Obj, Altered(o), NEW E, Touches(o, E), NEW n \in Num,
         Entry(sections, n).obj # NULL, Entry(sections, n).obj # o,
         objs[Entry(sections, n).obj].kid # o
  PROVE  Untouched(objs, objs', Entry(sections, n).obj)
<1>1. Ties(sections', len', objs', held')
  BY DEF Basic, Ties
<1>2. Entry(sections, n).obj \notin E /\ objs[Entry(sections, n).obj].kid \notin E
  BY DEF Touches
<1>3. Entry(sections', n).obj = Entry(sections, n).obj
  BY AlteredIs DEF SameEntry
<1>4. \A p \in Obj : objs'[p].refs # 0 /\ p \notin E =>
        objs'[p].val = objs[p].val /\ objs'[p].kid = objs[p].kid /\ objs'[p].parent = objs[p].parent
  BY DEF Touches
<1>5. Untouched(objs, objs', Entry(sections', n).obj)
  BY <1>1, <1>2, <1>3, <1>4, UntouchedIs
<1> QED BY <1>3, <1>5

LEMMA EditKept ==
  ASSUME Kept, Orderly, NEW o \in Obj, Edited(o), Basic'
  PROVE  Kept'
<1>10. PICK E : Touches(o, E)
  BY DEF Edited
<1>11. Mine(o) /\ Altered(o) /\ UNCHANGED file /\ Lone(objs', held')
  BY DEF Edited
<1>1. /\ Basic /\ sections \in Table /\ Bare(sections) /\ altered \in BOOLEAN
      /\ Streams \in SUBSET Num
      /\ \A m \in Streams : ~Inc(sections, altered, m) /\ Entry(sections, m).type = "n"
      /\ \A n \in Num : Clean(sections, altered, objs, file.secs, n)
  BY KeptIs
<1>3. \A n \in Num : SameEntry(sections', sections, n)
  BY <1>1, <1>11, AlteredIs
<1>4. \A n \in Num : Inc(sections, altered, n) => Inc(sections', altered', n)
  BY <1>1, <1>11, AlteredMore
<1>5. ASSUME NEW n \in Num, ~Inc(sections', altered', n), Entry(sections, n).obj # NULL
      PROVE  Untouched(objs, objs', Entry(sections, n).obj)
  <2>1. Entry(sections, n).obj # o /\ objs[Entry(sections, n).obj].kid # o
    BY <1>5, <1>11, NotTheirs
  <2> QED BY <1>1, <1>5, <1>10, <1>11, <2>1, EditSpares
<1>6. ASSUME NEW n \in Num PROVE Clean(sections', altered', objs', file'.secs, n)
  <2>1. Clean(sections', altered', objs', file.secs, n)
    BY <1>1, <1>3, <1>4, <1>5, CleanKeeps
  <2> QED BY <1>11, <2>1
<1>7. objs[o].parent \notin Streams
  <2>1. objs[o].parent \in Editable \/ objs[o].parent = 0
    BY <1>11 DEF Mine
  <2>2. \A m \in Editable : m \notin Streams
    BY <1>1, EditableIs
  <2>3. 0 \notin Streams
    BY <1>1 DEF Num
  <2> QED BY <2>1, <2>2, <2>3
<1>8. \A m \in Streams : ~Inc(sections', altered', m)
  BY <1>1, <1>7, <1>11, AlteredMore
<1>9. \A m \in Streams : Entry(sections', m).type = "n"
  BY <1>1, <1>3 DEF SameEntry
<1> QED BY <1>6, <1>8, <1>9, <1>11, KeptAfter

LEMMA LoneLess ==
  ASSUME NEW h, NEW k, NEW g, Lone(h, k),
         \A p \in Obj : /\ g[p].refs <= h[p].refs
                        /\ g[p].refs \in Nat /\ h[p].refs \in Nat /\ Count(k, p) \in Nat
  PROVE  Lone(g, k)
<1>1. ASSUME NEW p \in Obj PROVE g[p].refs <= 1 + Count(k, p)
  <2>1. h[p].refs <= 1 + Count(k, p)
    BY DEF Lone
  <2> QED BY <2>1
<1> QED BY <1>1 DEF Lone

LEMMA PutEdited ==
  ASSUME Kept, NEW o \in Obj, Put(o)
  PROVE  Edited(o)
<1>1. /\ objs \in Heap /\ Good(objs, Ext(sections, held)) /\ Fresh \in Nat
      /\ Lone(objs, held)
  BY KeptIs, TiesNow DEF Fresh
<1> DEFINE v == Fresh
           E == {o}
<1>2. /\ objs' = [objs EXCEPT ![o].val = v] /\ Mine(o) /\ Altered(o) /\ UNCHANGED <<len, held, Reading>>
  BY DEF Put
<1> HIDE DEF v
<1>3. \A p \in Obj : /\ objs'[p].refs = objs[p].refs
                     /\ p # o => objs'[p] = objs[p]
  BY <1>1, <1>2 DEF Heap, ObjType
<1>4. Lone(objs', held')
  BY <1>1, <1>2, <1>3 DEF Lone
<1>5. \A p \in Obj : objs'[p].refs # 0 /\ p \notin E =>
        objs'[p].val = objs[p].val /\ objs'[p].kid = objs[p].kid /\ objs'[p].parent = objs[p].parent
  BY <1>3
<1>6. \A n \in Num : LET x == Entry(sections, n).obj
                     IN  x # NULL /\ x # o /\ objs[x].kid # o => x \notin E /\ objs[x].kid \notin E
  OBVIOUS
<1> HIDE DEF E
<1> QED BY <1>2, <1>4, <1>5, <1>6 DEF Reading, Edited, Touches

LEMMA DelEdited ==
  ASSUME Kept, NEW o \in Obj, Del(o)
  PROVE  Edited(o)
<1>1. /\ objs \in Heap /\ Good(objs, Ext(sections, held)) /\ Lone(objs, held)
      /\ \A p \in Obj : objs[p].refs \in Nat /\ Count(held, p) \in Nat
  BY KeptIs, TiesNow
<1> DEFINE E == {o}
           u == Unset(objs, o)
<1>2. /\ objs[o].kid # NULL /\ objs' = [Drop(objs, objs[o].kid) EXCEPT ![o].kid = NULL]
      /\ Mine(o) /\ Altered(o) /\ UNCHANGED <<len, held, Reading>>
  BY DEF Del
<1>3. objs' = u
  BY Zenon, <1>2 DEF Unset
<1>4. \A p \in Obj : u[p].refs <= objs[p].refs /\ u[p].refs \in Nat
  <2>1. Good(u, Ext(sections, held))
    BY <1>1, UnsetGood
  <2>2. \A p \in Obj : u[p].refs \in Nat
    BY <2>1, GoodIs
  <2> HIDE DEF u
  <2> QED BY <1>1, <2>2, UnsetLess DEF u
<1>5. Lone(objs', held')
  <2> HIDE DEF u
  <2>1. Lone(u, held)
    BY <1>1, <1>4, LoneLess
  <2> QED BY <1>2, <1>3, <2>1
<1>6. \A p \in Obj : u[p].refs # 0 /\ p \notin E =>
        u[p].val = objs[p].val /\ u[p].kid = objs[p].kid /\ u[p].parent = objs[p].parent
  <2> DEFINE g == WithInside(objs, o, NULL)
  <2>1. g = [objs EXCEPT ![o].kid = NULL]
    BY Zenon DEF WithInside
  <2>2. Same([objs EXCEPT ![o].kid = NULL], u)
    BY <1>1, UnsetGood
  <2>3. Same(g, u)
    BY Zenon, <2>1, <2>2
  <2>4. \A p \in Obj : /\ g[p].val = objs[p].val /\ g[p].parent = objs[p].parent
                       /\ g[p].kid = IF p = o THEN NULL ELSE objs[p].kid
    BY Zenon, <1>1, KidNull
  <2> HIDE DEF g, u
  <2> QED BY <2>3, <2>4 DEF Same
<1>7. \A n \in Num : LET x == Entry(sections, n).obj
                     IN  x # NULL /\ x # o /\ objs[x].kid # o => x \notin E /\ objs[x].kid \notin E
  OBVIOUS
<1> HIDE DEF E, u
<1>8. \A p \in Obj : objs'[p].refs # 0 /\ p \notin E =>
        objs'[p].val = objs[p].val /\ objs'[p].kid = objs[p].kid /\ objs'[p].parent = objs[p].parent
  BY <1>3, <1>6
<1> QED BY <1>2, <1>5, <1>7, <1>8 DEF Reading, Edited, Touches

\* What only clients have, no entry and no object has.
LEMMA Unowned ==
  ASSUME Basic, NEW v \in Obj, v \notin Owned
  PROVE  /\ objs[v].refs = Count(held, v)
         /\ \A n \in Num : Entry(sections, n).obj # v
         /\ \A p \in Obj : objs[p].kid # v
         /\ \A j \in DOMAIN sections, n \in Num : sections[j][n].obj # v
<1>1. /\ sections \in Table /\ held \in Clients /\ Good(objs, Ext(sections, held))
  BY DEF Basic
<1>10. /\ v \notin {objs[o].kid : o \in Obj}
       /\ v \notin UNION {{sections[j][n].obj : n \in Num} : j \in DOMAIN sections}
  BY Zenon DEF Owned
<1>2. \A p \in Obj : objs[p].kid # v
  BY <1>10
<1>3. \A j \in DOMAIN sections, n \in Num : sections[j][n].obj # v
  <2>1. \A j \in DOMAIN sections : v \notin {sections[j][n].obj : n \in Num}
    BY Zenon, <1>10
  <2> QED BY <2>1
<1>4. \A n \in Num : Entry(sections, n).obj # v
  BY <1>1, <1>3, EntryIs
<1>5. objs[v].refs = Ext(sections, held)[v] + Count(KidOf(objs), v)
  BY <1>1, GoodIs
<1>6. Count(KidOf(objs), v) = 0
  <2>1. /\ Count(KidOf(objs), v) \in Nat
        /\ Count(KidOf(objs), v) > 0 <=> \E p \in Obj : objs[p].kid = v
    BY KidsCount
  <2> QED BY <1>2, <2>1
<1>7. Count(ObjAt(sections), v) = 0
  <2>1. IsFiniteSet(DOMAIN ObjAt(sections)) /\ DOMAIN ObjAt(sections) = (DOMAIN sections) \X Num
    BY <1>1, TableFinite
  <2>2. /\ Count(ObjAt(sections), v) \in Nat
        /\ Count(ObjAt(sections), v) > 0 <=> \E x \in DOMAIN ObjAt(sections) : ObjAt(sections)[x] = v
    BY <2>1, CountNat
  <2>3. \A x \in (DOMAIN sections) \X Num : ObjAt(sections)[x] # v
    BY <1>3 DEF ObjAt
  <2> QED BY <2>1, <2>2, <2>3
<1>8. Count(held, v) \in Nat
  BY <1>1, BoundsAssumption, CountNat DEF Clients
<1>9. Ext(sections, held)[v] = Count(ObjAt(sections), v) + Count(held, v)
  BY DEF Ext
<1> QED BY <1>2, <1>3, <1>4, <1>5, <1>6, <1>7, <1>8, <1>9

\* Objects in which v replaces what is in o, and the parent that v has then.
LEMMA ReplacedIs ==
  ASSUME NEW h, NEW e, Good(h, e), NEW o \in Obj, NEW v \in Obj, v # o, h[o].kid # v,
         h[v].kid = NULL, h[v].refs > 0, h[o].refs > 0, \A p \in Obj : h[p].kid # o
  PROVE  LET g == Replaced(h, o, v)
         IN  /\ g[v].refs = h[v].refs + 1 /\ g[v].kid = NULL
             /\ \A p \in Obj : /\ p # v => g[p].refs <= h[p].refs
                               /\ p # v /\ p # o /\ g[p].refs # 0 =>
                                    g[p].val = h[p].val /\ g[p].kid = h[p].kid
                                    /\ g[p].parent = h[p].parent
<1> DEFINE u == Unset(h, o)
           w == Keep(u, v)
           g == WithInside(w, o, v)
           x == WithInside(h, o, NULL)
<1>1. h \in Heap /\ \A p \in Obj : h[p].refs \in Nat
  BY GoodIs DEF Good
<1>2. /\ Good(u, e) /\ \A p \in Obj : p # o /\ p # h[o].kid => u[p] = h[p]
  BY UnsetGood
<1>3. u[v] = h[v]
  BY <1>2
<1>4. \A p \in Obj : u[p].refs <= h[p].refs
  BY UnsetLess
<1>5. Same(x, u)
  <2>1. x = [h EXCEPT ![o].kid = NULL]
    BY Zenon DEF WithInside
  <2>2. Same([h EXCEPT ![o].kid = NULL], u)
    BY UnsetGood
  <2> QED BY Zenon, <2>1, <2>2
<1>6. \A p \in Obj : /\ x[p].val = h[p].val /\ x[p].parent = h[p].parent
                     /\ x[p].kid = IF p = o THEN NULL ELSE h[p].kid
  <2>1. h \in Heap
    BY <1>1
  <2>2. \A p \in Obj :
               /\ WithInside(h, o, NULL)[p].refs = h[p].refs
               /\ WithInside(h, o, NULL)[p].val = h[p].val
               /\ WithInside(h, o, NULL)[p].parent = h[p].parent
               /\ WithInside(h, o, NULL)[p].kid = IF p = o THEN NULL ELSE h[p].kid
    BY Zenon, <2>1, KidNull
  <2> QED BY Zenon, <2>2
<1> HIDE DEF u, x
<1>7. /\ Good(w, More(e, v))
      /\ \A p \in Obj : /\ w[p].kid = u[p].kid /\ w[p].val = u[p].val /\ w[p].parent = u[p].parent
                        /\ w[p].refs = u[p].refs + One(p, v)
  BY <1>2, <1>3, KeepGood
<1> HIDE DEF w
<1>8. \A p \in Obj :
        /\ g[p].refs = w[p].refs /\ g[p].val = w[p].val /\ g[p].parent = w[p].parent
        /\ g[p].kid = IF p = o THEN v ELSE w[p].kid
  BY <1>7, KidSet DEF Good
<1> HIDE DEF g
<1>9. Replaced(h, o, v) = g
  BY ReplacedGood DEF g, w, u
<1>10. \A p \in Obj : u[p].refs \in Nat
  BY <1>2, GoodIs
<1>11. g[v].refs = h[v].refs + 1 /\ g[v].kid = NULL
  <2>1. One(v, v) = 1
    BY DEF One
  <2> QED BY <1>3, <1>7, <1>8, <2>1
<1>12. ASSUME NEW p \in Obj, p # v PROVE g[p].refs = u[p].refs
  <2>1. One(p, v) = 0
    BY <1>12 DEF One
  <2> QED BY <1>7, <1>8, <1>10, <2>1
<1>13. ASSUME NEW p \in Obj, p # v PROVE g[p].refs <= h[p].refs
  BY <1>4, <1>12, <1>13
<1>14. ASSUME NEW p \in Obj, p # v, p # o, g[p].refs # 0
       PROVE  g[p].val = h[p].val /\ g[p].kid = h[p].kid /\ g[p].parent = h[p].parent
  <2>1. u[p].refs # 0
    BY <1>12, <1>14
  <2>2. u[p].val = x[p].val /\ u[p].kid = x[p].kid /\ u[p].parent = x[p].parent
    BY <1>5, <2>1 DEF Same
  <2> QED BY <1>6, <1>7, <1>8, <1>14, <2>2
<1> QED BY <1>9, <1>11, <1>13, <1>14

LEMMA PutDictEdited ==
  ASSUME Kept, Orderly, NEW o \in Obj, NEW v \in Obj, PutDict(o, v)
  PROVE  Edited(o)
<1> DEFINE n == objs[o].parent
           put == Replaced(objs, o, v)
           E == {o, v}
<1>1. /\ Basic /\ Good(objs, Ext(sections, held)) /\ Lone(objs, held)
      /\ \A p \in Obj : objs[p].refs \in Nat /\ Count(held, p) \in Nat
  BY KeptIs
<1>2. /\ o \in Known /\ v \in Known \cup Inner /\ v # o /\ objs[v].kid = NULL
      /\ o \notin {objs[p].kid : p \in Obj} /\ v \notin Owned
      /\ Mine(o) /\ Altered(o) /\ UNCHANGED <<len, held, Reading>>
      /\ objs' = LET q == IF objs[o].kid = v THEN objs
                          ELSE [Keep(Drop(objs, objs[o].kid), v) EXCEPT ![o].kid = v]
                 IN  IF n = 0 THEN q ELSE SetParent(q, v, n)
  BY DEF PutDict, Orderly
<1>3. /\ objs[v].refs = Count(held, v) /\ \A m \in Num : Entry(sections, m).obj # v
      /\ \A p \in Obj : objs[p].kid # v
  BY <1>1, <1>2, Unowned
<1>4. objs' = IF n = 0 THEN put ELSE SetParent(put, v, n)
  BY Zenon, <1>2, <1>3 DEF Replaced
<1>5. objs[o].refs > 0 /\ objs[v].refs > 0
  BY <1>1, <1>2, KnownAlive
<1>6. Good(put, Ext(sections, held))
  BY <1>1, <1>2, <1>3, <1>5, ReplacedGood
<1>7. /\ put[v].refs = objs[v].refs + 1 /\ put[v].kid = NULL
      /\ \A p \in Obj : /\ p # v => put[p].refs <= objs[p].refs
                        /\ p # v /\ p # o /\ put[p].refs # 0 =>
                             put[p].val = objs[p].val /\ put[p].kid = objs[p].kid
                             /\ put[p].parent = objs[p].parent
  BY <1>1, <1>2, <1>3, <1>5, ReplacedIs
<1>8. n \in Num \cup {0}
  BY <1>1, GoodIs DEF ObjType
<1> HIDE DEF put, n
<1>9. \A p \in Obj : /\ objs'[p].refs = put[p].refs /\ objs'[p].kid = put[p].kid
                     /\ objs'[p].val = put[p].val
                     /\ p # v => objs'[p].parent = put[p].parent
  <2>1. \A p \in Obj :
          /\ SetParent(put, v, n)[p].refs = put[p].refs /\ SetParent(put, v, n)[p].kid = put[p].kid
          /\ SetParent(put, v, n)[p].val = put[p].val
          /\ SetParent(put, v, n)[p].parent = IF v # NULL /\ (p = v \/ p = put[v].kid)
                                              THEN n ELSE put[p].parent
    BY <1>6, <1>8, SetParentGood
  <2>2. NULL \notin Obj
    BY ObjFinite
  <2>3. ASSUME NEW p \in Obj
        PROVE  /\ objs'[p].refs = put[p].refs /\ objs'[p].kid = put[p].kid
               /\ objs'[p].val = put[p].val
               /\ p # v => objs'[p].parent = put[p].parent
    BY <1>4, <1>7, <2>1, <2>2
  <2> QED BY <2>3
<1>10. \A p \in Obj : put[p].refs \in Nat
  BY <1>6, GoodIs
<1>11. Lone(objs', held')
  <2>1. ASSUME NEW p \in Obj PROVE objs'[p].refs <= 1 + Count(held, p)
    <3>1. CASE p = v
      BY <1>1, <1>3, <1>7, <1>9, <3>1
    <3>2. CASE p # v
      <4>1. objs[p].refs <= 1 + Count(held, p)
        BY <1>1 DEF Lone
      <4> QED BY <1>1, <1>7, <1>9, <1>10, <3>2, <4>1
    <3> QED BY <3>1, <3>2
  <2> QED BY <1>2, <2>1 DEF Lone
<1>12. \A p \in Obj : objs'[p].refs # 0 /\ p \notin E =>
         objs'[p].val = objs[p].val /\ objs'[p].kid = objs[p].kid /\ objs'[p].parent = objs[p].parent
  BY <1>7, <1>9
<1>13. ASSUME NEW m \in Num, Entry(sections, m).obj # NULL, Entry(sections, m).obj # o,
              objs[Entry(sections, m).obj].kid # o
       PROVE  Entry(sections, m).obj \notin E /\ objs[Entry(sections, m).obj].kid \notin E
  <2>1. Entry(sections, m).obj \in Obj
    BY <1>1, <1>13, TiesNow, Alive
  <2> QED BY <1>3, <1>13, <2>1
<1> HIDE DEF E
<1>14. \A m \in Num : LET x == Entry(sections, m).obj
                      IN  x # NULL /\ x # o /\ objs[x].kid # o => x \notin E /\ objs[x].kid \notin E
  BY <1>13
<1> QED BY <1>2, <1>11, <1>12, <1>14 DEF Reading, Edited, Touches

\* A client that keeps one more object, or gives one up.
LEMMA HeldCount ==
  ASSUME NEW k \in Clients, NEW h \in Held, NEW o \in Obj \cup {NULL}, NEW p \in Obj
  PROVE  /\ Count(k, p) \in Nat /\ Count([k EXCEPT ![h] = o], p) \in Nat
         /\ Count([k EXCEPT ![h] = o], p) = Count(k, p) + One(p, o) - One(p, k[h])
<1>1. IsFiniteSet(DOMAIN k) /\ h \in DOMAIN k /\ DOMAIN k = Held
  BY BoundsAssumption DEF Clients
<1>2. Count(k, p) \in Nat
  BY <1>1, CountNat
<1>3. Count([k EXCEPT ![h] = o], p) = Count(k, p) + One(p, o) - One(p, k[h])
  BY <1>1, CountChanged
<1>4. Count([k EXCEPT ![h] = o], p) \in Nat
  <2> DEFINE l == [k EXCEPT ![h] = o]
  <2>1. IsFiniteSet(DOMAIN l)
    BY <1>1
  <2> HIDE DEF l
  <2>2. Count(l, p) \in Nat
    BY <2>1, CountNat
  <2> QED BY <2>2 DEF l
<1> QED BY <1>2, <1>3, <1>4

LEMMA NewDictKept ==
  ASSUME Kept, NEW h \in Held, NewDict(h), edits' = edits + 1
  PROVE  Kept'
<1>1. /\ Basic /\ Lone(objs, held) /\ held \in Clients /\ sections \in Table
      /\ \A m \in Streams : ~Inc(sections, altered, m) /\ Entry(sections, m).type = "n"
      /\ \A n \in Num : Clean(sections, altered, objs, file.secs, n)
      /\ \A p \in Obj : objs[p].refs \in Nat /\ Count(held, p) \in Nat
  BY KeptIs
<1>2. Basic' /\ \E o \in Obj : /\ objs[o].refs = 0 /\ objs'[o].refs = 1
                               /\ held' = [held EXCEPT ![h] = o]
                               /\ \A p \in Obj : p # o => objs'[p] = objs[p]
  BY <1>1, NewDictBasic
<1>3. PICK o \in Obj : /\ objs[o].refs = 0 /\ objs'[o].refs = 1
                       /\ held' = [held EXCEPT ![h] = o]
                       /\ \A p \in Obj : p # o => objs'[p] = objs[p]
  BY <1>2
<1>4. held[h] = NULL /\ UNCHANGED <<sections, altered, len, Reading>>
  BY DEF NewDict
<1>5. \A p \in Obj : Count(held', p) \in Nat /\ Count(held', p) >= Count(held, p)
  <2>1. ASSUME NEW p \in Obj
        PROVE  Count(held', p) \in Nat /\ Count(held', p) >= Count(held, p)
    <3>1. /\ Count(held', p) \in Nat /\ Count(held', p) = Count(held, p) + One(p, o) - One(p, held[h])
      BY <1>1, <1>3, HeldCount
    <3>2. One(p, held[h]) = 0 /\ One(p, o) \in {0, 1}
      BY <1>4, ObjFinite DEF One
    <3> QED BY <1>1, <3>1, <3>2
  <2> QED BY <2>1
<1>6. Lone(objs', held')
  <2>1. ASSUME NEW p \in Obj PROVE objs'[p].refs <= 1 + Count(held', p)
    <3>1. CASE p = o
      <4>1. objs'[p].refs = 1 /\ Count(held', p) \in Nat
        BY <1>3, <1>5, <3>1
      <4> QED BY <4>1
    <3>2. CASE p # o
      <4>1. objs[p].refs <= 1 + Count(held, p)
        BY <1>1 DEF Lone
      <4>2. objs'[p].refs = objs[p].refs
        BY <1>3, <3>2
      <4> QED BY <1>1, <1>5, <4>1, <4>2
    <3> QED BY <3>1, <3>2
  <2> QED BY <2>1 DEF Lone
<1>7. ASSUME NEW n \in Num PROVE Clean(sections', altered', objs', file'.secs, n)
  <2>1. Entry(sections, n).obj # NULL => Untouched(objs, objs', Entry(sections, n).obj)
    <3> SUFFICES ASSUME Entry(sections, n).obj # NULL
                 PROVE  Untouched(objs, objs', Entry(sections, n).obj)
      OBVIOUS
    <3> DEFINE e == Entry(sections, n).obj
    <3>1. e \in Obj /\ objs[e].refs > 0 /\ Good(objs, Ext(sections, held))
      BY <1>1, TiesNow, Alive DEF Ties
    <3> HIDE DEF e
    <3>2. objs[e].kid # NULL => objs[e].kid \in Obj /\ objs[objs[e].kid].refs > 0
      BY <3>1, GoodIs
    <3>3. objs'[e] = objs[e] /\ (objs[e].kid # NULL => objs'[objs[e].kid] = objs[objs[e].kid])
      BY <1>3, <3>1, <3>2
    <3> QED BY <3>3 DEF Untouched, e
  <2>2. SameEntry(sections', sections, n) /\ (Inc(sections, altered, n) => Inc(sections', altered', n))
    BY <1>4 DEF SameEntry
  <2>3. Clean(sections', altered', objs', file.secs, n)
    BY <1>1, <2>1, <2>2, CleanKeeps
  <2> QED BY <1>4, <2>3 DEF Reading
<1>8. \A m \in Streams : ~Inc(sections', altered', m) /\ Entry(sections', m).type = "n"
  BY <1>1, <1>4
<1> QED BY <1>2, <1>6, <1>7, <1>8, KeptAfter

\* The entry of n changes: the others, and what they have, are as they were.
LEMMA SetKept ==
  ASSUME Kept, NEW n \in Num, n \notin Streams, Alone(n), UNCHANGED file, Basic',
         Lone(objs', held'),
         \A p \in Obj : objs'[p].refs # 0 =>
           objs'[p].val = objs[p].val /\ objs'[p].kid = objs[p].kid /\ objs'[p].parent = objs[p].parent
  PROVE  Kept'
<1>1. /\ Basic /\ sections \in Table /\ Streams \in SUBSET Num
      /\ \A m \in Streams : ~Inc(sections, altered, m) /\ Entry(sections, m).type = "n"
      /\ \A m \in Num : Clean(sections, altered, objs, file.secs, m)
  BY KeptIs
<1>2. /\ Inc(sections', altered', n)
      /\ \A m \in Num : m # n => /\ SameEntry(sections', sections, m)
                                 /\ Inc(sections', altered', m) <=> Inc(sections, altered, m)
  BY DEF Alone
<1>3. Ties(sections', len', objs', held')
  BY DEF Basic, Ties
<1>4. ASSUME NEW m \in Num PROVE Clean(sections', altered', objs', file'.secs, m)
  <2>1. CASE m = n
    BY <1>2, <2>1 DEF Clean
  <2>2. CASE m # n
    <3>1. SameEntry(sections', sections, m) /\ (Inc(sections, altered, m) => Inc(sections', altered', m))
      BY <1>2, <2>2
    <3>2. Entry(sections', m).obj = Entry(sections, m).obj
      BY <3>1 DEF SameEntry
    <3>3. Entry(sections', m).obj # NULL => Untouched(objs, objs', Entry(sections', m).obj)
      <4> DEFINE E == {}
      <4>1. \A p \in Obj : objs'[p].refs # 0 /\ p \notin E =>
              objs'[p].val = objs[p].val /\ objs'[p].kid = objs[p].kid
              /\ objs'[p].parent = objs[p].parent
        OBVIOUS
      <4>2. \A o : o \notin E
        OBVIOUS
      <4> HIDE DEF E
      <4> QED BY <1>3, <4>1, <4>2, UntouchedIs
    <3>4. Entry(sections, m).obj # NULL => Untouched(objs, objs', Entry(sections, m).obj)
      BY <3>2, <3>3
    <3>5. Clean(sections', altered', objs', file.secs, m)
      BY <1>1, <3>1, <3>4, CleanKeeps
    <3> QED BY <3>5
  <2> QED BY <2>1, <2>2
<1>5. \A m \in Streams : ~Inc(sections', altered', m) /\ Entry(sections', m).type = "n"
  <2> TAKE m \in Streams
  <2>1. m \in Num /\ m # n
    BY <1>1
  <2> QED BY <1>1, <1>2, <2>1 DEF SameEntry
<1> QED BY <1>4, <1>5, KeptAfter

LEMMA CreateKept ==
  ASSUME Kept, Create, Basic'
  PROVE  Kept'
<1>1. Basic /\ Lone(objs, held)
  BY KeptIs
<1>2. Sets(len + 1, Off) /\ len + 1 \in Num
  BY <1>1, CreateSets
<1>3. UNCHANGED <<objs, held, file>>
  BY DEF Create, Reading
<1>4. len + 1 \notin Streams
  <2>1. len \in FileLen..MaxNum /\ FileLen \in Nat /\ MaxNum \in Nat
    BY <1>1, TiesNow
  <2> QED BY <2>1 DEF Streams
<1> DEFINE n == len + 1
<1> HIDE DEF n
<1>5. n \in Num /\ n \notin Streams /\ Alone(n)
  BY <1>1, <1>2, <1>4, SetOthers DEF n
<1>6. Lone(objs', held')
  BY <1>1, <1>3
<1> QED BY <1>3, <1>5, <1>6, SetKept

\* What the first section has under a number is given up: no count is greater.
LEMMA GivenLess ==
  ASSUME Basic, NEW n \in Num
  PROVE  LET o == Incremental[1][n].obj
         IN  /\ o \in Obj \cup {NULL} /\ (o = NULL \/ o = sections[1][n].obj)
             /\ \A p \in Obj : Drop(objs, o)[p].refs <= objs[p].refs
             /\ Drop(objs, o) \in Heap /\ Same(objs, Drop(objs, o))
             /\ \A p \in Obj : Drop(objs, o)[p].refs \in Nat
<1> DEFINE s == Incremental
           o == s[1][n].obj
           x == Off
<1>1. /\ sections \in Table /\ altered \in BOOLEAN /\ held \in Clients /\ Bare(sections)
      /\ Good(objs, Ext(sections, held)) /\ \A p \in Obj : objs[p].refs \in Nat
  BY GoodIs DEF Basic
<1>2. /\ s \in Table /\ Ext(s, held) = Ext(sections, held)
      /\ s[1][n] = IF altered THEN sections[1][n] ELSE NoEntry
  BY <1>1, IncrementalIs
<1> HIDE DEF s
<1>3. 1 \in DOMAIN s /\ s[1][n] \in Cell
  BY <1>2, TableFinite
<1>4. o \in Obj \cup {NULL} /\ (o = NULL \/ o = sections[1][n].obj)
  BY <1>2, <1>3 DEF Cell, NoEntry
<1>5. Good(Drop(objs, o), Ext(SetCell(s, 1, n, x), held)) /\ Same(objs, Drop(objs, o))
  BY <1>1, <1>2, OffIs, FirstGiven
<1>6. o \in Obj => Ext(s, held)[o] > 0
  BY <1>1, <1>2, <1>3, ExtIs
<1> HIDE DEF o
<1>7. \A p \in Obj : Drop(objs, o)[p].refs <= objs[p].refs
  <2>1. CASE o = NULL
    BY <1>1, <2>1 DEF Drop
  <2>2. CASE o # NULL
    <3>1. o \in Obj /\ Ext(sections, held)[o] > 0
      BY <1>2, <1>4, <1>6, <2>2
    <3>2. ASSUME NEW p \in Obj PROVE Drop(objs, o)[p].refs <= objs[p].refs
      <4>1. Drop(objs, o)[p].refs <= objs[p].refs - One(p, o)
        BY <1>1, <3>1, DropLess
      <4>2. Drop(objs, o) \in Heap
        BY <1>5 DEF Good
      <4>3. Drop(objs, o)[p].refs \in Int /\ objs[p].refs \in Int
        BY <1>1, <4>2 DEF Heap, ObjType
      <4>4. One(p, o) = 0 \/ One(p, o) = 1
        BY DEF One
      <4> QED BY <4>1, <4>3, <4>4
    <3> QED BY <3>2
  <2> QED BY <2>1, <2>2
<1>8. Drop(objs, o) \in Heap /\ \A p \in Obj : Drop(objs, o)[p].refs \in Nat
  BY <1>5, GoodIs DEF Good
<1> QED BY <1>4, <1>5, <1>7, <1>8 DEF o, s

LEMMA DeleteKept ==
  ASSUME Kept, NEW n \in Num, Delete(n), Basic'
  PROVE  Kept'
<1> DEFINE o == Incremental[1][n].obj
           d == Drop(objs, o)
<1>1. /\ Basic /\ Lone(objs, held) /\ \A p \in Obj : objs[p].refs \in Nat /\ Count(held, p) \in Nat
  BY KeptIs
<1>2. n \in Editable /\ objs' = d /\ UNCHANGED <<len, held, file>>
  BY DEF Delete, Reading
<1>3. Alone(n) /\ n \notin Streams
  BY <1>1, <1>2, DeleteSets, SetOthers, EditableIs
<1>4. /\ \A p \in Obj : d[p].refs <= objs[p].refs
      /\ Same(objs, d) /\ \A p \in Obj : d[p].refs \in Nat
  BY <1>1, GivenLess
<1> HIDE DEF d
<1>5. Lone(d, held)
  BY <1>1, <1>4, LoneLess
<1>6. Lone(objs', held')
  BY <1>2, <1>5
<1>7. \A p \in Obj : objs'[p].refs # 0 =>
        objs'[p].val = objs[p].val /\ objs'[p].kid = objs[p].kid /\ objs'[p].parent = objs[p].parent
  BY <1>2, <1>4 DEF Same
<1> QED BY <1>2, <1>3, <1>6, <1>7, SetKept

LEMMA UpdateKept ==
  ASSUME Kept, Orderly, NEW n \in Num, NEW h \in Held, Update(n, h), edits' = edits + 1
  PROVE  Kept'
<1> DEFINE o == Incremental[1][n].obj
           d == Drop(objs, o)
           v == held[h]
<1>1. /\ Basic /\ Lone(objs, held) /\ held \in Clients
      /\ \A p \in Obj : objs[p].refs \in Nat /\ Count(held, p) \in Nat
  BY KeptIs
<1>2. /\ n \in Editable /\ objs' = Keep(d, v) /\ UNCHANGED <<len, held, file>>
      /\ v # NULL /\ v \notin Owned
  BY DEF Update, Reading, Orderly
<1>3. n \notin Streams /\ Alone(n)
  <2>1. PICK e : Sets(n, e)
    BY <1>1, UpdateSets
  <2> QED BY <1>1, <1>2, <2>1, SetOthers, EditableIs
<1>4. /\ d \in Heap /\ \A p \in Obj : d[p].refs <= objs[p].refs /\ d[p].refs \in Nat
  BY <1>1, GivenLess
<1>5. /\ Basic'
      /\ \A p \in Obj : objs'[p].refs # 0 =>
           objs'[p].val = objs[p].val /\ objs'[p].kid = objs[p].kid
           /\ objs'[p].parent = objs[p].parent
  BY <1>1, UpdateBasic
<1>6. v \in Obj
  BY <1>1, <1>2 DEF Clients
<1> HIDE DEF d, v
<1>7. objs[v].refs = Count(held, v)
  BY <1>1, <1>2, <1>6, Unowned
<1>8. \A p \in Obj : objs'[p].refs = d[p].refs + One(p, v)
  BY <1>2, <1>4, <1>6 DEF Keep, One, Heap, ObjType
<1>9. Lone(objs', held')
  <2>1. ASSUME NEW p \in Obj PROVE objs'[p].refs <= 1 + Count(held, p)
    <3>1. d[p].refs <= objs[p].refs /\ d[p].refs \in Nat /\ objs[p].refs \in Nat /\ Count(held, p) \in Nat
      BY <1>1, <1>4
    <3>2. objs'[p].refs = d[p].refs + One(p, v)
      BY <1>8
    <3>3. CASE p = v
      <4>1. One(p, v) = 1 /\ objs[p].refs = Count(held, p)
        BY <1>7, <3>3 DEF One
      <4> QED BY <3>1, <3>2, <4>1
    <3>4. CASE p # v
      <4>1. One(p, v) = 0 /\ objs[p].refs <= 1 + Count(held, p)
        BY <1>1, <3>4 DEF One, Lone
      <4> QED BY <3>1, <3>2, <4>1
    <3> QED BY <3>3, <3>4
  <2> QED BY <1>2, <2>1 DEF Lone
<1> QED BY <1>2, <1>3, <1>5, <1>9, SetKept

LEMMA StreamAlone ==
  ASSUME Basic, Orderly, NEW n \in Num, UpdateStream(n)
  PROVE  Alone(n)
<1> DEFINE s == Moved(n)
           v == Fresh
           j == Where(s, n)
           q == 1
<1>1. /\ sections' = [s EXCEPT ![j][n].buf = v] /\ altered' = TRUE
      /\ Entry(sections, n).obj # NULL
  BY DEF UpdateStream, Orderly
<1>2. /\ sections \in Table /\ altered \in BOOLEAN /\ held \in Clients /\ Bare(sections)
      /\ v \in Nat
  BY TiesNow DEF Basic, Fresh
<1>3. Entry(sections, n).type # "undefined"
  BY <1>1, <1>2, EntryIs
<1>4. /\ s \in Table /\ j = q
      /\ \A m \in Num : SameEntry(s, sections, m)
      /\ \A m \in Num : m # n => s[1][m] = IF altered THEN sections[1][m] ELSE NoEntry
  BY <1>2, <1>3, MovedIs
<1>5. s[1][n].type # "undefined"
  BY <1>3, <1>4 DEF SameEntry, Entry
<1>6. q \in DOMAIN s /\ s[q][n] \in Cell /\ s \in [1..Len(s) -> [Num -> Cell]]
  BY <1>4, TableFinite
<1> HIDE DEF s, v, j
<1>7. s[q][n].type # "undefined"
  BY <1>5
<1> DEFINE t == WithBuf(s, q, n, v)
<1> HIDE DEF q
<1>8. sections' = t
  BY <1>1, <1>4, <1>6 DEF SetCell, Cell, WithBuf
<1>9. /\ t \in Table /\ DOMAIN t = DOMAIN s
      /\ \A m \in Num : Where(t, m) = Where(s, m)
      /\ \A i \in DOMAIN s, m \in Num :
           t[i][m] = s[i][m] \/ (i = q /\ m = n /\ t[i][m] = [s[i][m] EXCEPT !.buf = v])
  <2>1. s \in Table /\ q \in DOMAIN s /\ v \in Nat /\ held \in Clients
    BY <1>2, <1>4, <1>6
  <2>2. /\ t \in Table /\ DOMAIN t = DOMAIN s /\ Ext(t, held) = Ext(s, held)
        /\ (Bare(s) => Bare(t))
        /\ \A l \in Nat : Shape(s, l) => Shape(t, l)
        /\ \A m \in Num : Where(t, m) = Where(s, m) /\ Entry(t, m).obj = Entry(s, m).obj
        /\ \A i \in DOMAIN s, m \in Num :
             t[i][m] = s[i][m] \/ (i = q /\ m = n /\ t[i][m] = [s[i][m] EXCEPT !.buf = v])
    BY <2>1, BufSet
  <2> QED BY <2>2
<1> HIDE DEF t
<1>10. t[q][n].type = s[q][n].type
  BY <1>6, <1>9 DEF Cell
<1>11. Inc(sections', altered', n)
  <2>1. t[1][n].type # "undefined"
    BY <1>7, <1>10 DEF q
  <2> QED BY <1>1, <1>8, <2>1 DEF Inc
<1>12. ASSUME NEW m \in Num, m # n
       PROVE  /\ SameEntry(sections', sections, m)
              /\ Inc(sections', altered', m) <=> Inc(sections, altered, m)
  <2>1. \A i \in DOMAIN s : t[i][m] = s[i][m]
    BY <1>9, <1>12
  <2>2. Where(s, m) \in DOMAIN s /\ Where(t, m) = Where(s, m)
    BY <1>4, <1>9, EntryIs
  <2>3. Entry(t, m) = Entry(s, m)
    BY <2>1, <2>2 DEF Entry
  <2>4. SameEntry(sections', sections, m)
    BY <1>4, <1>8, <2>3 DEF SameEntry
  <2>5. sections'[1][m] = IF altered THEN sections[1][m] ELSE NoEntry
    BY <1>4, <1>6, <1>8, <1>12, <2>1 DEF q
  <2>6. NoEntry.type = "undefined"
    BY DEF NoEntry
  <2>7. sections'[1][m].type # "undefined" <=> altered /\ sections[1][m].type # "undefined"
    <3>1. CASE altered
      BY <2>5, <3>1
    <3>2. CASE ~altered
      BY <2>5, <2>6, <3>2
    <3> QED BY <3>1, <3>2
  <2>8. Inc(sections', altered', m) <=> Inc(sections, altered, m)
    BY Zenon, <1>1, <2>7 DEF Inc
  <2> QED BY <2>4, <2>8
<1> QED BY <1>11, <1>12 DEF Alone

LEMMA UpdateStreamKept ==
  ASSUME Kept, Orderly, NEW n \in Num, UpdateStream(n), Basic'
  PROVE  Kept'
<1>1. Basic /\ Lone(objs, held)
  BY KeptIs
<1>2. Alone(n)
  BY <1>1, StreamAlone
<1>3. UNCHANGED <<objs, held, file>> /\ n \notin Streams
  BY <1>1, EditableIs DEF UpdateStream, Reading
<1>4. Lone(objs', held')
  BY <1>1, <1>3
<1> QED BY <1>2, <1>3, <1>4, SetKept

\* What has been loaded is as in the file, has the number it is cached under and
\* is referred to from there only.
LEMMA StagedKept ==
  ASSUME Kept, NEW c \in Stages(sections, objs, held)
  PROVE  /\ Ties(c.s, len, c.h, held) /\ Lone(c.h, held)
         /\ \A m \in Streams : ~Inc(c.s, altered, m) /\ Entry(c.s, m).type = "n"
         /\ \A n \in Num : Clean(c.s, altered, c.h, file.secs, n)
<1> DEFINE s == c.s
           h == c.h
<1>1. /\ Basic /\ Lone(objs, held) /\ sections \in Table /\ Streams \in SUBSET Num
      /\ held \in Clients /\ Good(objs, Ext(sections, held)) /\ objs \in Heap
      /\ \A m \in Streams : ~Inc(sections, altered, m) /\ Entry(sections, m).type = "n"
      /\ \A n \in Num : Clean(sections, altered, objs, file.secs, n)
      /\ \A o \in Obj : objs[o].refs \in Nat /\ Count(held, o) \in Nat
  BY KeptIs, TiesNow
<1>2. Ties(sections, len, objs, held)
  BY <1>1, TiesNow
<1>3. Stage(sections, objs, held, c) /\ Parented(sections, objs, c, 0)
  BY DEF Stages
<1>4. Ties(s, len, h, held)
  BY <1>2, <1>3, StageKeeps
<1>5. Steady(sections, objs)
  <2> SUFFICES ASSUME NEW m \in Streams, Entry(sections, m).obj # NULL
               PROVE  LET o == Entry(sections, m).obj
                      IN  objs[o].parent = m /\ (objs[o].kid # NULL => objs[objs[o].kid].parent = m)
    BY DEF Steady
  <2>1. m \in Num /\ ~Inc(sections, altered, m) /\ Entry(sections, m).type = "n"
    BY <1>1
  <2>2. OwnCell(objs, Entry(sections, m), m)
    BY <1>1, <2>1 DEF Clean
  <2> QED BY <2>1, <2>2 DEF OwnCell
<1>6. /\ \A o \in Obj : objs[o].refs # 0 =>
           /\ h[o].parent = objs[o].parent /\ h[o].refs = objs[o].refs
           /\ h[o].val = objs[o].val /\ h[o].kid = objs[o].kid
      /\ \A j \in DOMAIN sections, n \in Num :
           s[j][n] # sections[j][n] /\ n # 0 => OwnCell(h, s[j][n], n)
      /\ \A j \in DOMAIN sections, n \in Num :
           s[j][n] = sections[j][n] \/ Taken(objs, h, s[j][n], sections[j][n])
  BY <1>3, <1>5 DEF Parented, Stage, Grown, Lives
<1>7. \A n \in Num :
         /\ Where(s, n) = Where(sections, n) /\ Entry(s, n) \in Cell /\ Entry(sections, n) \in Cell
         /\ Entry(s, n).type = Entry(sections, n).type
         /\ Entry(s, n).at = Entry(sections, n).at /\ Entry(s, n).buf = Entry(sections, n).buf
         /\ Entry(s, n) = Entry(sections, n) \/ Taken(objs, h, Entry(s, n), Entry(sections, n))
  BY <1>1, <1>3, GrownEntry
<1>8. ASSUME NEW o \in Obj PROVE h[o].refs <= 1 + Count(held, o)
  <2>1. CASE objs[o].refs = 0
    <3>1. h[o].refs <= 1
      BY <1>2, <1>3, <2>1, StageOnce
    <3>2. h[o].refs \in Nat
      BY <1>4, GoodIs DEF Ties
    <3> HIDE DEF h
    <3> QED BY <1>1, <3>1, <3>2
  <2>2. CASE objs[o].refs # 0
    BY <1>1, <1>6, <2>2 DEF Lone
  <2> QED BY <2>1, <2>2
<1>9. 1 \in DOMAIN sections
  BY <1>1, TableFinite
<1> HIDE DEF s, h
<1>10. \A n \in Num : Inc(s, altered, n) <=> Inc(sections, altered, n)
  <2> TAKE n \in Num
  <2>1. s[1][n].type = sections[1][n].type
    <3>1. s[1][n] = sections[1][n] \/ Taken(objs, h, s[1][n], sections[1][n])
      BY <1>6, <1>9
    <3>2. sections[1][n] \in Cell
      BY <1>1, <1>9, TableFinite
    <3> QED BY <3>1, <3>2 DEF Taken, Cell
  <2> QED BY Zenon, <2>1 DEF Inc
<1>11. ASSUME NEW n \in Num PROVE Clean(s, altered, h, file.secs, n)
  <2> DEFINE e == Entry(sections, n)
             x == Entry(s, n)
             y == Entry(file.secs, n)
  <2> SUFFICES ASSUME ~Inc(sections, altered, n) PROVE Clean(s, altered, h, file.secs, n)
    BY <1>10 DEF Clean
  <2>1. /\ e.type = y.type /\ (e.type # "undefined" => e.at = y.at /\ e.buf = 0)
        /\ e.obj # NULL => Fills(objs, e) /\ OwnCell(objs, e, n)
    BY <1>1 DEF Clean
  <2>2. /\ x \in Cell /\ e \in Cell /\ x.type = e.type /\ x.at = e.at /\ x.buf = e.buf
        /\ x = e \/ Taken(objs, h, x, e)
    BY <1>7
  <2>3. CASE x = e
    <3>1. e.obj # NULL => e.obj \in Obj /\ objs[e.obj].refs > 0
      BY <1>2, Alive
    <3> HIDE DEF e, x, y
    <3>2. ASSUME e.obj # NULL, objs[e.obj].kid # NULL
          PROVE  objs[e.obj].kid \in Obj /\ objs[objs[e.obj].kid].refs > 0
      BY <1>1, <3>1, <3>2, GoodIs
    <3>3. e.obj # NULL => Fills(h, e) /\ OwnCell(h, e, n)
      BY <1>6, <2>1, <3>1, <3>2 DEF Fills, Fits, OwnCell
    <3> QED BY <2>1, <2>3, <3>3 DEF Clean, e, x, y
  <2>4. CASE Taken(objs, h, x, e)
    <3>1. Where(s, n) \in DOMAIN sections /\ x = s[Where(s, n)][n] /\ e = sections[Where(s, n)][n]
      BY <1>1, <1>7, EntryIs DEF Entry
    <3>2. x # e
      <4> HIDE DEF x, e
      <4> QED BY <2>4, ObjFinite DEF Taken
    <3>3. n # 0
      BY DEF Num
    <3>4. OwnCell(h, x, n)
      <4> DEFINE j == Where(s, n)
      <4>1. j \in DOMAIN sections /\ s[j][n] # sections[j][n]
        BY <3>1, <3>2
      <4>2. OwnCell(h, s[j][n], n)
        <5> HIDE DEF j, x, e
        <5> QED BY <1>6, <3>3, <4>1
      <4> QED BY <3>1, <4>2
    <3> HIDE DEF e, x, y
    <3>5. Fills(h, x)
      BY <2>4 DEF Taken
    <3> QED BY <2>1, <2>2, <3>4, <3>5 DEF Clean, e, x, y
  <2> QED BY <2>2, <2>3, <2>4
<1>12. \A m \in Streams : ~Inc(s, altered, m) /\ Entry(s, m).type = "n"
  BY <1>1, <1>7, <1>10
<1>13. Lone(h, held)
  BY <1>8 DEF Lone, h
<1> QED BY <1>4, <1>11, <1>12, <1>13 DEF s, h

\* How often an object is referred to makes no difference.
LEMMA CleanLooks ==
  ASSUME NEW s, NEW l, NEW h, NEW k, Ties(s, l, h, k), NEW a, NEW f, NEW n \in Num, Clean(s, a, h, f, n),
         NEW g, \A p \in Obj : h[p].refs # 0 =>
                  g[p].val = h[p].val /\ g[p].kid = h[p].kid /\ g[p].parent = h[p].parent
  PROVE  Clean(s, a, g, f, n)
<1>1. Entry(s, n).obj # NULL => Untouched(h, g, Entry(s, n).obj)
  <2> SUFFICES ASSUME Entry(s, n).obj # NULL PROVE Untouched(h, g, Entry(s, n).obj)
    OBVIOUS
  <2> DEFINE e == Entry(s, n).obj
  <2>1. e \in Obj /\ h[e].refs > 0 /\ Good(h, Ext(s, k))
    BY Alive DEF Ties
  <2> HIDE DEF e
  <2>2. h[e].kid # NULL => h[e].kid \in Obj /\ h[h[e].kid].refs > 0
    BY <2>1, GoodIs
  <2> QED BY <2>1, <2>2 DEF Untouched, e
<1>2. SameEntry(s, s, n)
  BY DEF SameEntry
<1> QED BY <1>1, <1>2, CleanKeeps

LEMMA LoadKept ==
  ASSUME Kept, NEW n \in Num, NEW h \in Held, Load(n, h)
  PROVE  Kept'
<1> DEFINE c == Cache(n)
           o == Entry(c.s, n).obj
<1>1. /\ Loadable /\ held[h] = NULL /\ sections' = c.s
      /\ (IF c.err = "none" THEN objs' = Keep(c.h, o) /\ held' = [held EXCEPT ![h] = o]
                            ELSE objs' = c.h /\ held' = held)
      /\ Threw(c.err) /\ UNCHANGED <<altered, len, arrived, file, edits>>
  BY DEF Load
<1>2. Basic /\ Basic' /\ held \in Clients
  BY KeptIs, LoadBasic
<1>3. c \in Stages(sections, objs, held) /\ (c.err = "none" => o \in Obj)
  BY <1>1, <1>2, CacheStage
<1> HIDE DEF c
<1>4. /\ Ties(c.s, len, c.h, held) /\ Lone(c.h, held)
      /\ \A m \in Streams : ~Inc(c.s, altered, m) /\ Entry(c.s, m).type = "n"
      /\ \A m \in Num : Clean(c.s, altered, c.h, file.secs, m)
  BY <1>3, StagedKept
<1>5. c.h \in Heap /\ \A p \in Obj : c.h[p].refs \in Nat
  BY <1>4, GoodIs DEF Ties, Good
<1>6. c.err = "none" => \A p \in Obj :
        /\ objs'[p].val = c.h[p].val /\ objs'[p].kid = c.h[p].kid /\ objs'[p].parent = c.h[p].parent
        /\ objs'[p].refs = c.h[p].refs + One(p, o)
  <2> SUFFICES ASSUME c.err = "none"
               PROVE  \A p \in Obj :
                        /\ objs'[p].val = c.h[p].val /\ objs'[p].kid = c.h[p].kid
                        /\ objs'[p].parent = c.h[p].parent
                        /\ objs'[p].refs = c.h[p].refs + One(p, o)
    OBVIOUS
  <2>1. o \in Obj /\ objs' = Keep(c.h, o)
    BY <1>1, <1>3
  <2> HIDE DEF o
  <2> QED BY <1>5, <2>1 DEF Keep, One, Heap, ObjType
<1>7. \A p \in Obj : /\ objs'[p].val = c.h[p].val /\ objs'[p].kid = c.h[p].kid
                     /\ objs'[p].parent = c.h[p].parent
  BY <1>1, <1>6
<1>8. Lone(objs', held')
  <2>1. CASE c.err # "none"
    BY <1>1, <1>4, <2>1
  <2>2. CASE c.err = "none"
    <3>1. held' = [held EXCEPT ![h] = o] /\ o \in Obj
      BY <1>1, <1>3, <2>2
    <3> HIDE DEF o
    <3>2. ASSUME NEW p \in Obj PROVE objs'[p].refs <= 1 + Count(held', p)
      <4>1. /\ Count(held, p) \in Nat /\ Count(held', p) \in Nat
            /\ Count(held', p) = Count(held, p) + One(p, o) - One(p, held[h])
        BY <1>2, <3>1, HeldCount
      <4>2. One(p, held[h]) = 0 /\ One(p, o) \in {0, 1}
        BY <1>1, ObjFinite DEF One
      <4>3. c.h[p].refs <= 1 + Count(held, p)
        BY <1>4 DEF Lone
      <4>4. objs'[p].refs = c.h[p].refs + One(p, o)
        BY <1>6, <2>2
      <4> QED BY <1>5, <4>1, <4>2, <4>3, <4>4
    <3> QED BY <3>2 DEF Lone
  <2> QED BY <2>1, <2>2
<1>9. ASSUME NEW m \in Num PROVE Clean(sections', altered', objs', file'.secs, m)
  <2>1. Clean(c.s, altered, objs', file.secs, m)
    BY <1>4, <1>7, CleanLooks
  <2> QED BY <1>1, <2>1
<1>10. \A m \in Streams : ~Inc(sections', altered', m) /\ Entry(sections', m).type = "n"
  BY <1>1, <1>4
<1> QED BY <1>2, <1>8, <1>9, <1>10, KeptAfter

LEMMA ResolveKept ==
  ASSUME Kept, NEW n \in Num, Resolve(n)
  PROVE  Kept'
<1> DEFINE c == Cache(n)
<1>1. /\ Loadable /\ sections' = c.s /\ objs' = c.h /\ UNCHANGED <<altered, held, file>>
  BY DEF Resolve
<1>2. Basic /\ Basic'
  BY KeptIs, ResolveBasic
<1>3. c \in Stages(sections, objs, held)
  BY <1>1, <1>2, CacheStage
<1> HIDE DEF c
<1>4. /\ Lone(c.h, held)
      /\ \A m \in Streams : ~Inc(c.s, altered, m) /\ Entry(c.s, m).type = "n"
      /\ \A m \in Num : Clean(c.s, altered, c.h, file.secs, m)
  BY <1>3, StagedKept
<1>5. /\ Lone(objs', held')
      /\ \A m \in Streams : ~Inc(sections', altered', m) /\ Entry(sections', m).type = "n"
      /\ \A m \in Num : Clean(sections', altered', objs', file'.secs, m)
  BY <1>1, <1>4
<1> QED BY <1>2, <1>5, KeptAfter

LEMMA ReleaseKept ==
  ASSUME Kept, NEW h \in Held, Release(h)
  PROVE  Kept'
<1> DEFINE o == held[h]
           d == Drop(objs, o)
<1>1. /\ Basic /\ Lone(objs, held) /\ held \in Clients /\ sections \in Table
      /\ Good(objs, Ext(sections, held))
      /\ \A m \in Streams : ~Inc(sections, altered, m) /\ Entry(sections, m).type = "n"
      /\ \A m \in Num : Clean(sections, altered, objs, file.secs, m)
      /\ \A p \in Obj : objs[p].refs \in Nat /\ Count(held, p) \in Nat
  BY KeptIs
<1>2. /\ o # NULL /\ objs' = d /\ held' = [held EXCEPT ![h] = NULL]
      /\ UNCHANGED <<sections, altered, len, Reading, edits>>
  BY DEF Release
<1>3. Basic' /\ Same(objs, objs')
  BY <1>1, ReleaseBasic
<1>4. o \in Obj
  BY <1>1, <1>2 DEF Clients
<1>5. Ext(sections, held)[o] > 0
  BY <1>1, <1>4, ExtIs
<1>6. held[h] = o
  OBVIOUS
<1> HIDE DEF d, o
<1>7. \A p \in Obj : objs'[p].refs <= objs[p].refs - One(p, o)
  BY <1>1, <1>2, <1>4, <1>5, DropLess DEF d
<1>8. \A p \in Obj : objs'[p].refs \in Nat
  <2>1. Good(objs', Ext(sections', held'))
    BY <1>3 DEF Basic
  <2> QED BY <2>1, GoodIs
<1>9. ASSUME NEW p \in Obj PROVE objs'[p].refs <= 1 + Count(held', p)
  <2>1. /\ Count(held, p) \in Nat /\ Count(held', p) \in Nat
        /\ Count(held', p) = Count(held, p) + One(p, NULL) - One(p, o)
    <3> DEFINE z == NULL
    <3>1. z \in Obj \cup {NULL} /\ held' = [held EXCEPT ![h] = z]
      BY <1>2
    <3> HIDE DEF z
    <3>2. /\ Count(held, p) \in Nat /\ Count(held', p) \in Nat
          /\ Count(held', p) = Count(held, p) + One(p, z) - One(p, held[h])
      BY <1>1, <3>1, HeldCount
    <3> QED BY <1>6, <3>2 DEF z
  <2>2. One(p, NULL) = 0 /\ One(p, o) \in {0, 1}
    BY ObjFinite DEF One
  <2>3. objs[p].refs <= 1 + Count(held, p) /\ objs[p].refs \in Nat /\ objs'[p].refs \in Nat
    BY <1>1, <1>8 DEF Lone
  <2>4. objs'[p].refs <= objs[p].refs - One(p, o)
    BY <1>7
  <2> QED BY <2>1, <2>2, <2>3, <2>4
<1>10. ASSUME NEW m \in Num PROVE Clean(sections', altered', objs', file'.secs, m)
  <2>1. Entry(sections, m).obj # NULL => Untouched(objs, objs', Entry(sections, m).obj)
    <3> SUFFICES ASSUME Entry(sections, m).obj # NULL PROVE Untouched(objs, objs', Entry(sections, m).obj)
      OBVIOUS
    <3> DEFINE E == {}
    <3>1. Ties(sections', len', objs', held') /\ sections' = sections
      BY <1>2, <1>3 DEF Basic, Ties
    <3>2. \A p \in Obj : objs'[p].refs # 0 /\ p \notin E =>
            objs'[p].val = objs[p].val /\ objs'[p].kid = objs[p].kid
            /\ objs'[p].parent = objs[p].parent
      BY <1>3 DEF Same
    <3>3. \A x : x \notin E
      OBVIOUS
    <3> HIDE DEF E
    <3>4. Entry(sections', m).obj # NULL
      BY <3>1
    <3>5. Untouched(objs, objs', Entry(sections', m).obj)
      BY <3>1, <3>2, <3>3, <3>4, UntouchedIs
    <3> QED BY <3>1, <3>5
  <2>2. SameEntry(sections', sections, m) /\ (Inc(sections, altered, m) => Inc(sections', altered', m))
    BY <1>2 DEF SameEntry
  <2>3. Clean(sections', altered', objs', file.secs, m)
    BY <1>1, <2>1, <2>2, CleanKeeps
  <2> QED BY <1>2, <2>3 DEF Reading
<1>11. \A m \in Streams : ~Inc(sections', altered', m) /\ Entry(sections', m).type = "n"
  BY <1>1, <1>2
<1>12. Lone(objs', held')
  BY <1>9 DEF Lone
<1> QED BY <1>3, <1>10, <1>11, <1>12, KeptAfter

LEMMA ArriveKept ==
  ASSUME Kept, NEW n \in Num, Arrive(n)
  PROVE  Kept'
<1>1. UNCHANGED <<sections, altered, len, objs, held, file>>
  BY DEF Arrive
<1>2. Basic' /\ Kept
  BY KeptIs, ArriveBasic
<1>3. /\ Lone(objs', held')
      /\ \A m \in Streams : ~Inc(sections', altered', m) /\ Entry(sections', m).type = "n"
      /\ \A m \in Num : Clean(sections', altered', objs', file'.secs, m)
  BY <1>1, KeptIs
<1> QED BY <1>2, <1>3, KeptAfter

\* A section in front of the file: what it says nothing of is as it was.
LEMMA SavedEntry ==
  ASSUME Basic, SaveIncremental, NEW n \in Num
  PROVE  /\ Inc(sections, altered, n) => Entry(file'.secs, n) = Section[n]
         /\ ~Inc(sections, altered, n) =>
              /\ Entry(file'.secs, n).type = Entry(file.secs, n).type
              /\ Entry(file.secs, n).type # "undefined" =>
                   Entry(file'.secs, n) = Entry(file.secs, n)
<1> DEFINE x == Section
           f == file.secs
           T == [Num -> FileCell]
<1>1. file'.secs = <<x>> \o f
  BY Zenon DEF SaveIncremental, Section
<1>2. f \in Seq(T) /\ f # << >> /\ altered
  BY DEF Basic, SaveIncremental
<1>3. /\ x \in T
      /\ ~IsIncremental(n) => x[n].type = "undefined"
      /\ IsIncremental(n) => x[n].type # "undefined"
  <2>1. /\ Section \in [Num -> FileCell]
        /\ ~IsIncremental(n) => Section[n] = [type |-> "undefined", ofs |-> 0, at |-> Nothing]
        /\ IsIncremental(n) /\ sections[1][n].type = "f" =>
             Section[n] = [type |-> "f", ofs |-> 0, at |-> Nothing]
        /\ IsIncremental(n) /\ sections[1][n].type # "f" =>
             Section[n] = [type |-> "n", ofs |-> n, at |-> Value(n)]
    BY SectionIs
  <2> HIDE DEF Section
  <2> QED BY <2>1
<1>4. Inc(sections, altered, n) <=> IsIncremental(n)
  BY Zenon DEF Inc, IsIncremental
<1> HIDE DEF x, f, T
<1>5. /\ Where(<<x>> \o f, n) =
           IF x[n].type # "undefined" \/ f[Where(f, n)][n].type = "undefined" THEN 1
           ELSE Where(f, n) + 1
      /\ f[Where(f, n)][n].type # "undefined" \/ x[n].type # "undefined" =>
           Entry(<<x>> \o f, n) = IF x[n].type # "undefined" THEN x[n] ELSE Entry(f, n)
  BY <1>2, <1>3, WherePushed
<1>6. Entry(f, n).type = f[Where(f, n)][n].type
  BY DEF Entry
<1>7. CASE Inc(sections, altered, n)
  BY <1>1, <1>3, <1>4, <1>5, <1>7 DEF x
<1>8. CASE ~Inc(sections, altered, n)
  <2>1. x[n].type = "undefined"
    BY <1>3, <1>4, <1>8
  <2>2. CASE Entry(f, n).type # "undefined"
    BY <1>1, <1>5, <1>6, <1>8, <2>1, <2>2 DEF f
  <2>3. CASE Entry(f, n).type = "undefined"
    <3>1. Where(<<x>> \o f, n) = 1
      BY <1>5, <1>6, <2>3
    <3>2. (<<x>> \o f)[1] = x
      <4>1. x \in T
        BY <1>3
      <4> QED BY <1>2, <4>1
    <3>3. Entry(<<x>> \o f, n) = x[n]
      BY <3>1, <3>2 DEF Entry
    <3> QED BY <1>1, <1>8, <2>1, <2>3, <3>3 DEF f
  <2> QED BY <2>2, <2>3
<1> QED BY <1>7, <1>8

LEMMA SaveKept ==
  ASSUME Kept, SaveIncremental
  PROVE  Kept'
<1>1. /\ Basic /\ Lone(objs, held) /\ Streams \in SUBSET Num
      /\ \A m \in Streams : ~Inc(sections, altered, m) /\ Entry(sections, m).type = "n"
      /\ \A n \in Num : Clean(sections, altered, objs, file.secs, n)
  BY KeptIs
<1>2. Basic' /\ UNCHANGED <<sections, altered, len, objs, held>>
  BY <1>1, SaveBasic DEF SaveIncremental
<1>3. ASSUME NEW n \in Num PROVE Clean(sections', altered', objs', file'.secs, n)
  <2> DEFINE y == Entry(file.secs, n)
             z == Entry(file'.secs, n)
  <2> SUFFICES ASSUME ~Inc(sections, altered, n) PROVE Clean(sections, altered, objs, file'.secs, n)
    BY <1>2 DEF Clean
  <2>1. z.type = y.type /\ (y.type # "undefined" => z = y)
    BY <1>1, SavedEntry
  <2> HIDE DEF y, z
  <2>2. /\ Entry(sections, n).type = y.type
        /\ Entry(sections, n).type # "undefined" =>
             Entry(sections, n).at = y.at /\ Entry(sections, n).buf = 0
        /\ Entry(sections, n).obj # NULL =>
             Fills(objs, Entry(sections, n)) /\ OwnCell(objs, Entry(sections, n), n)
    BY <1>1 DEF Clean, y
  <2>3. /\ Entry(sections, n).type = z.type
        /\ Entry(sections, n).type # "undefined" =>
             Entry(sections, n).at = z.at /\ Entry(sections, n).buf = 0
    BY <2>1, <2>2
  <2> QED BY <2>2, <2>3 DEF Clean, z
<1>4. /\ Lone(objs', held')
      /\ \A m \in Streams : ~Inc(sections', altered', m) /\ Entry(sections', m).type = "n"
  BY <1>1, <1>2
<1> QED BY <1>2, <1>3, <1>4, KeptAfter

\* A document that has just been opened: nothing is cached, and nothing alive.
LEMMA OpenedKept ==
  ASSUME NEW f \in Seq([Num -> FileCell]), f # << >>, NEW h, Good(h, [o \in Obj |-> 0]),
         NEW k \in Clients
  PROVE  /\ Lone(h, k)
         /\ \A n \in Num : Clean(Read(f), FALSE, h, f, n) /\ ~Inc(Read(f), FALSE, n)
<1>1. ASSUME NEW o \in Obj PROVE h[o].refs = 0
  <2>1. h[o].refs = 0 + Count(KidOf(h), o) /\ Count(KidOf(h), o) \in Nat
    BY GoodIs
  <2>2. ASSUME Count(KidOf(h), o) > 0 PROVE FALSE
    <3>1. PICK p \in Obj : h[p].kid = o
      BY <2>2, KidsCount
    <3>2. h[p].kid # NULL
      BY <3>1, ObjFinite
    <3>3. h[p].refs > 0 /\ Count(KidOf(h), p) = 0 /\ h[p].refs = 0 + Count(KidOf(h), p)
      BY <3>2, GoodIs
    <3> QED BY <3>3
  <2> QED BY <2>1, <2>2
<1>2. \A o \in Obj : Count(k, o) \in Nat
  BY BoundsAssumption, CountNat DEF Clients
<1>3. Lone(h, k)
  BY <1>1, <1>2 DEF Lone
<1>4. \A n \in Num :
        /\ Entry(Read(f), n).type = Entry(f, n).type /\ Entry(Read(f), n).at = Entry(f, n).at
        /\ Entry(Read(f), n).obj = NULL /\ Entry(Read(f), n).buf = 0
  BY ReadIs
<1>5. \A n \in Num : Clean(Read(f), FALSE, h, f, n) /\ ~Inc(Read(f), FALSE, n)
  BY <1>4 DEF Clean, Inc
<1> QED BY <1>3, <1>5

LEMMA ReopenKept ==
  ASSUME Kept, Reopen
  PROVE  Kept'
<1>1. /\ Basic /\ Streams \in SUBSET Num /\ held \in Clients
      /\ \A m \in Streams : ~Inc(sections, altered, m) /\ Entry(sections, m).type = "n"
      /\ \A n \in Num : Clean(sections, altered, objs, file.secs, n)
      /\ sections \in Table /\ Good(objs, Ext(sections, held))
  BY KeptIs
<1>2. /\ \A h \in Held : held[h] = NULL
      /\ objs' = Freed(objs, sections) /\ sections' = Read(file.secs)
      /\ altered' = FALSE /\ UNCHANGED <<held, file>>
  BY DEF Reopen
<1>3. Basic' /\ file.secs \in Seq([Num -> FileCell]) /\ file.secs # << >>
  BY <1>1, ReopenBasic DEF Basic
<1>4. Good(objs', [o \in Obj |-> 0])
  BY <1>1, <1>2, FreedGood
<1>5. /\ Lone(objs', held)
      /\ \A n \in Num : Clean(Read(file.secs), FALSE, objs', file.secs, n)
                        /\ ~Inc(Read(file.secs), FALSE, n)
  BY <1>1, <1>3, <1>4, OpenedKept
<1>6. /\ Lone(objs', held')
      /\ \A n \in Num : Clean(sections', altered', objs', file'.secs, n)
                        /\ ~Inc(sections', altered', n)
  BY <1>2, <1>5
<1>7. ASSUME NEW m \in Streams PROVE Entry(sections', m).type = "n"
  <2>1. Entry(file.secs, m).type = "n"
    BY <1>1 DEF Clean
  <2>2. m \in Num
    BY <1>1
  <2>3. Entry(Read(file.secs), m).type = Entry(file.secs, m).type
    BY <1>3, <2>2, ReadIs
  <2> QED BY <1>2, <2>1, <2>3
<1> QED BY <1>1, <1>3, <1>6, <1>7, KeptAfter

LEMMA InitKept == Init => Kept
<1> SUFFICES ASSUME Init PROVE Kept
  OBVIOUS
<1>1. /\ sections = Read(Layout) /\ altered = FALSE /\ file.secs = Layout
      /\ objs = [o \in Obj |-> Unused] /\ Basic
  BY InitBasic DEF Init
<1>2. held \in Clients /\ Good(objs, Ext(sections, held)) /\ sections \in Table
  BY <1>1 DEF Basic
<1>3. /\ Layout \in Seq([Num -> FileCell]) /\ Layout # << >>
      /\ \A m \in Streams : m \in Num /\ Entry(Layout, m).type = "n"
  BY LayoutShape, StreamsAre
<1>4. Ext(sections, held) = [o \in Obj |-> 0]
  <2>1. held = [h \in Held |-> NULL]
    BY DEF Init
  <2>2. \A j \in DOMAIN sections, n \in Num : sections[j][n].obj = NULL
    BY <1>1, <1>3, ReadIs
  <2> QED BY <1>2, <2>1, <2>2, ExtNone
<1>5. /\ Lone(objs, held)
      /\ \A n \in Num : Clean(Read(Layout), FALSE, objs, Layout, n) /\ ~Inc(Read(Layout), FALSE, n)
  BY <1>2, <1>3, <1>4, OpenedKept
<1>6. \A m \in Streams : Entry(Read(Layout), m).type = "n"
  BY <1>3, ReadIs
<1> QED BY <1>1, <1>3, <1>5, <1>6 DEF Kept, StreamsStay

LEMMA ReadsKept ==
  ASSUME Kept, Reads
  PROVE  Kept'
<1>1. ASSUME NEW n \in Num, Resolve(n) PROVE Kept'
  BY <1>1, ResolveKept
<1>2. ASSUME NEW n \in Num, Arrive(n) PROVE Kept'
  BY <1>2, ArriveKept
<1>3. ASSUME NEW n \in Num, NEW h \in Held, Load(n, h) PROVE Kept'
  BY <1>3, LoadKept
<1>4. ASSUME NEW h \in Held, Release(h) PROVE Kept'
  BY <1>4, ReleaseKept
<1>5. \/ \E n \in Num : Resolve(n) \/ Arrive(n) \/ \E h \in Held : Load(n, h)
      \/ \E h \in Held : Release(h)
  BY DEF Reads
<1> QED BY Zenon, <1>1, <1>2, <1>3, <1>4, <1>5

LEMMA EditsKeptStep ==
  ASSUME Kept, Orderly, Edits
  PROVE  Kept'
<1>1. edits' = edits + 1
  BY DEF Edits
<1>11. Basic'
  BY EditsBasic, KeptIs
<1>2. ASSUME NEW o \in Obj, Put(o) PROVE Kept'
  BY <1>2, <1>11, PutEdited, EditKept
<1>3. ASSUME NEW o \in Obj, Del(o) PROVE Kept'
  BY <1>3, <1>11, DelEdited, EditKept
<1>4. ASSUME NEW o \in Obj, NEW v \in Obj, PutDict(o, v) PROVE Kept'
  BY <1>4, <1>11, PutDictEdited, EditKept
<1>5. ASSUME NEW h \in Held, NewDict(h) PROVE Kept'
  BY <1>1, <1>5, NewDictKept
<1>6. ASSUME Create PROVE Kept'
  BY <1>6, <1>11, CreateKept
<1>7. ASSUME NEW n \in Num, Delete(n) PROVE Kept'
  BY <1>7, <1>11, DeleteKept
<1>8. ASSUME NEW n \in Num, UpdateStream(n) PROVE Kept'
  BY <1>8, <1>11, UpdateStreamKept
<1>9. ASSUME NEW n \in Num, NEW h \in Held, Update(n, h) PROVE Kept'
  BY <1>1, <1>9, UpdateKept
<1>10. \/ \E o \in Obj : Put(o) \/ Del(o) \/ \E v \in Obj : PutDict(o, v)
       \/ \E h \in Held : NewDict(h)
       \/ Create
       \/ \E n \in Num : Delete(n) \/ UpdateStream(n) \/ \E h \in Held : Update(n, h)
  BY DEF Edits
<1> QED BY Zenon, <1>2, <1>3, <1>4, <1>5, <1>6, <1>7, <1>8, <1>9, <1>10

LEMMA KeptStays ==
  ASSUME Kept, Orderly, [Next]_vars
  PROVE  Kept'
<1>1. CASE Reads
  BY <1>1, ReadsKept
<1>2. CASE Edits
  BY <1>2, EditsKeptStep
<1>3. CASE SaveIncremental
  BY <1>3, SaveKept
<1>4. CASE Reopen
  BY <1>4, ReopenKept
<1>5. CASE UNCHANGED vars
  <2>1. UNCHANGED <<sections, altered, len, objs, held, arrived, code, file, edits>>
    BY <1>5 DEF vars
  <2>2. Basic'
    BY KeptIs, BasicStays
  <2>3. /\ Lone(objs', held')
        /\ \A m \in Streams : ~Inc(sections', altered', m) /\ Entry(sections', m).type = "n"
        /\ \A m \in Num : Clean(sections', altered', objs', file'.secs, m)
    BY <2>1, KeptIs
  <2> QED BY <2>2, <2>3, KeptAfter
<1> QED BY <1>1, <1>2, <1>3, <1>4, <1>5 DEF Next

\* What has no entry for changes is read as it is in the file.
LEMMA CleanValue ==
  ASSUME Kept, NEW n \in Num, ~Inc(sections, altered, n)
  PROVE  Value(n) = InFile(n)
<1> DEFINE e == Entry(sections, n)
           y == Entry(file.secs, n)
           o == e.obj
<1>1. /\ Basic /\ sections \in Table /\ Good(objs, Ext(sections, held)) /\ Bare(sections)
      /\ Shape(sections, len) /\ Clean(sections, altered, objs, file.secs, n)
  BY KeptIs
<1>2. /\ file.secs \in Seq([Num -> FileCell]) /\ file.secs # << >>
      /\ Shape(file.secs, file.len)
  BY <1>1 DEF Basic
<1>3. /\ e.type = y.type /\ (e.type # "undefined" => e.at = y.at /\ e.buf = 0)
      /\ o # NULL => Fills(objs, e)
  BY <1>1 DEF Clean
<1>4. e \in Cell /\ e = sections[Where(sections, n)][n] /\ Where(sections, n) \in DOMAIN sections
  BY <1>1, EntryIs
<1>5. Where(file.secs, n) \in DOMAIN file.secs /\ y = file.secs[Where(file.secs, n)][n]
  BY <1>2, WhereIs DEF Entry
<1>6. (n > len => e.type = "undefined") /\ (n > file.len => y.type = "undefined")
  <2> HIDE DEF e, y
  <2> QED BY <1>1, <1>2, <1>4, <1>5 DEF Shape
<1>7. Value(n) = ValueFrom(e, objs, len, n)
  BY ValueFromIs
<1>8. InFile(n) = IF n > file.len \/ y.type \in {"undefined", "f"} THEN Nothing ELSE y.at
  BY Zenon DEF InFile
<1>9. o # NULL => o \in Obj
  BY <1>4 DEF Cell
<1> HIDE DEF e, y
<1>10. CASE e.type \in {"undefined", "f"}
  <2>1. Value(n) = Nothing
    BY Zenon, <1>7, <1>10 DEF ValueFrom
  <2>2. y.type \in {"undefined", "f"}
    BY <1>3, <1>10
  <2> QED BY Zenon, <1>8, <2>1, <2>2
<1>11. CASE e.type \notin {"undefined", "f"}
  <2>1. /\ y.type \notin {"undefined", "f"} /\ ~(n > len) /\ ~(n > file.len)
        /\ e.at = y.at /\ e.buf = 0 /\ e.at \in Content
    BY <1>3, <1>4, <1>6, <1>11 DEF Cell
  <2>2. InFile(n) = e.at
    BY Zenon, <1>8, <2>1
  <2> DEFINE stm == e.at.stm
  <2>3. Value(n) = IF e.obj = NULL THEN [e.at EXCEPT !.stm = stm]
                   ELSE [val |-> objs[e.obj].val, stm |-> stm,
                         kid |-> IF objs[e.obj].kid = NULL THEN 0 ELSE objs[objs[e.obj].kid].val]
    BY Zenon, <1>7, <1>11, <2>1 DEF ValueFrom
  <2>4. CASE e.obj = NULL
    BY <2>1, <2>2, <2>3, <2>4 DEF Content
  <2>5. CASE e.obj # NULL
    <3>1. Fits(objs, e.obj, e.at)
      BY <1>3, <1>11, <2>5 DEF Fills
    <3>2. /\ objs[e.obj].val = e.at.val
          /\ (IF objs[e.obj].kid = NULL THEN 0 ELSE objs[objs[e.obj].kid].val) = e.at.kid
      <4>1. objs[e.obj].val = e.at.val
        BY <3>1 DEF Fits
      <4>2. CASE e.at.kid = 0
        BY <3>1, <4>2 DEF Fits
      <4>3. CASE e.at.kid # 0
        BY <3>1, <4>3 DEF Fits
      <4> QED BY <4>1, <4>2, <4>3
    <3>3. Value(n) = [val |-> e.at.val, stm |-> stm, kid |-> e.at.kid]
      BY Zenon, <2>3, <2>5, <3>2
    <3>4. [val |-> e.at.val, stm |-> stm, kid |-> e.at.kid] = e.at
      <4> DEFINE c == e.at
      <4>1. c \in Content
        BY <2>1
      <4> HIDE DEF c
      <4>2. [val |-> c.val, stm |-> c.stm, kid |-> c.kid] = c
        BY <4>1 DEF Content
      <4> QED BY <4>2 DEF c
    <3> QED BY <2>2, <3>3, <3>4
  <2> QED BY <2>4, <2>5
<1> QED BY <1>10, <1>11

\* An object that is not in the section for changes is as it is in the file: what
\* is changed is written out with the next incremental save, as long as clients
\* edit what they asked for, give what they put in to one object only, and move
\* what they set a stream of.
THEOREM EditsKeptHolds ==
  ASSUME Orderly
  PROVE  Spec => []EditsKept
<1>1. Kept => EditsKept
  <2> SUFFICES ASSUME Kept, NEW n \in 1..len, ~IsIncremental(n) PROVE Value(n) = InFile(n)
    BY DEF EditsKept
  <2>1. n \in Num
    <3>1. len \in FileLen..MaxNum /\ FileLen \in Nat /\ MaxNum \in Nat
      BY KeptIs, TiesNow
    <3> QED BY <3>1 DEF Num
  <2>2. ~Inc(sections, altered, n)
    BY Zenon DEF Inc, IsIncremental
  <2> QED BY <2>1, <2>2, CleanValue
<1>2. Init => Kept
  BY InitKept
<1>3. Kept /\ [Next]_vars => Kept'
  BY KeptStays
<1> QED BY <1>1, <1>2, <1>3, PTL DEF Spec

-----------------------------------------------------------------------------
(* What is edited, saved and opened again                                  *)

\* An entry that is the same, with an object that looks the same, is read the same.
LEMMA OtherValue ==
  ASSUME Basic, Basic', NEW n \in Num, SameEntry(sections', sections, n),
         Entry(sections, n).obj # NULL => Untouched(objs, objs', Entry(sections, n).obj)
  PROVE  Value(n)' = Value(n)
<1> DEFINE e == Entry(sections, n)
           x == Entry(sections', n)
<1>1. sections \in Table /\ sections' \in Table /\ Shape(sections, len) /\ Shape(sections', len')
  BY DEF Basic
<1>2. /\ e \in Cell /\ e = sections[Where(sections, n)][n] /\ Where(sections, n) \in DOMAIN sections
      /\ x \in Cell /\ x = sections'[Where(sections', n)][n]
      /\ Where(sections', n) \in DOMAIN sections'
  <2>1. e \in Cell /\ e = sections[Where(sections, n)][n] /\ Where(sections, n) \in DOMAIN sections
    BY <1>1, EntryIs
  <2>2. x \in Cell /\ x = sections'[Where(sections', n)][n] /\ Where(sections', n) \in DOMAIN sections'
    BY <1>1, EntryIs
  <2> QED BY <2>1, <2>2
<1>3. Value(n) = ValueFrom(e, objs, len, n) /\ Value(n)' = ValueFrom(x, objs', len', n)
  BY ValueFromIs, ValueFromNext
<1>4. x = e \/ (x.type = "undefined" /\ e.type = "undefined")
  BY DEF SameEntry
<1>5. /\ n > len => e.type = "undefined"
      /\ n > len' => x.type = "undefined"
  <2> HIDE DEF e, x
  <2> QED BY <1>1, <1>2 DEF Shape
<1>6. e.obj # NULL => /\ objs'[e.obj].val = objs[e.obj].val /\ objs'[e.obj].kid = objs[e.obj].kid
                      /\ objs[e.obj].kid # NULL =>
                           objs'[objs[e.obj].kid].val = objs[objs[e.obj].kid].val
  BY DEF Untouched
<1> HIDE DEF e, x
<1>7. CASE e.type = "undefined"
  <2>1. e.type \in {"undefined", "f"} /\ x.type \in {"undefined", "f"}
    BY <1>4, <1>7
  <2>2. Value(n) = Nothing /\ Value(n)' = Nothing
    BY Zenon, <1>3, <2>1 DEF ValueFrom
  <2> QED BY Zenon, <2>2
<1>8. CASE e.type # "undefined"
  <2>1. x = e /\ ~(n > len) /\ ~(n > len')
    BY <1>4, <1>5, <1>8
  <2>2. ValueFrom(x, objs', len', n) = ValueFrom(x, objs', len, n)
    BY Zenon, <2>1 DEF ValueFrom
  <2>3. ValueFrom(x, objs', len, n) = ValueFrom(e, objs, len, n)
    BY <1>2, <1>6, <2>1, SameValue
  <2> QED BY <1>3, <2>2, <2>3
<1> QED BY <1>7, <1>8

\* Two numbers do not have the same object.
LEMMA OneOwner ==
  ASSUME Kept, NEW o \in Obj, NEW n \in Num, NEW m \in Num,
         Entry(sections, n).obj # NULL, Entry(sections, m).obj # NULL,
         o \in {Entry(sections, n).obj, objs[Entry(sections, n).obj].kid},
         o \in {Entry(sections, m).obj, objs[Entry(sections, m).obj].kid}
  PROVE  n = m
<1> SUFFICES ASSUME n # m PROVE FALSE
  OBVIOUS
<1> DEFINE x == Entry(sections, n).obj
           y == Entry(sections, m).obj
           j == Where(sections, n)
           i == Where(sections, m)
           A == ObjAt(sections)
           K == KidOf(objs)
<1>1. /\ Basic /\ Lone(objs, held) /\ sections \in Table /\ held \in Clients
      /\ Good(objs, Ext(sections, held))
      /\ \A p \in Obj : objs[p].refs \in Nat /\ Count(held, p) \in Nat
  BY KeptIs
<1>2. x \in Obj /\ y \in Obj
  BY <1>1, TiesNow, Alive
<1>3. /\ IsFiniteSet(DOMAIN A) /\ DOMAIN A = (DOMAIN sections) \X Num
      /\ IsFiniteSet(DOMAIN K) /\ DOMAIN K = Obj
  BY <1>1, TableFinite, ObjFinite DEF KidOf
<1>4. /\ <<j, n>> \in DOMAIN A /\ <<i, m>> \in DOMAIN A /\ <<j, n>> # <<i, m>>
      /\ A[<<j, n>>] = x /\ A[<<i, m>>] = y
  <2>1. j \in DOMAIN sections /\ i \in DOMAIN sections
        /\ x = sections[j][n].obj /\ y = sections[i][m].obj
    BY <1>1, EntryIs
  <2> HIDE DEF j, i, x, y
  <2>2. <<j, n>> \in (DOMAIN sections) \X Num /\ <<i, m>> \in (DOMAIN sections) \X Num
    BY <2>1
  <2>3. A[<<j, n>>] = sections[j][n].obj /\ A[<<i, m>>] = sections[i][m].obj
    BY <2>2 DEF ObjAt
  <2> QED BY <1>3, <2>1, <2>2, <2>3
<1>5. \A p \in Obj : K[p] = objs[p].kid
  BY DEF KidOf
<1> HIDE DEF x, y, j, i
<1>6. \A p \in Obj : /\ objs[p].refs = Ext(sections, held)[p] + Count(K, p)
                     /\ Count(K, p) \in Nat /\ Ext(sections, held)[p] = Count(A, p) + Count(held, p)
                     /\ objs[p].refs <= 1 + Count(held, p)
  <2> TAKE p \in Obj
  <2>1. objs[p].refs = Ext(sections, held)[p] + Count(K, p) /\ Count(K, p) \in Nat
    BY <1>1, GoodIs
  <2>2. Ext(sections, held)[p] = Count(A, p) + Count(held, p)
    BY DEF Ext
  <2>3. objs[p].refs <= 1 + Count(held, p)
    BY <1>1 DEF Lone
  <2> QED BY <2>1, <2>2, <2>3
<1> HIDE DEF A, K
<1>7. \A p \in Obj : Count(A, p) \in Nat
  BY <1>3, CountNat
<1>8. ASSUME NEW p \in Obj PROVE Count(A, p) + Count(K, p) <= 1
  <2>1. Count(held, p) \in Nat /\ Count(A, p) \in Nat
    BY <1>1, <1>7
  <2> QED BY <1>6, <2>1
<1>9. x # y
  <2> SUFFICES ASSUME x = y PROVE FALSE
    OBVIOUS
  <2>1. Count(A, x) >= 2
    BY <1>2, <1>3, <1>4, CountTwice
  <2> QED BY <1>2, <1>6, <1>7, <1>8, <2>1
<1>10. ASSUME NEW p \in Obj, NEW a \in DOMAIN A, A[a] = p, NEW q \in Obj, objs[q].kid = p PROVE FALSE
  <2>1. Count(A, p) > 0
    BY <1>3, <1>10, CountNat
  <2>2. Count(K, p) > 0
    BY <1>3, <1>5, <1>10, CountNat
  <2> QED BY <1>6, <1>7, <1>8, <2>1, <2>2
<1>11. o = x \/ o = objs[x].kid
  BY DEF x
<1>12. o = y \/ o = objs[y].kid
  BY DEF y
<1>13. CASE o = x
  BY <1>2, <1>4, <1>9, <1>10, <1>12, <1>13
<1>14. CASE o = objs[x].kid
  <2>1. CASE o = y
    BY <1>2, <1>4, <1>10, <1>14, <2>1
  <2>2. CASE o = objs[y].kid
    <3>1. K[x] = o /\ K[y] = o /\ x \in DOMAIN K /\ y \in DOMAIN K
      BY <1>2, <1>3, <1>5, <1>14, <2>2
    <3>2. Count(K, o) >= 2
      BY <1>3, <1>9, <3>1, CountTwice
    <3> QED BY <1>6, <1>7, <1>8, <3>2
  <2> QED BY <1>12, <2>1, <2>2
<1> QED BY <1>11, <1>13, <1>14

\* At most one number is read otherwise than it was.
ChangesOne ==
  \/ \A m \in Num : Value(m)' = Value(m)
  \/ \E n \in Num : \A m \in Num \ {n} : Value(m)' = Value(m)

LEMMA EditChanges ==
  ASSUME Kept, Basic', NEW o \in Obj, Edited(o)
  PROVE  ChangesOne
<1> DEFINE Has(n) == LET x == Entry(sections, n).obj IN x # NULL /\ o \in {x, objs[x].kid}
<1>1. Basic
  BY KeptIs
<1>2. Altered(o)
  BY DEF Edited
<1>3. PICK E : Touches(o, E)
  BY DEF Edited
<1>4. ASSUME NEW m \in Num, ~Has(m) PROVE Value(m)' = Value(m)
  <2>1. SameEntry(sections', sections, m)
    BY <1>1, <1>2, AlteredIs
  <2>2. Entry(sections, m).obj # NULL => Untouched(objs, objs', Entry(sections, m).obj)
    BY <1>1, <1>2, <1>3, <1>4, EditSpares
  <2> QED BY <1>1, <2>1, <2>2, OtherValue
<1>5. ASSUME NEW n \in Num, NEW m \in Num, Has(n), Has(m) PROVE n = m
  BY <1>5, OneOwner
<1>6. CASE \A m \in Num : ~Has(m)
  <2> HIDE DEF Has
  <2> QED BY <1>4, <1>6 DEF ChangesOne
<1>7. CASE \E n \in Num : Has(n)
  <2>1. PICK n \in Num : Has(n)
    BY <1>7
  <2> HIDE DEF Has
  <2>2. \A m \in Num \ {n} : Value(m)' = Value(m)
    BY <1>4, <1>5, <2>1
  <2> QED BY <2>2 DEF ChangesOne
<1> QED BY <1>6, <1>7

LEMMA AloneChanges ==
  ASSUME Kept, Basic', NEW n \in Num, Alone(n),
         \A p \in Obj : objs'[p].refs # 0 =>
           objs'[p].val = objs[p].val /\ objs'[p].kid = objs[p].kid /\ objs'[p].parent = objs[p].parent
  PROVE  ChangesOne
<1>1. Basic /\ Ties(sections', len', objs', held')
  BY KeptIs DEF Basic, Ties
<1>2. ASSUME NEW m \in Num, m # n PROVE Value(m)' = Value(m)
  <2>1. SameEntry(sections', sections, m)
    BY <1>2 DEF Alone
  <2>2. Entry(sections', m).obj = Entry(sections, m).obj
    BY <2>1 DEF SameEntry
  <2>3. Entry(sections', m).obj # NULL => Untouched(objs, objs', Entry(sections', m).obj)
    <3> DEFINE E == {}
    <3>1. \A p \in Obj : objs'[p].refs # 0 /\ p \notin E =>
            objs'[p].val = objs[p].val /\ objs'[p].kid = objs[p].kid
            /\ objs'[p].parent = objs[p].parent
      OBVIOUS
    <3>2. \A o : o \notin E
      OBVIOUS
    <3> HIDE DEF E
    <3> QED BY <1>1, <3>1, <3>2, UntouchedIs
  <2>4. Entry(sections, m).obj # NULL => Untouched(objs, objs', Entry(sections, m).obj)
    BY <2>2, <2>3
  <2> QED BY <1>1, <2>1, <2>4, OtherValue
<1> QED BY <1>2 DEF ChangesOne

LEMMA NewDictChanges ==
  ASSUME Kept, NEW h \in Held, NewDict(h), edits' = edits + 1
  PROVE  ChangesOne
<1>1. Basic /\ Basic' /\ Lives(objs, objs') /\ UNCHANGED sections
  BY KeptIs, NewDictBasic
<1>2. PICK o \in Obj : objs[o].refs = 0 /\ \A p \in Obj : p # o => objs'[p] = objs[p]
  BY <1>1, NewDictBasic
<1>3. ASSUME NEW m \in Num PROVE Value(m)' = Value(m)
  <2>1. Entry(sections, m).obj # NULL => Untouched(objs, objs', Entry(sections, m).obj)
    <3> SUFFICES ASSUME Entry(sections, m).obj # NULL PROVE Untouched(objs, objs', Entry(sections, m).obj)
      OBVIOUS
    <3> DEFINE e == Entry(sections, m).obj
    <3>1. e \in Obj /\ objs[e].refs > 0 /\ Good(objs, Ext(sections, held))
      BY <1>1, TiesNow, Alive DEF Ties
    <3> HIDE DEF e
    <3>2. objs[e].kid # NULL => objs[e].kid \in Obj /\ objs[objs[e].kid].refs > 0
      BY <3>1, GoodIs
    <3>3. objs'[e] = objs[e] /\ (objs[e].kid # NULL => objs'[objs[e].kid] = objs[objs[e].kid])
      BY <1>2, <3>1, <3>2
    <3> QED BY <3>3 DEF Untouched, e
  <2>2. SameEntry(sections', sections, m)
    BY <1>1 DEF SameEntry
  <2> QED BY <1>1, <2>1, <2>2, OtherValue
<1> QED BY <1>3 DEF ChangesOne

LEMMA EditsChange ==
  ASSUME Kept, Orderly, Edits
  PROVE  ChangesOne /\ UNCHANGED file
<1>1. edits' = edits + 1 /\ Basic /\ Basic'
  BY KeptIs, EditsBasic DEF Edits
<1>2. ASSUME NEW o \in Obj, Put(o) PROVE ChangesOne /\ UNCHANGED file
  BY <1>1, <1>2, PutEdited, EditChanges DEF Edited
<1>3. ASSUME NEW o \in Obj, Del(o) PROVE ChangesOne /\ UNCHANGED file
  BY <1>1, <1>3, DelEdited, EditChanges DEF Edited
<1>4. ASSUME NEW o \in Obj, NEW v \in Obj, PutDict(o, v) PROVE ChangesOne /\ UNCHANGED file
  BY <1>1, <1>4, PutDictEdited, EditChanges DEF Edited
<1>5. ASSUME NEW h \in Held, NewDict(h) PROVE ChangesOne /\ UNCHANGED file
  BY <1>1, <1>5, NewDictChanges DEF NewDict, Reading
<1>6. ASSUME Create PROVE ChangesOne /\ UNCHANGED file
  <2> DEFINE n == len + 1
  <2>1. UNCHANGED <<objs, file>>
    BY <1>6 DEF Create, Reading
  <2>2. n \in Num /\ Sets(n, Off)
    BY <1>1, <1>6, CreateSets
  <2> HIDE DEF n
  <2>3. Alone(n)
    BY <1>1, <2>2, SetOthers
  <2> QED BY <1>1, <2>1, <2>2, <2>3, AloneChanges
<1>7. ASSUME NEW n \in Num, Delete(n) PROVE ChangesOne /\ UNCHANGED file
  <2>1. Same(objs, objs') /\ UNCHANGED file
    BY <1>1, <1>7, DeleteBasic DEF Delete, Reading
  <2>2. Alone(n)
    BY <1>1, <1>7, DeleteSets, SetOthers
  <2>3. \A p \in Obj : objs'[p].refs # 0 =>
          objs'[p].val = objs[p].val /\ objs'[p].kid = objs[p].kid /\ objs'[p].parent = objs[p].parent
    BY <2>1 DEF Same
  <2> QED BY <1>1, <2>1, <2>2, <2>3, AloneChanges
<1>8. ASSUME NEW n \in Num, UpdateStream(n) PROVE ChangesOne /\ UNCHANGED file
  <2>1. UNCHANGED <<objs, file>> /\ Alone(n)
    BY <1>1, <1>8, StreamAlone DEF UpdateStream, Reading
  <2> QED BY <1>1, <2>1, AloneChanges
<1>9. ASSUME NEW n \in Num, NEW h \in Held, Update(n, h) PROVE ChangesOne /\ UNCHANGED file
  <2>1. UNCHANGED file
    BY <1>9 DEF Update, Reading
  <2>2. Alone(n)
    <3>1. PICK e : Sets(n, e)
      BY <1>1, <1>9, UpdateSets
    <3> QED BY <1>1, <3>1, SetOthers
  <2>3. \A p \in Obj : objs'[p].refs # 0 =>
          objs'[p].val = objs[p].val /\ objs'[p].kid = objs[p].kid /\ objs'[p].parent = objs[p].parent
    BY <1>1, <1>9, UpdateBasic
  <2> QED BY <1>1, <2>1, <2>2, <2>3, AloneChanges
<1>10. \/ \E o \in Obj : Put(o) \/ Del(o) \/ \E v \in Obj : PutDict(o, v)
       \/ \E h \in Held : NewDict(h)
       \/ Create
       \/ \E n \in Num : Delete(n) \/ UpdateStream(n) \/ \E h \in Held : Update(n, h)
  BY DEF Edits
<1> QED BY Zenon, <1>2, <1>3, <1>4, <1>5, <1>6, <1>7, <1>8, <1>9, <1>10

\* What is not in the section for changes is as it is in the file.
CleanAll == \A n \in Num : ~Inc(sections, altered, n) => Value(n) = InFile(n)
LEMMA CleanAllIs == Kept => CleanAll
  BY CleanValue DEF CleanAll

LEMMA InFileNext ==
  ASSUME NEW n
  PROVE  InFile(n)' = IF n > file'.len \/ Entry(file'.secs, n).type \in {"undefined", "f"} THEN Nothing
                      ELSE Entry(file'.secs, n).at
BY Zenon DEF InFile, Entry, Where

LEMMA DiskSame ==
  ASSUME UNCHANGED file, NEW n
  PROVE  InFile(n)' = InFile(n)
BY InFileNext DEF InFile

\* An incremental save writes what is read.
LEMMA SaveWrites ==
  ASSUME Kept, SaveIncremental, CleanAll', NEW n \in Num
  PROVE  Value(n)' = Value(n) /\ InFile(n)' = Value(n)
<1>1. /\ Basic /\ sections \in Table /\ Shape(sections, len) /\ altered
  BY KeptIs DEF SaveIncremental
<1>2. /\ UNCHANGED <<sections, altered, len, objs, held>>
      /\ file' = [secs |-> <<Section>> \o file.secs, len |-> len]
  BY Zenon DEF SaveIncremental, Section
<1>3. Value(n)' = Value(n)
  <2>1. Value(n) = ValueFrom(Entry(sections, n), objs, len, n)
        /\ Value(n)' = ValueFrom(Entry(sections', n), objs', len', n)
    BY ValueFromIs, ValueFromNext
  <2> QED BY <1>2, <2>1
<1>4. CASE ~Inc(sections, altered, n)
  <2>1. ~Inc(sections', altered', n)
    BY <1>2, <1>4
  <2>2. Value(n)' = InFile(n)'
    BY <2>1 DEF CleanAll
  <2> QED BY <1>3, <2>2
<1>5. CASE Inc(sections, altered, n)
  <2> DEFINE z == Entry(file'.secs, n)
             v == Value(n)
  <2>1. z = Section[n]
    BY <1>1, <1>5, SavedEntry
  <2>2. sections[1][n].type # "undefined" /\ IsIncremental(n)
    BY <1>5 DEF Inc, IsIncremental
  <2>3. Entry(sections, n) = sections[1][n] /\ 1 \in DOMAIN sections
    <3>1. Where(sections, n) = 1
      BY <1>1, <2>2, EntryIs
    <3> QED BY <1>1, <3>1, TableFinite DEF Entry
  <2>4. n <= len /\ file'.len = len
    <3>1. n > len => sections[1][n].type = "undefined"
      BY <1>1, <2>3 DEF Shape
    <3>2. len \in Nat /\ n \in Nat
      BY <1>1, TiesNow DEF Num
    <3> QED BY <1>2, <2>2, <3>1, <3>2
  <2>5. ~(n > file'.len)
    <3>1. len \in Nat /\ n \in Nat
      BY <1>1, TiesNow DEF Num
    <3> QED BY <2>4, <3>1
  <2>6. InFile(n)' = IF n > file'.len \/ z.type \in {"undefined", "f"} THEN Nothing ELSE z.at
    BY InFileNext
  <2>7. /\ sections[1][n].type = "f" => Section[n] = [type |-> "f", ofs |-> 0, at |-> Nothing]
        /\ sections[1][n].type # "f" => Section[n] = [type |-> "n", ofs |-> n, at |-> v]
    BY <1>1, <2>2, SectionIs
  <2>8. v = ValueFrom(sections[1][n], objs, len, n)
    BY <2>3, ValueFromIs
  <2> HIDE DEF z, v
  <2>9. CASE sections[1][n].type = "f"
    <3>1. z.type \in {"undefined", "f"}
      BY <2>1, <2>7, <2>9
    <3>2. sections[1][n].type \in {"undefined", "f"}
      BY <2>9
    <3>3. InFile(n)' = Nothing
      BY Zenon, <2>6, <3>1
    <3>4. v = Nothing
      BY Zenon, <2>8, <3>2 DEF ValueFrom
    <3> QED BY <1>3, <3>3, <3>4 DEF v
  <2>10. CASE sections[1][n].type # "f"
    <3>1. z.type \notin {"undefined", "f"} /\ z.at = v
      BY <2>1, <2>7, <2>10
    <3>2. InFile(n)' = v
      BY Zenon, <2>5, <2>6, <3>1
    <3> QED BY <1>3, <3>2 DEF v
  <2> QED BY <2>9, <2>10
<1> QED BY <1>4, <1>5

Values == [n \in Num |-> Value(n)]
Disk == [n \in Num |-> InFile(n)]

\* Each step is one of Document, or none.
LEMMA StepDurable ==
  ASSUME Kept, CleanAll', Orderly, [Next]_vars
  PROVE  [Durable!Next]_<<Values, Disk>>
<1>1. /\ \A n \in Num : Values[n] = Value(n) /\ Disk[n] = InFile(n)
      /\ Values' = [n \in Num |-> Value(n)'] /\ Disk' = [n \in Num |-> InFile(n)']
  BY DEF Values, Disk
<1>2. ASSUME \A n \in Num : Value(n)' = Value(n) PROVE UNCHANGED Values
  BY <1>1, <1>2 DEF Values
<1>3. ASSUME \A n \in Num : InFile(n)' = InFile(n) PROVE UNCHANGED Disk
  BY <1>1, <1>3 DEF Disk
<1>4. CASE Reads
  <2>1. UNCHANGED file
    BY <1>4 DEF Reads, Resolve, Arrive, Load, Release, Reading
  <2>2. \A n \in Num : Value(n)' = Value(n)
    BY <1>4, KeptIs, ReadsValue
  <2> QED BY <1>2, <1>3, <2>1, <2>2, DiskSame
<1>5. CASE UNCHANGED vars
  <2>1. UNCHANGED <<sections, len, objs, file>>
    BY <1>5 DEF vars
  <2>2. ASSUME NEW n \in Num PROVE Value(n)' = Value(n)
    <3>1. Value(n) = ValueFrom(Entry(sections, n), objs, len, n)
          /\ Value(n)' = ValueFrom(Entry(sections', n), objs', len', n)
      BY ValueFromIs, ValueFromNext
    <3> QED BY <2>1, <3>1
  <2> QED BY <1>2, <1>3, <2>1, <2>2, DiskSame
<1>6. CASE SaveIncremental
  <2>1. \A n \in Num : Value(n)' = Value(n) /\ InFile(n)' = Value(n)
    BY <1>6, SaveWrites
  <2>2. UNCHANGED Values /\ Disk' = Values
    BY <1>1, <1>2, <2>1 DEF Values
  <2> QED BY <2>2 DEF Durable!Next, Durable!Save, Values, Disk
<1>7. CASE Reopen
  <2>1. UNCHANGED file /\ altered' = FALSE
    BY <1>7 DEF Reopen
  <2>2. \A n \in Num : Value(n)' = InFile(n)'
    BY <2>1 DEF CleanAll, Inc
  <2>3. \A n \in Num : InFile(n)' = InFile(n)
    BY <2>1, DiskSame
  <2>4. UNCHANGED Disk /\ Values' = Disk
    BY <1>1, <1>3, <2>2, <2>3 DEF Disk
  <2> QED BY <2>4 DEF Durable!Next, Durable!Reopen, Values, Disk
<1>8. CASE Edits
  <2>1. ChangesOne /\ UNCHANGED file
    BY <1>8, EditsChange
  <2>2. UNCHANGED Disk
    BY <1>3, <2>1, DiskSame
  <2>3. CASE \A n \in Num : Value(n)' = Value(n)
    BY <1>2, <2>2, <2>3
  <2>4. CASE \E n \in Num : \A m \in Num \ {n} : Value(m)' = Value(m)
    <3>1. PICK n \in Num : \A m \in Num \ {n} : Value(m)' = Value(m)
      BY <2>4
    <3>2. \A m \in Num \ {n} : Values'[m] = Values[m]
      BY <1>1, <3>1
    <3> QED BY <2>2, <3>2 DEF Durable!Next, Durable!Change, Values, Disk
  <2> QED BY <2>1, <2>3, <2>4 DEF ChangesOne
<1> QED BY <1>4, <1>5, <1>6, <1>7, <1>8 DEF Next

\* What a document is to those who read and edit it: an edit changes one object at
\* most, an incremental save writes what is read, and opening the file again gives
\* that back: Xref implements Document.
THEOREM SavesHolds ==
  ASSUME Orderly
  PROVE  Spec => Saves
<1>1. Init => Durable!Init
  <2> SUFFICES ASSUME Init PROVE Durable!Init
    OBVIOUS
  <2>1. CleanAll /\ altered = FALSE
    BY InitKept, CleanAllIs DEF Init
  <2>2. \A n \in Num : Value(n) = InFile(n)
    BY <2>1 DEF CleanAll, Inc
  <2> QED BY <2>2 DEF Durable!Init
<1>2. Kept /\ CleanAll' /\ [Next]_vars
        => [Durable!Next]_<<[n \in Num |-> Value(n)], [n \in Num |-> InFile(n)]>>
  BY StepDurable DEF Values, Disk
<1>3. Init => Kept
  BY InitKept
<1>4. Kept /\ [Next]_vars => Kept'
  BY KeptStays
<1> QED BY <1>1, <1>2, <1>3, <1>4, CleanAllIs, PTL DEF Spec, Saves, Durable!Spec

-----------------------------------------------------------------------------
(* What can be loaded                                                      *)

\* Stream m has something with number n.
Listed(m, n) == \E i \in DOMAIN Inside[m] : Inside[m][i].num = n
\* Entry e of number n leads to what it says.
Leads(e, n) == (e.type = "n" => e.ofs = n) /\ (e.type = "o" => Listed(e.ofs, n))
AllLead(f) ==
  /\ \A n \in Num : Leads(Entry(f, n), n)
  /\ \A m \in Streams : Entry(f, m).type = "n"
\* A file that is not damaged: nothing is where its table does not say, and what
\* an object stream lists has a number of the table.
Intact ==
  /\ \A n \in Num : Leads(Entry(Layout, n), n)
  /\ \A m \in Streams : \A i \in DOMAIN Inside[m] : Inside[m][i].num <= FileLen

\* What is not cached can be found.
Found(s) ==
  /\ \A n \in Num : Entry(s, n).obj # NULL \/ Leads(Entry(s, n), n)
  /\ \A m \in Streams : Entry(s, m).type = "n"
Sound == Basic /\ Found(sections) /\ AllLead(file.secs)

\* An entry that has no less cached, in the same place.
Like(x, e) ==
  /\ x.type = e.type /\ (x.type # "undefined" => x.ofs = e.ofs)
  /\ e.obj # NULL => x.obj # NULL
Alike(t, s) == \A n \in Num : Like(Entry(t, n), Entry(s, n))

LEMMA FoundAlike ==
  ASSUME NEW s, NEW t, Found(s), Alike(t, s)
  PROVE  Found(t)
<1>1. ASSUME NEW n \in Num PROVE Entry(t, n).obj # NULL \/ Leads(Entry(t, n), n)
  <2> DEFINE x == Entry(t, n)
             e == Entry(s, n)
  <2>1. Like(x, e) /\ (e.obj # NULL \/ Leads(e, n))
    BY DEF Found, Alike
  <2> HIDE DEF x, e
  <2> QED BY <2>1 DEF Like, Leads, x
<1>2. ASSUME NEW m \in Streams PROVE Entry(t, m).type = "n"
  <2>1. m \in Num
    BY StreamsAre
  <2>2. Like(Entry(t, m), Entry(s, m)) /\ Entry(s, m).type = "n"
    BY <2>1 DEF Found, Alike
  <2> QED BY <2>2 DEF Like
<1> QED BY <1>1, <1>2 DEF Found

LEMMA SameAlike ==
  ASSUME NEW s, NEW t, \A n \in Num : SameEntry(t, s, n)
  PROVE  Alike(t, s)
<1> SUFFICES ASSUME NEW n \in Num PROVE Like(Entry(t, n), Entry(s, n))
  BY DEF Alike
<1>1. \/ Entry(t, n) = Entry(s, n)
      \/ Entry(t, n).type = "undefined" /\ Entry(s, n).type = "undefined"
         /\ Entry(t, n).obj = NULL /\ Entry(s, n).obj = NULL
  BY DEF SameEntry
<1> QED BY <1>1 DEF Like

LEMMA StageAlike ==
  ASSUME Basic, NEW c, Stage(sections, objs, held, c)
  PROVE  Alike(c.s, sections)
<1> SUFFICES ASSUME NEW n \in Num PROVE Like(Entry(c.s, n), Entry(sections, n))
  BY DEF Alike
<1>1. sections \in Table /\ objs \in Heap /\ held \in Clients
  BY TiesNow DEF Basic
<1>2. /\ Entry(c.s, n).type = Entry(sections, n).type /\ Entry(c.s, n).ofs = Entry(sections, n).ofs
      /\ \/ Entry(c.s, n) = Entry(sections, n)
         \/ Taken(objs, c.h, Entry(c.s, n), Entry(sections, n))
  BY <1>1, GrownEntry
<1>3. Entry(sections, n).obj # NULL => Entry(c.s, n).obj # NULL
  BY <1>2, ObjFinite DEF Taken
<1> QED BY <1>2, <1>3 DEF Like

LEMMA StagesAlike ==
  ASSUME Basic, NEW c \in Stages(sections, objs, held)
  PROVE  Alike(c.s, sections)
BY StageAlike DEF Stages

LEMMA StagedFound ==
  ASSUME Sound, Loadable, NEW n \in Num, sections' = Cache(n).s
  PROVE  Found(sections')
<1>1. Basic /\ Found(sections)
  BY DEF Sound
<1>2. Cache(n) \in Stages(sections, objs, held)
  BY <1>1, CacheStage
<1>3. Alike(Cache(n).s, sections)
  BY <1>1, <1>2, StagesAlike
<1> QED BY <1>1, <1>3, FoundAlike

LEMMA AlteredFound ==
  ASSUME Sound, NEW o \in Obj, Altered(o)
  PROVE  Found(sections')
<1>1. Basic /\ Found(sections)
  BY DEF Sound
<1>2. \A m \in Num : SameEntry(sections', sections, m)
  BY <1>1, AlteredIs
<1>3. Alike(sections', sections)
  BY <1>2, SameAlike
<1> QED BY <1>1, <1>3, FoundAlike

\* An entry that is set is off, or has something cached.
LEMMA SetFound ==
  ASSUME Sound, NEW m \in Num, m \notin Streams, NEW e, Sets(m, e), e.type = "f" \/ e.obj # NULL
  PROVE  Found(sections')
<1>1. Basic /\ Found(sections) /\ Alone(m) /\ Entry(sections', m) = e
  BY SetOthers DEF Sound
<1>2. \A n \in Num : n # m => SameEntry(sections', sections, n)
  BY <1>1 DEF Alone
<1>3. ASSUME NEW n \in Num PROVE Entry(sections', n).obj # NULL \/ Leads(Entry(sections', n), n)
  <2>1. CASE n = m
    BY <1>1, <2>1 DEF Leads
  <2>2. CASE n # m
    <3>1. SameEntry(sections', sections, n) /\ (Entry(sections, n).obj # NULL \/ Leads(Entry(sections, n), n))
      BY <1>1, <1>2, <2>2 DEF Found
    <3> QED BY <3>1 DEF SameEntry, Leads
  <2> QED BY <2>1, <2>2
<1>4. ASSUME NEW n \in Streams PROVE Entry(sections', n).type = "n"
  <2>1. n \in Num /\ n # m
    BY StreamsAre
  <2>2. SameEntry(sections', sections, n) /\ Entry(sections, n).type = "n"
    BY <1>1, <1>2, <2>1 DEF Found
  <2> QED BY <2>2 DEF SameEntry
<1> QED BY <1>3, <1>4 DEF Found

LEMMA CreateFound ==
  ASSUME Sound, Create
  PROVE  Found(sections')
<1> DEFINE m == len + 1
<1>1. Basic /\ Found(sections)
  BY DEF Sound
<1>2. Sets(m, Off) /\ m \in Num /\ Entry(sections, m).type = "undefined"
  BY <1>1, CreateSets
<1> HIDE DEF m
<1>3. m \notin Streams
  BY <1>1, <1>2 DEF Found
<1> QED BY <1>2, <1>3, OffIs, SetFound

LEMMA DeleteFound ==
  ASSUME Sound, NEW m \in Num, Delete(m)
  PROVE  Found(sections')
<1>1. Basic
  BY DEF Sound
<1>2. Sets(m, Off)
  BY <1>1, DeleteSets
<1>3. m \in Editable
  BY DEF Delete
<1>4. m \notin Streams
  BY <1>1, <1>3, EditableIs
<1> QED BY <1>2, <1>4, OffIs, SetFound

LEMMA UpdateFound ==
  ASSUME Sound, NEW m \in Num, NEW h \in Held, Update(m, h)
  PROVE  Found(sections')
<1>1. Basic
  BY DEF Sound
<1>2. PICK e : Sets(m, e) /\ e.type = "n" /\ e.ofs = 0 /\ e.obj = held[h]
  BY <1>1, UpdateSets
<1>3. m \in Editable /\ held[h] # NULL
  BY DEF Update
<1>4. m \notin Streams
  BY <1>1, <1>3, EditableIs
<1> QED BY <1>2, <1>3, <1>4, SetFound

LEMMA UpdateStreamFound ==
  ASSUME Sound, NEW n \in Num, UpdateStream(n)
  PROVE  Found(sections')
<1> DEFINE s == IF StreamsMove THEN Moved(n) ELSE sections
           j == Where(s, n)
           v == Fresh
<1>1. sections' = [s EXCEPT ![j][n].buf = v]
  BY DEF UpdateStream
<1>2. /\ Basic /\ Found(sections)
      /\ sections \in Table /\ altered \in BOOLEAN /\ held \in Clients /\ Bare(sections)
      /\ v \in Nat
  BY TiesNow DEF Sound, Basic, Fresh
<1>3. s \in Table /\ \A m \in Num : SameEntry(s, sections, m)
  <2>1. CASE StreamsMove
    <3>1. Moved(n) \in Table /\ \A m \in Num : SameEntry(Moved(n), sections, m)
      BY <1>2, MovedIs
    <3> QED BY <2>1, <3>1
  <2>2. CASE ~StreamsMove
    BY <1>2, <2>2 DEF SameEntry
  <2> QED BY <2>1, <2>2
<1> HIDE DEF s, v
<1>4. Found(s)
  <2>1. Alike(s, sections)
    BY <1>3, SameAlike
  <2> QED BY <1>2, <2>1, FoundAlike
<1>5. j \in DOMAIN s /\ s \in [1..Len(s) -> [Num -> Cell]] /\ s[j][n] \in Cell
  BY <1>3, EntryIs, TableFinite
<1> HIDE DEF j
<1> DEFINE t == WithBuf(s, j, n, v)
<1>6. sections' = t
  BY <1>1, <1>5 DEF SetCell, Cell, WithBuf
<1>7. /\ t \in Table /\ DOMAIN t = DOMAIN s
      /\ \A m \in Num : Where(t, m) = Where(s, m)
      /\ \A i \in DOMAIN s, m \in Num :
           t[i][m] = s[i][m] \/ (i = j /\ m = n /\ t[i][m] = [s[i][m] EXCEPT !.buf = v])
  <2>1. s \in Table /\ j \in DOMAIN s /\ v \in Nat /\ held \in Clients
    BY <1>2, <1>3, <1>5
  <2>2. /\ t \in Table /\ DOMAIN t = DOMAIN s /\ Ext(t, held) = Ext(s, held)
        /\ (Bare(s) => Bare(t))
        /\ \A l \in Nat : Shape(s, l) => Shape(t, l)
        /\ \A m \in Num : Where(t, m) = Where(s, m) /\ Entry(t, m).obj = Entry(s, m).obj
        /\ \A i \in DOMAIN s, m \in Num :
             t[i][m] = s[i][m] \/ (i = j /\ m = n /\ t[i][m] = [s[i][m] EXCEPT !.buf = v])
    BY <2>1, BufSet
  <2> QED BY <2>2
<1> HIDE DEF t
<1>8. ASSUME NEW m \in Num PROVE Like(Entry(t, m), Entry(s, m))
  <2> DEFINE i == Where(s, m)
             x == t[i][m]
             e == s[i][m]
  <2>1. i \in DOMAIN s /\ Where(t, m) = i /\ e \in Cell
    BY <1>3, <1>7, EntryIs
  <2>2. x = e \/ x = [e EXCEPT !.buf = v]
    BY <1>7, <2>1
  <2>3. Entry(t, m) = x /\ Entry(s, m) = e
    BY <2>1 DEF Entry
  <2> HIDE DEF x, e, i
  <2>4. Like(x, e)
    BY <2>1, <2>2 DEF Like, Cell
  <2> QED BY <2>3, <2>4
<1>9. Alike(t, s)
  BY <1>8 DEF Alike
<1> QED BY <1>4, <1>6, <1>9, FoundAlike

\* What an incremental save writes can be found in the file.
LEMMA SaveSound ==
  ASSUME Sound, SaveIncremental
  PROVE  Sound'
<1>1. Basic /\ Found(sections) /\ AllLead(file.secs) /\ sections \in Table
  BY DEF Sound, Basic
<1>2. Basic' /\ UNCHANGED sections
  BY <1>1, SaveBasic DEF SaveIncremental
<1>3. ASSUME NEW n \in Num
      PROVE  /\ Leads(Entry(file'.secs, n), n)
             /\ n \in Streams => Entry(file'.secs, n).type = "n"
  <2> DEFINE y == Entry(file.secs, n)
             z == Entry(file'.secs, n)
             x == Section[n]
  <2>1. /\ Inc(sections, altered, n) => z = x
        /\ ~Inc(sections, altered, n) => z.type = y.type /\ (y.type # "undefined" => z = y)
    BY <1>1, SavedEntry
  <2>2. Inc(sections, altered, n) =>
          /\ sections[1][n].type = "f" => x = [type |-> "f", ofs |-> 0, at |-> Nothing]
          /\ sections[1][n].type # "f" => x = [type |-> "n", ofs |-> n, at |-> Value(n)]
    <3>1. Inc(sections, altered, n) => IsIncremental(n)
      BY Zenon DEF Inc, IsIncremental
    <3>2. /\ IsIncremental(n) /\ sections[1][n].type = "f" =>
               Section[n] = [type |-> "f", ofs |-> 0, at |-> Nothing]
          /\ IsIncremental(n) /\ sections[1][n].type # "f" =>
               Section[n] = [type |-> "n", ofs |-> n, at |-> Value(n)]
      BY <1>1, SectionIs
    <3> QED BY <3>1, <3>2
  <2>3. Leads(y, n) /\ (n \in Streams => y.type = "n")
    BY <1>1 DEF AllLead
  <2>4. n \in Streams /\ Inc(sections, altered, n) => sections[1][n].type # "f"
    <3>1. n \in Streams => Entry(sections, n).type = "n"
      BY <1>1 DEF Found
    <3>2. sections[1][n].type # "undefined" => Entry(sections, n) = sections[1][n]
      BY <1>1, EntryIs
    <3> QED BY <3>1, <3>2 DEF Inc
  <2> HIDE DEF y, z, x
  <2>5. CASE Inc(sections, altered, n)
    <3>1. z = x
      BY <2>1, <2>5
    <3>2. Leads(x, n) /\ (n \in Streams => x.type = "n")
      <4>1. CASE sections[1][n].type = "f"
        BY <2>2, <2>4, <2>5, <4>1 DEF Leads
      <4>2. CASE sections[1][n].type # "f"
        <5>1. x.type = "n" /\ x.ofs = n
          BY <2>2, <2>5, <4>2
        <5> QED BY <5>1 DEF Leads
      <4> QED BY <4>1, <4>2
    <3> QED BY <3>1, <3>2 DEF z
  <2>6. CASE ~Inc(sections, altered, n)
    <3>1. Leads(z, n) /\ (n \in Streams => z.type = "n")
      BY <2>1, <2>3, <2>6 DEF Leads
    <3> QED BY <3>1 DEF z
  <2> QED BY <2>5, <2>6
<1>4. AllLead(file'.secs)
  BY <1>3, StreamsAre DEF AllLead
<1>5. Found(sections')
  BY <1>1, <1>2
<1> QED BY <1>2, <1>4, <1>5 DEF Sound

\* A file that has just been opened.
LEMMA ReadFound ==
  ASSUME NEW f \in Seq([Num -> FileCell]), f # << >>, AllLead(f)
  PROVE  Found(Read(f))
<1>1. \A n \in Num : Entry(Read(f), n).type = Entry(f, n).type /\ Entry(Read(f), n).ofs = Entry(f, n).ofs
  BY ReadIs
<1>2. \A n \in Num : Leads(Entry(Read(f), n), n)
  BY <1>1 DEF AllLead, Leads
<1>3. \A m \in Streams : Entry(Read(f), m).type = "n"
  BY <1>1, StreamsAre DEF AllLead
<1> QED BY <1>2, <1>3 DEF Found

LEMMA InitSound ==
  ASSUME Intact, Init
  PROVE  Sound
<1>1. Basic /\ sections = Read(Layout) /\ file.secs = Layout
  BY InitBasic DEF Init
<1>2. /\ Layout \in Seq([Num -> FileCell]) /\ Layout # << >>
      /\ \A m \in Streams : Entry(Layout, m).type = "n"
  BY LayoutShape
<1>3. AllLead(Layout)
  BY <1>2 DEF AllLead, Intact
<1>4. Found(Read(Layout))
  BY <1>2, <1>3, ReadFound
<1> QED BY <1>1, <1>3, <1>4 DEF Sound

LEMMA EditsSound ==
  ASSUME Sound, Edits
  PROVE  Found(sections')
<1>1. CASE UNCHANGED sections
  BY <1>1 DEF Sound
<1>2. ASSUME NEW o \in Obj, Put(o) PROVE Found(sections')
  BY <1>2, AlteredFound DEF Put
<1>3. ASSUME NEW o \in Obj, Del(o) PROVE Found(sections')
  BY <1>3, AlteredFound DEF Del
<1>4. ASSUME NEW o \in Obj, NEW v \in Obj, PutDict(o, v) PROVE Found(sections')
  BY <1>4, AlteredFound DEF PutDict
<1>5. ASSUME NEW h \in Held, NewDict(h) PROVE Found(sections')
  BY <1>1, <1>5 DEF NewDict
<1>6. ASSUME Create PROVE Found(sections')
  BY <1>6, CreateFound
<1>7. ASSUME NEW m \in Num, Delete(m) PROVE Found(sections')
  BY <1>7, DeleteFound
<1>8. ASSUME NEW m \in Num, UpdateStream(m) PROVE Found(sections')
  BY <1>8, UpdateStreamFound
<1>9. ASSUME NEW m \in Num, NEW h \in Held, Update(m, h) PROVE Found(sections')
  BY <1>9, UpdateFound
<1> QED BY Zenon, <1>2, <1>3, <1>4, <1>5, <1>6, <1>7, <1>8, <1>9 DEF Edits

LEMMA SoundStays ==
  ASSUME Sound, [Next]_vars
  PROVE  Sound'
<1>1. Basic /\ Basic' /\ Found(sections) /\ AllLead(file.secs)
  BY BasicStays DEF Sound
<1>2. CASE UNCHANGED file /\ Found(sections')
  BY <1>1, <1>2 DEF Sound, Found, AllLead, Entry, Where
<1>3. CASE UNCHANGED <<sections, file>>
  BY <1>1, <1>2, <1>3
<1>4. CASE Reads
  <2>1. ASSUME NEW q \in Num, Resolve(q) PROVE Sound'
    <3>1. Loadable /\ sections' = Cache(q).s /\ UNCHANGED file
      BY <2>1 DEF Resolve
    <3> QED BY <1>2, <3>1, StagedFound
  <2>2. ASSUME NEW q \in Num, Arrive(q) PROVE Sound'
    BY <1>3, <2>2 DEF Arrive
  <2>3. ASSUME NEW q \in Num, NEW h \in Held, Load(q, h) PROVE Sound'
    <3>1. Loadable /\ sections' = Cache(q).s /\ UNCHANGED file
      BY <2>3 DEF Load
    <3> QED BY <1>2, <3>1, StagedFound
  <2>4. ASSUME NEW h \in Held, Release(h) PROVE Sound'
    BY <1>3, <2>4 DEF Release, Reading
  <2> QED BY Zenon, <1>4, <2>1, <2>2, <2>3, <2>4 DEF Reads
<1>5. CASE Edits
  <2>1. Found(sections')
    BY <1>5, EditsSound
  <2>2. UNCHANGED file
    BY <1>5 DEF Edits, Put, Del, PutDict, NewDict, Create, Delete, UpdateStream, Update, Reading
  <2> QED BY <1>2, <2>1, <2>2
<1>6. CASE SaveIncremental
  BY <1>6, SaveSound
<1>7. CASE Reopen
  <2>1. sections' = Read(file.secs) /\ UNCHANGED file
    BY <1>7 DEF Reopen
  <2>2. file.secs \in Seq([Num -> FileCell]) /\ file.secs # << >>
    BY <1>1 DEF Basic
  <2> QED BY <1>1, <1>2, <2>1, <2>2, ReadFound
<1>8. CASE UNCHANGED vars
  BY <1>3, <1>8 DEF vars
<1> QED BY Zenon, <1>4, <1>5, <1>6, <1>7, <1>8 DEF Next

\* What is where its entry says is loaded.
LEMMA IndirectLoads ==
  ASSUME Basic, arrived = Whole, NEW n \in Num, Entry(sections, n).ofs = n
  PROVE  CacheIndirect(sections, objs, n).err = "none"
<1>1. arrived[n] = Whole[n] /\ Whole[n] \in Nat
  BY WholeIs
<1>2. ~ (arrived[n] = 0 /\ Whole[n] > 0)
  BY <1>1
<1>3. CacheIndirect(sections, objs, n) = Cached(sections, n, New(objs, Entry(sections, n).at, n))
  BY <1>2 DEF CacheIndirect
<1> QED BY <1>3 DEF Cached, Loaded

\* A turn of pdf_load_obj_stm caches what the table says is there.
LEMMA UnpackingLoads ==
  ASSUME NEW s \in Table, NEW h \in Heap, NEW k \in Clients, len \in Nat, Shape(s, len),
         NEW c \in Stages(s, h, k), c.err = "none",
         NEW m \in Streams, NEW i \in DOMAIN Inside[m], Inside[m][i].num <= len
  PROVE  LET n == Inside[m][i].num
             d == Unpacking(c, Inside[m][i], m)
         IN  /\ d.err = "none"
             /\ Entry(c.s, n).type = "o" /\ Entry(c.s, n).ofs = m => Entry(d.s, n).obj # NULL
<1> DEFINE x == Inside[m][i]
           n == x.num
           e == Entry(c.s, n)
<1>1. Stage(s, h, k, c) /\ Parented(s, h, c, 0) /\ c.s \in Table /\ c.h \in Heap /\ c \in Results
  BY DEF Stages, Results
<1>2. m \in Num /\ x \in [num : Num, at : Content]
  <2>1. m \in Num /\ Inside[m] \in Seq([num : Num, at : Content])
    BY StreamsAre
  <2> DEFINE q == Inside[m]
             T == [num : Num, at : Content]
  <2>2. q \in Seq(T) /\ i \in DOMAIN q
    BY <2>1
  <2> HIDE DEF q, T
  <2>3. q[i] \in T
    BY <2>2
  <2> QED BY <2>1, <2>3 DEF q, T
<1>3. n \in Num /\ x.at \in Content /\ n \in Nat /\ n <= len /\ ~ (n > len)
  BY <1>2, ObjFinite DEF Num
<1>4. CASE e.type = "o" /\ e.ofs = m /\ e.obj = NULL
  <2>1. Unpacking(c, x, m) = Cached(c.s, n, New(c.h, x.at, n))
    BY <1>3, <1>4 DEF Unpacking
  <2>2. x.at = e.at
    <3>1. e = Entry(s, n)
      BY <1>1, <1>3, <1>4, GrownEntry, ObjFinite DEF Taken
    <3>2. Where(s, n) \in DOMAIN s /\ Entry(s, n) = s[Where(s, n)][n]
      BY <1>3, EntryIs
    <3>3. Tells(m, n, e.at)
      BY <1>3, <1>4, <3>1, <3>2 DEF Shape
    <3> QED BY <3>3 DEF Tells
  <2> DEFINE nn == n
             at == x.at
  <2>3. nn \in Num /\ nn \in Nat /\ at \in Content /\ Entry(c.s, nn).obj = NULL
        /\ Entry(c.s, nn).type # "undefined" /\ at = Entry(c.s, nn).at
    BY <1>3, <1>4, <2>2
  <2>4. Unpacking(c, x, m) = Cached(c.s, nn, New(c.h, at, nn))
    BY <2>1
  <2> HIDE DEF nn, at
  <2>5. LET d == Cached(c.s, nn, New(c.h, at, nn))
        IN  d.err = "none" /\ Entry(d.s, nn).obj \in Obj
    BY <1>1, <2>3, CachedStage
  <2>6. /\ Unpacking(c, x, m).err = "none"
        /\ Entry(Unpacking(c, x, m).s, nn).obj # NULL
    BY <2>4, <2>5, ObjFinite
  <2> QED BY <2>6 DEF nn
<1>5. CASE ~ (e.type = "o" /\ e.ofs = m /\ e.obj = NULL)
  <2>1. Unpacking(c, x, m) = c
    BY <1>3, <1>5 DEF Unpacking
  <2> QED BY <1>5, <2>1
<1> QED BY <1>4, <1>5

\* All of them do, when the whole of the stream is there.
LEMMA UnpackLoads ==
  ASSUME NEW s \in Table, NEW h \in Heap, NEW k \in Clients, len \in Nat, Shape(s, len),
         NEW s1, NEW h1, Loaded(s1, h1) \in Stages(s, h, k), NEW m \in Streams,
         arrived[m] = 1 + Len(Inside[m]),
         \A i \in DOMAIN Inside[m] : Inside[m][i].num <= len,
         NEW n \in Num, Listed(m, n), Entry(s, n).type = "o", Entry(s, n).ofs = m
  PROVE  LET all == Unpack(s1, h1, m)
         IN  all.err = "none" /\ Entry(all.s, n).obj # NULL
<1> DEFINE N == 1 + Len(Inside[m])
           S == Stages(s, h, k)
           Has(c, q) == LET y == Inside[m][q].num
                        IN  Entry(c.s, y).type = "o" /\ Entry(c.s, y).ofs = m =>
                              Entry(c.s, y).obj # NULL
<1>1. N \in Nat /\ N >= 1 /\ DOMAIN Inside[m] = 1..N - 1 /\ arrived[m] = N
      /\ \A i \in DOMAIN Inside[m] : Inside[m][i].num \in Num
  <2>1. m \in Num /\ Inside[m] \in Seq([num : Num, at : Content])
    BY StreamsAre
  <2> DEFINE q == Inside[m]
             T == [num : Num, at : Content]
  <2>2. q \in Seq(T)
    BY <2>1
  <2> HIDE DEF q, T
  <2>3. Len(q) \in Nat /\ DOMAIN q = 1..Len(q) /\ \A i \in DOMAIN q : q[i] \in T
    BY <2>2
  <2>4. \A i \in DOMAIN q : q[i].num \in Num
    BY <2>3 DEF T
  <2> QED BY <2>3, <2>4 DEF q
<1>2. arrived[m] \in 0..1 + Len(Inside[m])
  BY <1>1
<1>3. PICK g : /\ Unpack(s1, h1, m) = g[arrived[m]] /\ Turns(g, s1, h1, m)
               /\ \A i \in 0..1 + Len(Inside[m]) : g[i] \in Stages(s, h, k)
  BY <1>2, UnpackStage
<1> DEFINE G == {i \in 0..N : g[i].err = "none" /\ \A q \in 1..i - 1 : Has(g[i], q)}
<1> HIDE DEF S
<1>4. ASSUME NEW i \in 0..N
      PROVE  /\ g[i] \in S
             /\ g[i] = IF i <= 1 THEN Loaded(s1, h1) ELSE Unpacking(g[i - 1], Inside[m][i - 1], m)
  BY <1>3 DEF Turns, S
<1> HIDE DEF N, Has
<1>5. ASSUME NEW i \in 0..N, i <= 1 PROVE i \in G
  <2>1. g[i] = Loaded(s1, h1)
    BY <1>4, <1>5
  <2>2. 1..i - 1 = {}
    BY <1>1, <1>5
  <2> QED BY <2>1, <2>2 DEF Loaded
<1>6. ASSUME NEW i \in 1..N, i - 1 \in G PROVE i \in G
  <2>1. CASE i <= 1
    BY <1>1, <1>5, <2>1
  <2>2. CASE ~ (i <= 1)
    <3> DEFINE p == i - 1
               c == g[p]
               d == g[i]
               x == Inside[m][p]
    <3>1. p \in DOMAIN Inside[m] /\ p \in 0..N /\ i \in 0..N /\ x.num <= len /\ x.num \in Num
      BY <1>1, <2>2
    <3>2. c \in S /\ c.err = "none" /\ \A q \in 1..p - 1 : Has(c, q)
      BY <1>4, <1>6, <3>1
    <3>3. d = Unpacking(c, x, m)
      BY <1>4, <2>2, <3>1
    <3> HIDE DEF p, c, d
    <3>4. /\ Unpacking(c, x, m).err = "none"
          /\ Entry(c.s, x.num).type = "o" /\ Entry(c.s, x.num).ofs = m =>
               Entry(Unpacking(c, x, m).s, x.num).obj # NULL
      BY <3>1, <3>2, UnpackingLoads DEF S
    <3>5. \A y \in Num : Entry(c.s, y).obj # NULL => Entry(Unpacking(c, x, m).s, y) = Entry(c.s, y)
      BY <3>1, <3>2, UnpackingStage DEF S
    <3>6. d \in S
      BY <1>4, <3>1 DEF d
    <3>7. \A y \in Num : /\ Entry(d.s, y).type = Entry(s, y).type /\ Entry(d.s, y).ofs = Entry(s, y).ofs
                         /\ Entry(c.s, y).type = Entry(s, y).type /\ Entry(c.s, y).ofs = Entry(s, y).ofs
      <4>1. Stage(s, h, k, c) /\ Stage(s, h, k, d)
        BY <3>2, <3>6 DEF S, Stages
      <4> QED BY <4>1, GrownEntry
    <3>8. ASSUME NEW q \in 1..i - 1 PROVE Has(d, q)
      <4> DEFINE y == Inside[m][q].num
      <4>1. y \in Num
        BY <1>1, <3>8
      <4>2. CASE q = p
        <5>1. Entry(c.s, y).type = "o" /\ Entry(c.s, y).ofs = m => Entry(d.s, y).obj # NULL
          BY <3>3, <3>4, <4>2
        <5> HIDE DEF y
        <5>2. Entry(d.s, y).type = "o" /\ Entry(d.s, y).ofs = m => Entry(d.s, y).obj # NULL
          BY <3>7, <4>1, <5>1
        <5> QED BY <5>2 DEF Has, y
      <4>3. CASE q # p
        <5>1. q \in 1..p - 1
          BY <1>1, <4>3 DEF p
        <5>2. Entry(c.s, y).type = "o" /\ Entry(c.s, y).ofs = m => Entry(c.s, y).obj # NULL
          BY <3>2, <5>1 DEF Has
        <5> HIDE DEF y
        <5>3. Entry(c.s, y).obj # NULL => Entry(d.s, y) = Entry(c.s, y)
          BY <3>3, <3>5, <4>1
        <5>4. Entry(d.s, y).type = "o" /\ Entry(d.s, y).ofs = m => Entry(d.s, y).obj # NULL
          BY <3>7, <4>1, <5>2, <5>3
        <5> QED BY <5>4 DEF Has, y
      <4> QED BY <4>2, <4>3
    <3>9. d.err = "none"
      BY <3>3, <3>4
    <3> QED BY <3>1, <3>8, <3>9 DEF d
  <2> QED BY <2>1, <2>2
<1>7. N \in G
  <2>1. 0 \in G
    BY <1>1, <1>5
  <2> HIDE DEF G
  <2>2. \A i \in 0..N : i \in G
    BY <1>1, <1>6, <2>1, Climbs
  <2> QED BY <1>1, <2>2
<1> DEFINE all == g[N]
<1>8. all.err = "none" /\ all \in S /\ \A q \in 1..N - 1 : Has(all, q)
  BY <1>1, <1>4, <1>7
<1>9. Unpack(s1, h1, m) = all
  BY <1>1, <1>3
<1> HIDE DEF all, G
<1>10. PICK q \in DOMAIN Inside[m] : Inside[m][q].num = n
  BY DEF Listed
<1>11. Entry(all.s, n).type = "o" /\ Entry(all.s, n).ofs = m
  <2>1. Stage(s, h, k, all)
    BY <1>8 DEF S, Stages
  <2> QED BY <2>1, GrownEntry
<1>12. Has(all, q)
  BY <1>1, <1>8, <1>10
<1>13. Entry(all.s, n).obj # NULL
  BY <1>10, <1>11, <1>12 DEF Has
<1> QED BY <1>8, <1>9, <1>13

LEMMA InsideLoads ==
  ASSUME Sound, Intact, Loadable, arrived = Whole, NEW n \in Num,
         Entry(sections, n).obj = NULL, Entry(sections, n).type = "o"
  PROVE  CacheInside(sections, objs, n).err = "none"
<1> DEFINE m == Entry(sections, n).ofs
           first == IF Entry(sections, m).obj # NULL THEN Loaded(sections, objs)
                    ELSE CacheIndirect(sections, objs, m)
           s == sections
           h == objs
           k == held
           d == Numbered(first, m)
           all == Unpack(d.s, d.h, m)
<1>1. /\ Basic /\ Found(s)
      /\ s \in Table /\ h \in Heap /\ k \in Clients /\ len \in Nat /\ Shape(s, len) /\ Bare(s)
      /\ Good(h, Ext(s, k)) /\ FileLen <= len /\ FileLen \in Nat
  BY StreamsAre, TiesNow DEF Sound, Basic, Good
<1>2. m \in Streams /\ Listed(m, n)
  <2>1. Where(s, n) \in DOMAIN s /\ Entry(s, n) = s[Where(s, n)][n]
    BY <1>1, EntryIs
  <2>2. m \in Streams
    BY <1>1, <2>1 DEF Shape
  <2> QED BY <1>1, <2>2 DEF Found, Leads
<1>3. /\ m \in Num /\ arrived[m] = 1 + Len(Inside[m]) /\ arrived[m] = Whole[m] /\ Whole[m] \in Nat
      /\ \A i \in DOMAIN Inside[m] : Inside[m][i].num <= len
  <2>1. m \in Num /\ Whole[m] = 1 + Len(Inside[m]) /\ Whole[m] \in Nat
    BY <1>2, StreamsAre, WholeIs
  <2>2. ASSUME NEW i \in DOMAIN Inside[m] PROVE Inside[m][i].num <= len
    <3> DEFINE y == Inside[m][i].num
    <3>1. y <= FileLen
      BY <1>2 DEF Intact
    <3>2. y \in Nat
      <4>1. Inside[m] \in Seq([num : Num, at : Content])
        BY <2>1, LayoutAssumption
      <4> DEFINE q == Inside[m]
                 T == [num : Num, at : Content]
      <4>2. q \in Seq(T) /\ i \in DOMAIN q
        BY <4>1
      <4> HIDE DEF q, T
      <4>3. q[i] \in T
        BY <4>2
      <4>4. q[i].num \in Num
        BY <4>3 DEF T
      <4> QED BY <4>4, ObjFinite DEF q, Num
    <3> HIDE DEF y
    <3>3. y <= len
      BY <1>1, <3>1, <3>2
    <3> QED BY <3>3 DEF y
  <2> QED BY <2>1, <2>2
<1>4. Entry(s, m).type = "n" /\ (Entry(s, m).obj = NULL => Entry(s, m).ofs = m)
  BY <1>1, <1>2, <1>3 DEF Found, Leads
<1>5. CacheInside(sections, objs, n) = FromStream(first, m, n)
  BY DEF CacheInside
<1> HIDE DEF m
<1>6. first.err = "none"
  <2>1. CASE Entry(s, m).obj = NULL
    BY <1>1, <1>3, <1>4, <2>1, IndirectLoads
  <2>2. CASE Entry(s, m).obj # NULL
    BY <2>2 DEF Loaded
  <2> QED BY <2>1, <2>2
<1>7. /\ Stage(s, h, k, first) /\ Entry(first.s, m).obj \in Obj
      /\ \/ Entry(s, m).obj = NULL /\ Parented(s, h, first, m)
         \/ Entry(first.s, m) = Entry(s, m) /\ m \in Streams /\ Parented(s, h, first, 0)
            /\ h[Entry(s, m).obj].refs # 0
            /\ (h[Entry(s, m).obj].kid # NULL => h[h[Entry(s, m).obj].kid].refs # 0)
  <2>1. CASE Entry(s, m).obj = NULL
    <3>1. first = CacheIndirect(sections, objs, m) /\ Entry(sections, m).type # "undefined"
      BY <1>4, <2>1
    <3> HIDE DEF first
    <3> QED BY <1>1, <1>3, <1>6, <2>1, <3>1, IndirectStage
  <2>2. CASE Entry(s, m).obj # NULL
    <3>1. first = Loaded(sections, objs) /\ first.s = s
      BY <2>2 DEF Loaded
    <3>2. first \in Stages(s, h, k)
      BY <1>1, <3>1, LoadedStage
    <3> HIDE DEF first
    <3>3. /\ Where(s, m) \in DOMAIN s /\ Entry(s, m) = s[Where(s, m)][m] /\ Entry(s, m) \in Cell
      BY <1>1, <1>3, EntryIs
    <3>4. Entry(s, m).obj \in Obj /\ Ext(s, k)[Entry(s, m).obj] > 0
      <4>1. Entry(s, m).obj \in Obj
        BY <2>2, <3>3 DEF Cell
      <4> QED BY <1>1, <1>3, <3>3, <4>1, ExtIs
    <3> DEFINE o == Entry(s, m).obj
    <3>5. h[o].refs # 0 /\ (h[o].kid # NULL => h[h[o].kid].refs # 0)
      <4>1. o \in Obj /\ Ext(s, k)[o] > 0
        BY <3>4
      <4> HIDE DEF o
      <4> QED BY <1>1, <4>1, GoodIs
    <3> QED BY <1>2, <3>1, <3>2, <3>4, <3>5 DEF Stages, m
  <2> QED BY <2>1, <2>2
<1>8. Entry(s, n).type = "o" /\ Entry(s, n).ofs = m
  BY DEF m
<1>9. m \in Streams /\ Listed(m, n)
  BY <1>2 DEF m
<1> HIDE DEF first, s, h, k
<1>10. Stage(s, h, k, d) /\ Parented(s, h, d, 0)
  BY <1>1, <1>3, <1>7, NumberedStage
<1>11. d.err = "none" /\ d.s = first.s /\ d.h = SetParent(first.h, Entry(first.s, m).obj, m)
  BY <1>6 DEF Numbered
<1>12. Loaded(d.s, d.h) = d
  BY <1>6, <1>11 DEF Numbered, Loaded
<1> HIDE DEF d
<1>13. Loaded(d.s, d.h) \in Stages(s, h, k)
  BY <1>10, <1>12 DEF Stages, Stage
<1>14. all.err = "none" /\ Entry(all.s, n).obj # NULL
  <2> DEFINE s1 == d.s
             h1 == d.h
  <2>1. Loaded(s1, h1) \in Stages(s, h, k)
    BY <1>13
  <2> HIDE DEF s1, h1
  <2>2. Unpack(s1, h1, m).err = "none" /\ Entry(Unpack(s1, h1, m).s, n).obj # NULL
    BY <1>1, <1>3, <1>8, <1>9, <2>1, UnpackLoads
  <2> QED BY <2>2 DEF s1, h1
<1>15. CacheInside(sections, objs, n) = Unpacked(all, m, n)
  BY <1>5, <1>6, <1>11 DEF FromStream
<1> HIDE DEF all
<1>16. Unpacked(all, m, n) = all
  BY <1>3, <1>14 DEF Unpacked
<1> QED BY <1>14, <1>15, <1>16

LEMMA CacheLoads ==
  ASSUME Sound, Intact, Loadable, arrived = Whole, NEW n \in 1..len,
         Entry(sections, n).type # "undefined"
  PROVE  Cache(n).err = "none"
<1> DEFINE e == Entry(sections, n)
<1>1. Basic /\ Found(sections) /\ sections \in Table /\ len \in Nat /\ len <= MaxNum /\ MaxNum \in Nat
  BY TiesNow DEF Sound, Basic
<1>2. n \in Num /\ ~ (n > len)
  BY <1>1 DEF Num
<1>3. e \in Cell /\ e.type # "undefined" /\ (e.obj # NULL \/ Leads(e, n))
  BY <1>1, <1>2, EntryIs DEF Found
<1>4. CASE e.obj # NULL
  <2>1. Cache(n) = Loaded(sections, objs)
    BY <1>2, <1>4 DEF Cache
  <2> QED BY <2>1 DEF Loaded
<1>5. CASE e.obj = NULL
  <2>1. CacheEntry(n).err = "none" /\ CacheEntry(n) \in Results
    <3>1. CASE e.type = "f"
      <4> DEFINE d == Cached(sections, n, New(objs, Nothing, n))
      <4>1. CacheEntry(n) = d /\ d.err = "none"
        BY <3>1 DEF CacheEntry, Cached, Loaded
      <4>2. Nothing \in Content
        BY DEF Nothing, Content
      <4>3. Stage(sections, objs, held, d)
        BY <1>1, <1>2, <1>5, <3>1, <4>2, CachedFirst
      <4> QED BY <4>1, <4>3 DEF Stage
    <3>2. CASE e.type = "n"
      <4>1. CacheEntry(n) = CacheIndirect(sections, objs, n)
        BY <3>2 DEF CacheEntry
      <4>2. e.ofs = n
        BY <1>3, <1>5, <3>2 DEF Leads
      <4>3. Stage(sections, objs, held, CacheIndirect(sections, objs, n))
        BY <1>1, <1>2, <1>3, <1>5, IndirectStage
      <4> QED BY <1>1, <1>2, <4>1, <4>2, <4>3, IndirectLoads DEF Stage
    <3>3. CASE e.type = "o"
      <4>1. CacheEntry(n) = CacheInside(sections, objs, n)
        BY <3>3 DEF CacheEntry
      <4>2. CacheInside(sections, objs, n) \in Results
        BY <1>1, <1>2, <1>5, <3>3, InsideStage DEF Stages
      <4> QED BY <1>2, <1>5, <3>3, <4>1, <4>2, InsideLoads
    <3>4. e.type \in {"f", "n", "o"}
      BY <1>3 DEF Cell, Types
    <3> QED BY <3>1, <3>2, <3>3, <3>4
  <2>2. Cache(n) = WithParent(CacheEntry(n), n)
    BY <1>2, <1>5 DEF Cache
  <2>3. WithParent(CacheEntry(n), n).err = CacheEntry(n).err
    <3> DEFINE c == CacheEntry(n)
    <3>1. c.err = "none" /\ c \in Results
      BY <2>1
    <3> HIDE DEF c
    <3> QED BY <3>1 DEF WithParent, Results
  <2> QED BY <2>1, <2>2, <2>3
<1> QED BY <1>4, <1>5

\* Once the file is there, everything that it has can be loaded, whatever was read,
\* edited, saved or has failed before (progressive loading tries again what threw
\* FZ_ERROR_TRYLATER): no failure leaves something behind that another one comes
\* of, if the file is not damaged.
THEOREM RetrySucceedsHolds ==
  ASSUME Intact
  PROVE  Spec => []RetrySucceeds
<1>1. Sound => RetrySucceeds
  BY CacheLoads DEF RetrySucceeds
<1>2. Init => Sound
  BY InitSound
<1>3. Sound /\ [Next]_vars => Sound'
  BY SoundStays
<1> QED BY <1>1, <1>2, <1>3, PTL DEF Spec

=============================================================================
