---------------------------- MODULE GlyphProofs ----------------------------
(* The counts of the glyph cache are exact, and what hangs on them: a font *)
(* that is made where another one was never gets its glyphs.  And the lock *)
(* is always the thread's that renders with it or caches.                  *)
(*                                                                         *)
(* The invariant is a predicate of a cache, fonts, pixmaps and threads, so *)
(* that it can be claimed in the middle of fz_render_glyph, which evicts   *)
(* the cache before it inserts a glyph.                                    *)
EXTENDS GlyphCache, FiniteSetTheorems, WellFoundedInduction, TLAPS

-----------------------------------------------------------------------------
(* The invariant                                                           *)

Ids == 0..MaxFonts
CacheType == [refs : Int, total : Int, glyph : [Keys -> Pixmaps \cup {None}]]
FontType == [refs : Int, type3 : BOOLEAN, id : Ids]
PixmapType == [refs : Int, size : Nat, id : Ids]
ThreadType ==
  [ctx : BOOLEAN, uses : SUBSET Fonts,
   at : {"out", "type3", "render", "lock", "cache"},
   key : Keys \cup {None}, keep : BOOLEAN, val : Pixmaps \cup {None}, asked : Ids]

Typed(c, f, p, t) ==
  /\ c \in CacheType
  /\ f \in [Fonts -> FontType]
  /\ p \in [Pixmaps -> PixmapType]
  /\ t \in [Threads -> ThreadType]

\* who refers to a pixmap, and to a font
Cached(c, p) == {k \in Keys : c.glyph[k] = p}
Holding(t, p) == {u \in Threads : t[u].val = p}
CachedOf(c, f) == {k \in Keys : k[1] = f /\ c.glyph[k] # None}
Using(t, f) == {u \in Threads : f \in t[u].uses}

\* A pixmap has at least as many references as there are, and no more if none
\* is lost with val.
Covers(refs, n) == refs >= n /\ (ValKept => refs = n)

Counted(c, f, p, t) ==
  /\ \A x \in Pixmaps :
       Covers(p[x].refs, Cardinality(Cached(c, x)) + Cardinality(Holding(t, x)))
  /\ \A x \in Fonts :
       f[x].refs = Cardinality(CachedOf(c, x)) + Cardinality(Using(t, x))

\* What is cached, and what a thread has, is of the font it was asked of.
Same(c, f, p, t) ==
  /\ \A k \in Keys : c.glyph[k] # None => p[c.glyph[k]].id = f[k[1]].id
  /\ \A u \in Threads : t[u].val # None => p[t[u].val].id = t[u].asked

\* A thread keeps the font it renders a glyph of, which is still that font.
Rendering(f, t) ==
  \A u \in Threads : t[u].at # "out" =>
    /\ t[u].key \in Keys /\ t[u].key[1] \in t[u].uses
    /\ t[u].asked = f[t[u].key[1]].id
    /\ t[u].at \in {"type3", "render"} => t[u].val = None

Good(c, f, p, t) ==
  Typed(c, f, p, t) /\ Counted(c, f, p, t) /\ Same(c, f, p, t) /\ Rendering(f, t)

IInv == Good(cache, font, pixmap, thread) /\ LockKept /\ lock \in Threads \cup {None}

-----------------------------------------------------------------------------
(* Counting                                                                *)

\* References are finitely many.
LEMMA KeysFinite == IsFiniteSet(Keys)
  BY CacheAssumption, FS_Product DEF Keys

LEMMA Finite ==
  ASSUME NEW c, NEW t, NEW x
  PROVE  /\ IsFiniteSet(Cached(c, x)) /\ IsFiniteSet(Holding(t, x))
         /\ IsFiniteSet(CachedOf(c, x)) /\ IsFiniteSet(Using(t, x))
<1>1. /\ Cached(c, x) \in SUBSET Keys /\ CachedOf(c, x) \in SUBSET Keys
      /\ Holding(t, x) \in SUBSET Threads /\ Using(t, x) \in SUBSET Threads
  BY DEF Cached, CachedOf, Holding, Using
<1> QED
  BY <1>1, KeysFinite, CacheAssumption, FS_Subset

\* The size of a set is a natural number, 0 for the empty one only.
LEMMA Size ==
  ASSUME NEW S, IsFiniteSet(S)
  PROVE  Cardinality(S) \in Nat /\ (Cardinality(S) = 0 <=> S = {})
  BY FS_CardinalityType, FS_EmptySet

\* A set that gets or loses one element is larger or smaller by one.
LEMMA OneMore ==
  ASSUME NEW S, NEW T, IsFiniteSet(S), NEW x, x \notin S, T = S \cup {x}
  PROVE  Cardinality(T) = Cardinality(S) + 1
  BY FS_AddElement

LEMMA OneLess ==
  ASSUME NEW S, NEW T, IsFiniteSet(S), NEW x, x \in S, T = S \ {x}
  PROVE  Cardinality(T) = Cardinality(S) - 1
  BY FS_RemoveElement

\* No glyph of no font.
LEMMA NoneCached ==
  ASSUME NEW c, c.glyph = NoGlyphs
  PROVE  /\ \A x \in Pixmaps : Cardinality(Cached(c, x)) = 0
         /\ \A x \in Fonts : Cardinality(CachedOf(c, x)) = 0
<1>1. \A k \in Keys : c.glyph[k] = None
  BY DEF NoGlyphs
<1>2. \A x \in Pixmaps : Cached(c, x) = {}
  BY <1>1, CacheAssumption DEF Cached
<1>3. \A x \in Fonts : CachedOf(c, x) = {}
  BY <1>1 DEF CachedOf
<1> QED
  BY <1>2, <1>3, FS_EmptySet

\* A pixmap that is free, and a font that is free, is referred to by nobody.
LEMMA Free ==
  ASSUME NEW c, NEW f, NEW p, NEW t, Good(c, f, p, t)
  PROVE  /\ \A x \in Pixmaps : p[x].refs = 0 =>
              /\ \A k \in Keys : c.glyph[k] # x
              /\ \A u \in Threads : t[u].val # x
         /\ \A x \in Fonts : f[x].refs = 0 =>
              /\ \A k \in Keys : k[1] = x => c.glyph[k] = None
              /\ \A u \in Threads : x \notin t[u].uses
<1>1. ASSUME NEW x \in Pixmaps, p[x].refs = 0
      PROVE  Cached(c, x) = {} /\ Holding(t, x) = {}
  BY <1>1, Finite, Size DEF Good, Counted, Covers
<1>2. ASSUME NEW x \in Fonts, f[x].refs = 0
      PROVE  CachedOf(c, x) = {} /\ Using(t, x) = {}
  BY <1>2, Finite, Size DEF Good, Counted
<1>3. ASSUME NEW x \in Pixmaps, p[x].refs = 0
      PROVE  /\ \A k \in Keys : c.glyph[k] # x
             /\ \A u \in Threads : t[u].val # x
  BY <1>1, <1>3 DEF Cached, Holding
<1>4. ASSUME NEW x \in Fonts, f[x].refs = 0
      PROVE  /\ \A k \in Keys : k[1] = x => c.glyph[k] = None
             /\ \A u \in Threads : x \notin t[u].uses
  BY <1>2, <1>4 DEF CachedOf, Using
<1> QED
  BY <1>3, <1>4

\* The identity of the font that was made last is one of those there are.
LEMMA LastIdKnown ==
  ASSUME font \in [Fonts -> FontType], Fonts # {}
  PROVE  LastId \in Ids
<1> DEFINE S == {font[f].id : f \in Fonts}
           R == {MaxFonts - i : i \in S}
<1>1. S \subseteq Ids /\ S # {} /\ MaxFonts \in Nat
  BY CacheAssumption DEF FontType
<1> HIDE DEF S
<1>2. R \subseteq Nat /\ R # {}
  <2>1. \A i \in S : MaxFonts - i \in Nat
    BY <1>1 DEF Ids
  <2> QED
    BY <1>1, <2>1
<1>3. PICK m \in R : \A r \in R : ~ (<<r, m>> \in OpToRel(<, Nat))
  BY <1>2, NatLessThanWellFounded, WFMin
<1>4. \A r \in R : ~ (r < m)
  BY <1>2, <1>3, Zenon DEF OpToRel
<1>5. PICK i \in S : m = MaxFonts - i
  OBVIOUS
<1>6. \A j \in S : i >= j
  <2> TAKE j \in S
  <2>1. MaxFonts - j \in R
    OBVIOUS
  <2>2. ~ (MaxFonts - j < MaxFonts - i)
    BY <1>4, <1>5, <2>1
  <2>3. i \in 0..MaxFonts /\ j \in 0..MaxFonts
    BY <1>1 DEF Ids
  <2> QED
    BY <1>1, <2>2, <2>3
<1>7. Max(S) \in S
  BY <1>6 DEF Max
<1> QED
  BY <1>1, <1>7 DEF LastId, S

-----------------------------------------------------------------------------
(* How the counts follow a step                                            *)

One(b) == IF b THEN 1 ELSE 0

\* Two sets that differ in x at most.
LEMMA Differ ==
  ASSUME NEW S, NEW T, IsFiniteSet(S), IsFiniteSet(T), NEW x, S \ {x} = T \ {x}
  PROVE  Cardinality(T) = Cardinality(S) + One(x \in T) - One(x \in S)
<1>1. CASE x \in S /\ x \in T
  <2>1. S = T
    BY <1>1
  <2> QED
    BY <1>1, <2>1, Size DEF One
<1>2. CASE x \in S /\ x \notin T
  <2>1. T = S \ {x}
    BY <1>2
  <2> QED
    BY <1>2, <2>1, OneLess, Size DEF One
<1>3. CASE x \notin S /\ x \in T
  <2>1. T = S \cup {x}
    BY <1>3
  <2> QED
    BY <1>3, <2>1, OneMore, Size DEF One
<1>4. CASE x \notin S /\ x \notin T
  <2>1. S = T
    BY <1>4
  <2> QED
    BY <1>4, <2>1, Size DEF One
<1> QED
  BY <1>1, <1>2, <1>3, <1>4

\* One thread changes what it has.
LEMMA ThreadCounts ==
  ASSUME NEW t, NEW t2, NEW u \in Threads, \A w \in Threads \ {u} : t2[w] = t[w]
  PROVE  /\ \A x \in Pixmaps :
              Cardinality(Holding(t2, x)) =
                Cardinality(Holding(t, x)) + One(t2[u].val = x) - One(t[u].val = x)
         /\ \A x \in Fonts :
              Cardinality(Using(t2, x)) =
                Cardinality(Using(t, x)) + One(x \in t2[u].uses) - One(x \in t[u].uses)
<1>1. ASSUME NEW x \in Pixmaps
      PROVE  Cardinality(Holding(t2, x)) =
               Cardinality(Holding(t, x)) + One(t2[u].val = x) - One(t[u].val = x)
  <2>1. /\ Holding(t, x) \ {u} = Holding(t2, x) \ {u}
        /\ u \in Holding(t, x) <=> t[u].val = x
        /\ u \in Holding(t2, x) <=> t2[u].val = x
    BY DEF Holding
  <2>2. Cardinality(Holding(t2, x)) =
          Cardinality(Holding(t, x)) + One(u \in Holding(t2, x)) - One(u \in Holding(t, x))
    BY <2>1, Finite, Differ
  <2> QED
    BY <2>1, <2>2 DEF One
<1>2. ASSUME NEW x \in Fonts
      PROVE  Cardinality(Using(t2, x)) =
               Cardinality(Using(t, x)) + One(x \in t2[u].uses) - One(x \in t[u].uses)
  <2>1. /\ Using(t, x) \ {u} = Using(t2, x) \ {u}
        /\ u \in Using(t, x) <=> x \in t[u].uses
        /\ u \in Using(t2, x) <=> x \in t2[u].uses
    BY DEF Using
  <2>2. Cardinality(Using(t2, x)) =
          Cardinality(Using(t, x)) + One(u \in Using(t2, x)) - One(u \in Using(t, x))
    <3>1. IsFiniteSet(Using(t, x)) /\ IsFiniteSet(Using(t2, x))
      BY Finite
    <3> QED
      BY <2>1, <3>1, Differ
  <2> QED
    BY <2>1, <2>2 DEF One
<1> QED
  BY <1>1, <1>2

\* A glyph that was not there is cached.
LEMMA InsertCounts ==
  ASSUME NEW c, NEW d, NEW k \in Keys, NEW p \in Pixmaps,
         c.glyph[k] = None, d.glyph[k] = p,
         \A l \in Keys \ {k} : d.glyph[l] = c.glyph[l]
  PROVE  /\ \A x \in Pixmaps :
              Cardinality(Cached(d, x)) = Cardinality(Cached(c, x)) + One(x = p)
         /\ \A x \in Fonts :
              Cardinality(CachedOf(d, x)) = Cardinality(CachedOf(c, x)) + One(x = k[1])
<1>1. ASSUME NEW x \in Pixmaps
      PROVE  Cardinality(Cached(d, x)) = Cardinality(Cached(c, x)) + One(x = p)
  <2>1. /\ Cached(c, x) \ {k} = Cached(d, x) \ {k}
        /\ k \notin Cached(c, x)
        /\ k \in Cached(d, x) <=> x = p
    BY CacheAssumption DEF Cached
  <2>2. Cardinality(Cached(d, x)) =
          Cardinality(Cached(c, x)) + One(k \in Cached(d, x)) - One(k \in Cached(c, x))
    BY <2>1, Finite, Differ
  <2> QED
    BY <2>1, <2>2, Finite, Size DEF One
<1>2. ASSUME NEW x \in Fonts
      PROVE  Cardinality(CachedOf(d, x)) = Cardinality(CachedOf(c, x)) + One(x = k[1])
  <2>1. /\ CachedOf(c, x) \ {k} = CachedOf(d, x) \ {k}
        /\ k \notin CachedOf(c, x)
        /\ k \in CachedOf(d, x) <=> x = k[1]
    BY CacheAssumption DEF CachedOf
  <2>2. Cardinality(CachedOf(d, x)) =
          Cardinality(CachedOf(c, x)) + One(k \in CachedOf(d, x)) - One(k \in CachedOf(c, x))
    BY <2>1, Finite, Differ
  <2> QED
    BY <2>1, <2>2, Finite, Size DEF One
<1> QED
  BY <1>1, <1>2

\* Counts are numbers.
LEMMA CountsNat ==
  ASSUME NEW c, NEW t
  PROVE  \A x : /\ Cardinality(Cached(c, x)) \in Nat /\ Cardinality(Holding(t, x)) \in Nat
                /\ Cardinality(CachedOf(c, x)) \in Nat /\ Cardinality(Using(t, x)) \in Nat
  BY Finite, Size

-----------------------------------------------------------------------------
(* The changes that steps are made of                                      *)

\* A change of thread u that leaves its fonts alone, and of the counts of
\* pixmaps by what it has got and given up, keeps the counts exact.
LEMMA ValCounts ==
  ASSUME NEW c, NEW f, NEW p, NEW t, NEW q, NEW t2, NEW u \in Threads,
         Typed(c, f, p, t), Counted(c, f, p, t),
         \A w \in Threads \ {u} : t2[w] = t[w], t2[u].uses = t[u].uses,
         \A x \in Pixmaps :
           q[x].refs = p[x].refs + One(t2[u].val = x) - One(t[u].val = x)
  PROVE  Counted(c, f, q, t2)
<1>1. ASSUME NEW x \in Pixmaps
      PROVE  Covers(q[x].refs, Cardinality(Cached(c, x)) + Cardinality(Holding(t2, x)))
  <2>1. /\ Covers(p[x].refs, Cardinality(Cached(c, x)) + Cardinality(Holding(t, x)))
        /\ Cardinality(Holding(t2, x)) =
             Cardinality(Holding(t, x)) + One(t2[u].val = x) - One(t[u].val = x)
        /\ q[x].refs = p[x].refs + One(t2[u].val = x) - One(t[u].val = x)
    BY ThreadCounts DEF Counted
  <2> HIDE DEF Counted
  <2>2. /\ One(t2[u].val = x) \in Int /\ One(t[u].val = x) \in Int
        /\ p[x].refs \in Int
    BY DEF One, Typed, PixmapType
  <2> QED
    BY <2>1, <2>2, CountsNat DEF Covers
<1>2. ASSUME NEW x \in Fonts
      PROVE  f[x].refs = Cardinality(CachedOf(c, x)) + Cardinality(Using(t2, x))
  <2>1. Using(t2, x) = Using(t, x)
    BY DEF Using
  <2> QED
    BY <2>1 DEF Counted
<1> QED
  BY <1>1, <1>2 DEF Counted

LEMMA EvictType ==
  ASSUME NEW c \in CacheType
  PROVE  Evict(c) \in CacheType
<1>1. NoGlyphs \in [Keys -> Pixmaps \cup {None}]
  BY DEF NoGlyphs
<1>2. Evict(c) = [refs |-> c.refs, total |-> 0, glyph |-> NoGlyphs]
  <2> DEFINE d == [c EXCEPT !.glyph = NoGlyphs]
  <2>1. c = [refs |-> c.refs, total |-> c.total, glyph |-> c.glyph]
    BY DEF CacheType
  <2>2. d = [refs |-> c.refs, total |-> c.total, glyph |-> NoGlyphs]
    BY <2>1
  <2> HIDE DEF d
  <2>3. [d EXCEPT !.total = 0] = [refs |-> c.refs, total |-> 0, glyph |-> NoGlyphs]
    BY <2>2
  <2> QED
    BY <2>3 DEF Evict, d
<1> QED
  BY <1>1, <1>2 DEF CacheType

\* fz_evict_glyph_cache
LEMMA EvictGood ==
  ASSUME Good(cache, font, pixmap, thread)
  PROVE  /\ Good(Evict(cache), FontsEvicted(cache), PixmapsEvicted(cache), thread)
         /\ Good([Evict(cache) EXCEPT !.refs = 0],
                 FontsEvicted(cache), PixmapsEvicted(cache), thread)
<1> DEFINE c == Evict(cache)  d == [c EXCEPT !.refs = 0]
           f == FontsEvicted(cache)  p == PixmapsEvicted(cache)
<1>1. c.glyph = NoGlyphs /\ d.glyph = NoGlyphs
  BY DEF Good, Typed, CacheType, Evict
<1>2. NoGlyphs \in [Keys -> Pixmaps \cup {None}]
  BY DEF NoGlyphs
<1>3. /\ \A x \in Fonts : /\ f[x].refs = font[x].refs - Cardinality(CachedOf(cache, x))
                          /\ f[x].id = font[x].id
      /\ f \in [Fonts -> FontType]
  <2>1. \A x \in Fonts : Entries(cache, x) = Cardinality(CachedOf(cache, x))
    BY DEF Entries, CachedOf
  <2>2. font \in [Fonts -> FontType]
    BY DEF Good, Typed
  <2>3. f = [x \in Fonts |->
               [font[x] EXCEPT !.refs = @ - Cardinality(CachedOf(cache, x))]]
    BY <2>1 DEF FontsEvicted
  <2>4. \A x \in Fonts : font[x].refs - Cardinality(CachedOf(cache, x)) \in Int
    BY <2>2, CountsNat DEF FontType
  <2> QED
    BY <2>2, <2>3, <2>4 DEF FontType
<1>4. /\ \A x \in Pixmaps : /\ p[x].refs = pixmap[x].refs - Cardinality(Cached(cache, x))
                            /\ p[x].id = pixmap[x].id
      /\ p \in [Pixmaps -> PixmapType]
  <2>2. pixmap \in [Pixmaps -> PixmapType]
    BY DEF Good, Typed
  <2>3. p = [x \in Pixmaps |->
               [pixmap[x] EXCEPT !.refs = @ - Cardinality(Cached(cache, x))]]
    BY DEF PixmapsEvicted, Cached
  <2>4. \A x \in Pixmaps : pixmap[x].refs - Cardinality(Cached(cache, x)) \in Int
    BY <2>2, CountsNat DEF PixmapType
  <2> QED
    BY <2>2, <2>3, <2>4 DEF PixmapType
<1>5. ASSUME NEW e \in {c, d}
      PROVE  Good(e, f, p, thread)
  <2>1. Typed(e, f, p, thread)
    <3>1. cache \in CacheType
      BY DEF Good, Typed, CacheType
    <3>2. c \in CacheType
      BY <3>1, EvictType
    <3>3. d \in CacheType
      BY <3>2 DEF CacheType
    <3> HIDE DEF c, d, f, p
    <3> QED
      BY <1>3, <1>4, <3>2, <3>3 DEF Good, Typed, CacheType
  <2>2. Counted(e, f, p, thread)
    <3>1. /\ \A x \in Pixmaps : Cardinality(Cached(e, x)) = 0
          /\ \A x \in Fonts : Cardinality(CachedOf(e, x)) = 0
      BY <1>1, NoneCached
    <3> HIDE DEF c, d, f, p
    <3>2. ASSUME NEW x \in Pixmaps
          PROVE  Covers(p[x].refs, Cardinality(Cached(e, x)) + Cardinality(Holding(thread, x)))
      <4>1. Covers(pixmap[x].refs,
                   Cardinality(Cached(cache, x)) + Cardinality(Holding(thread, x)))
        BY DEF Good, Counted
      <4>2. /\ Cardinality(Cached(cache, x)) \in Nat
            /\ Cardinality(Holding(thread, x)) \in Nat
            /\ pixmap[x].refs \in Int
        BY CountsNat DEF Good, Typed, PixmapType
      <4> QED
        BY <1>4, <3>1, <4>1, <4>2 DEF Covers
    <3>3. ASSUME NEW x \in Fonts
          PROVE  f[x].refs = Cardinality(CachedOf(e, x)) + Cardinality(Using(thread, x))
      <4>1. font[x].refs = Cardinality(CachedOf(cache, x)) + Cardinality(Using(thread, x))
        BY DEF Good, Counted
      <4>2. /\ Cardinality(CachedOf(cache, x)) \in Nat
            /\ Cardinality(Using(thread, x)) \in Nat
        BY CountsNat
      <4> QED
        BY <1>3, <3>1, <4>1, <4>2
    <3> QED
      BY <3>2, <3>3 DEF Counted
  <2>3. Same(e, f, p, thread)
    <3>1. \A k \in Keys : e.glyph[k] = None
      BY <1>1 DEF NoGlyphs
    <3>2. \A u \in Threads : thread[u].val # None => thread[u].val \in Pixmaps
      BY DEF Good, Typed, ThreadType
    <3> QED
      BY <1>4, <3>1, <3>2 DEF Good, Same
  <2>4. Rendering(f, thread)
    BY <1>3 DEF Good, Rendering, Keys
  <2> QED
    BY <2>1, <2>2, <2>3, <2>4 DEF Good
<1> QED
  BY <1>5

\* A change of thread u that leaves its pixmap alone, and of the counts of
\* fonts by what it keeps and drops, keeps the counts exact.
LEMMA UseCounts ==
  ASSUME NEW c, NEW f, NEW p, NEW t, NEW g, NEW t2, NEW u \in Threads,
         Typed(c, f, p, t), Counted(c, f, p, t),
         \A w \in Threads \ {u} : t2[w] = t[w], t2[u].val = t[u].val,
         \A x \in Fonts :
           g[x].refs = f[x].refs + One(x \in t2[u].uses) - One(x \in t[u].uses)
  PROVE  Counted(c, g, p, t2)
<1>1. ASSUME NEW x \in Fonts
      PROVE  g[x].refs = Cardinality(CachedOf(c, x)) + Cardinality(Using(t2, x))
  <2>1. /\ f[x].refs = Cardinality(CachedOf(c, x)) + Cardinality(Using(t, x))
        /\ Cardinality(Using(t2, x)) =
             Cardinality(Using(t, x)) + One(x \in t2[u].uses) - One(x \in t[u].uses)
        /\ g[x].refs = f[x].refs + One(x \in t2[u].uses) - One(x \in t[u].uses)
    BY ThreadCounts DEF Counted
  <2>2. One(x \in t2[u].uses) \in Int /\ One(x \in t[u].uses) \in Int
    BY DEF One
  <2> QED
    BY <2>1, <2>2, CountsNat
<1>2. ASSUME NEW x \in Pixmaps
      PROVE  Covers(p[x].refs, Cardinality(Cached(c, x)) + Cardinality(Holding(t2, x)))
  <2>1. Holding(t2, x) = Holding(t, x)
    BY DEF Holding
  <2> QED
    BY <2>1 DEF Counted
<1> QED
  BY <1>1, <1>2 DEF Counted

-----------------------------------------------------------------------------
(* What the assignments to thread[t] do                                    *)

\* the thread goes on inside of fz_render_glyph
LEMMA AtSets ==
  ASSUME thread \in [Threads -> ThreadType], NEW t \in Threads,
         NEW at \in {"type3", "render", "lock", "cache"},
         NEW v \in Pixmaps \cup {None}, At(t, at, v)
  PROVE  /\ thread' \in [Threads -> ThreadType]
         /\ \A w \in Threads \ {t} : thread'[w] = thread[w]
         /\ thread'[t].at = at /\ thread'[t].val = v
         /\ thread'[t].uses = thread[t].uses /\ thread'[t].key = thread[t].key
         /\ thread'[t].asked = thread[t].asked
<1> DEFINE one == [thread EXCEPT ![t].at = at]
<1>1. /\ one \in [Threads -> ThreadType] /\ one[t].at = at
      /\ one[t].uses = thread[t].uses /\ one[t].key = thread[t].key
      /\ one[t].asked = thread[t].asked
      /\ \A w \in Threads \ {t} : one[w] = thread[w]
  BY DEF ThreadType
<1>2. thread' = [one EXCEPT ![t] = [one[t] EXCEPT !.val = v]]
  BY <1>1 DEF At
<1> HIDE DEF one
<1> QED
  BY <1>1, <1>2 DEF ThreadType

\* the thread is back from fz_render_glyph
LEMMA BackSets ==
  ASSUME thread \in [Threads -> ThreadType], NEW t \in Threads,
         NEW v \in Pixmaps \cup {None}, Back(t, v)
  PROVE  /\ thread' \in [Threads -> ThreadType]
         /\ \A w \in Threads \ {t} : thread'[w] = thread[w]
         /\ thread'[t].at = "out" /\ thread'[t].val = v
         /\ thread'[t].uses = thread[t].uses
         /\ v # None => thread'[t].asked = thread[t].asked
<1>1. 0 \in Ids
  BY CacheAssumption DEF Ids
<1> DEFINE one == [thread EXCEPT ![t].at = "out"]
           two == [one EXCEPT ![t].val = v]
           three == [two EXCEPT ![t].key = None]
           four == [three EXCEPT ![t].keep = FALSE]
<1>2. /\ one \in [Threads -> ThreadType] /\ one[t].at = "out"
      /\ one[t].uses = thread[t].uses /\ one[t].asked = thread[t].asked
      /\ \A w \in Threads \ {t} : one[w] = thread[w]
  BY DEF ThreadType
<1> HIDE DEF one
<1>3. /\ two \in [Threads -> ThreadType] /\ two[t].at = "out" /\ two[t].val = v
      /\ two[t].uses = thread[t].uses /\ two[t].asked = thread[t].asked
      /\ \A w \in Threads \ {t} : two[w] = thread[w]
  BY <1>2 DEF ThreadType
<1> HIDE DEF two
<1>4. /\ three \in [Threads -> ThreadType] /\ three[t].at = "out" /\ three[t].val = v
      /\ three[t].uses = thread[t].uses /\ three[t].asked = thread[t].asked
      /\ \A w \in Threads \ {t} : three[w] = thread[w]
  BY <1>3 DEF ThreadType
<1> HIDE DEF three
<1>5. /\ four \in [Threads -> ThreadType] /\ four[t].at = "out" /\ four[t].val = v
      /\ four[t].uses = thread[t].uses /\ four[t].asked = thread[t].asked
      /\ \A w \in Threads \ {t} : four[w] = thread[w]
  BY <1>4 DEF ThreadType
<1>6. thread' = [four EXCEPT ![t].asked = IF v = None THEN 0 ELSE @]
  BY DEF Back, four, three, two, one
<1> HIDE DEF four
<1>7. thread' = [four EXCEPT ![t] = [four[t] EXCEPT !.asked = IF v = None THEN 0 ELSE @]]
  BY <1>6
<1> QED
  BY <1>1, <1>5, <1>7 DEF ThreadType

-----------------------------------------------------------------------------
(* The actions                                                             *)

\* The new font is where no glyph of a font is cached, and no thread uses one.
LEMMA NewFontGood ==
  ASSUME IInv, NEW t \in Threads, NEW f \in Fonts, NEW type3 \in Type3,
         NewFont(t, f, type3)
  PROVE  Good(cache, font, pixmap, thread)'
<1>1. Good(cache, font, pixmap, thread) /\ Typed(cache, font, pixmap, thread)
  BY DEF IInv, Good
<1>2. LastId + 1 \in Ids
  BY <1>1, LastIdKnown, CacheAssumption DEF NewFont, Typed, Ids
<1>3. /\ font' \in [Fonts -> FontType]
      /\ font'[f].refs = 1
      /\ \A x \in Fonts \ {f} : font'[x] = font[x]
  BY <1>1, <1>2, CacheAssumption DEF NewFont, Typed, FontType
<1>4. /\ thread' \in [Threads -> ThreadType]
      /\ \A w \in Threads \ {t} : thread'[w] = thread[w]
      /\ thread'[t].uses = thread[t].uses \cup {f} /\ thread'[t].val = thread[t].val
      /\ thread'[t].at = "out" /\ thread'[t].asked = thread[t].asked
  BY <1>1 DEF NewFont, Typed, ThreadType, Idle
<1>5. /\ \A k \in Keys : k[1] = f => cache.glyph[k] = None
      /\ \A u \in Threads : f \notin thread[u].uses
  BY <1>1, Free DEF NewFont
<1>6. Typed(cache, font, pixmap, thread)'
  BY <1>1, <1>3, <1>4 DEF NewFont, Typed
<1>7. Counted(cache, font, pixmap, thread)'
  <2>1. \A x \in Fonts : font'[x].refs =
          font[x].refs + One(x \in thread'[t].uses) - One(x \in thread[t].uses)
    BY <1>1, <1>3, <1>4, <1>5 DEF One, NewFont, Typed, FontType
  <2>2. Counted(cache, font', pixmap, thread')
    BY <1>1, <1>4, <2>1, UseCounts DEF Good
  <2> QED
    BY <2>2 DEF NewFont
<1>8. Same(cache, font, pixmap, thread)'
  BY <1>1, <1>3, <1>4, <1>5 DEF NewFont, Good, Same, Keys
<1>9. Rendering(font, thread)'
  BY <1>1, <1>3, <1>4, <1>5 DEF NewFont, Good, Rendering, Keys
<1> QED
  BY <1>6, <1>7, <1>8, <1>9 DEF Good

LEMMA KeepFontGood ==
  ASSUME IInv, NEW t \in Threads, NEW f \in Fonts, KeepFont(t, f)
  PROVE  Good(cache, font, pixmap, thread)'
<1>1. Good(cache, font, pixmap, thread) /\ Typed(cache, font, pixmap, thread)
  BY DEF IInv, Good
<1>2. /\ font' \in [Fonts -> FontType]
      /\ font'[f].refs = font[f].refs + 1
      /\ \A x \in Fonts \ {f} : font'[x] = font[x]
      /\ \A x \in Fonts : font'[x].id = font[x].id
  BY <1>1 DEF KeepFont, Typed, FontType
<1>3. /\ thread' \in [Threads -> ThreadType]
      /\ \A w \in Threads \ {t} : thread'[w] = thread[w]
      /\ thread'[t].uses = thread[t].uses \cup {f} /\ thread'[t].val = thread[t].val
      /\ thread'[t].at = "out" /\ thread'[t].asked = thread[t].asked
  BY <1>1 DEF KeepFont, Typed, ThreadType, Idle
<1>4. Typed(cache, font, pixmap, thread)'
  BY <1>1, <1>2, <1>3 DEF KeepFont, Typed
<1>5. Counted(cache, font, pixmap, thread)'
  <2>1. \A x \in Fonts : font'[x].refs =
          font[x].refs + One(x \in thread'[t].uses) - One(x \in thread[t].uses)
    BY <1>1, <1>2, <1>3 DEF One, KeepFont, Typed, FontType
  <2>2. Counted(cache, font', pixmap, thread')
    BY <1>1, <1>3, <2>1, UseCounts DEF Good
  <2> QED
    BY <2>2 DEF KeepFont
<1>6. Same(cache, font, pixmap, thread)'
  BY <1>1, <1>2, <1>3 DEF KeepFont, Good, Same, Keys
<1>7. Rendering(font, thread)'
  BY <1>1, <1>2, <1>3 DEF KeepFont, Good, Rendering, Keys
<1> QED
  BY <1>4, <1>5, <1>6, <1>7 DEF Good

\* A thread that drops a font renders no glyph of it.
LEMMA DropFontGood ==
  ASSUME IInv, NEW t \in Threads, NEW f \in Fonts, DropFont(t, f)
  PROVE  Good(cache, font, pixmap, thread)'
<1>1. Good(cache, font, pixmap, thread) /\ Typed(cache, font, pixmap, thread)
  BY DEF IInv, Good
<1>2. /\ font' \in [Fonts -> FontType]
      /\ font'[f].refs = font[f].refs - 1
      /\ \A x \in Fonts \ {f} : font'[x] = font[x]
      /\ \A x \in Fonts : font'[x].id = font[x].id
  BY <1>1 DEF DropFont, Typed, FontType
<1>3. /\ thread' \in [Threads -> ThreadType]
      /\ \A w \in Threads \ {t} : thread'[w] = thread[w]
      /\ thread'[t].uses = thread[t].uses \ {f} /\ thread'[t].val = thread[t].val
      /\ thread'[t].at = "out" /\ thread'[t].asked = thread[t].asked
  BY <1>1 DEF DropFont, Typed, ThreadType, Idle
<1>4. Typed(cache, font, pixmap, thread)'
  BY <1>1, <1>2, <1>3 DEF DropFont, Typed
<1>5. Counted(cache, font, pixmap, thread)'
  <2>1. \A x \in Fonts : font'[x].refs =
          font[x].refs + One(x \in thread'[t].uses) - One(x \in thread[t].uses)
    <3>1. f \in thread[t].uses /\ f \notin thread'[t].uses
      BY <1>3 DEF DropFont
    <3>2. \A x \in Fonts : font[x].refs \in Int
      BY <1>1 DEF Typed, FontType
    <3>3. \A x \in Fonts \ {f} : x \in thread'[t].uses <=> x \in thread[t].uses
      BY <1>3
    <3> QED
      BY <1>2, <3>1, <3>2, <3>3 DEF One
  <2>2. Counted(cache, font', pixmap, thread')
    BY <1>1, <1>3, <2>1, UseCounts DEF Good
  <2> QED
    BY <2>2 DEF DropFont
<1>6. Same(cache, font, pixmap, thread)'
  BY <1>1, <1>2, <1>3 DEF DropFont, Good, Same, Keys
<1>7. Rendering(font, thread)'
  BY <1>1, <1>2, <1>3 DEF DropFont, Good, Rendering, Keys
<1> QED
  BY <1>4, <1>5, <1>6, <1>7 DEF Good

LEMMA DropPixmapGood ==
  ASSUME IInv, NEW t \in Threads, DropPixmap(t)
  PROVE  Good(cache, font, pixmap, thread)'
<1> DEFINE v == thread[t].val
<1>1. /\ Good(cache, font, pixmap, thread) /\ Typed(cache, font, pixmap, thread)
      /\ 0 \in Ids
  BY CacheAssumption DEF IInv, Good, Ids
<1>2. v \in Pixmaps
  BY <1>1 DEF DropPixmap, Typed, ThreadType
<1>3. /\ pixmap' \in [Pixmaps -> PixmapType]
      /\ pixmap'[v].refs = pixmap[v].refs - 1
      /\ \A x \in Pixmaps \ {v} : pixmap'[x] = pixmap[x]
      /\ \A x \in Pixmaps : pixmap'[x].id = pixmap[x].id
  BY <1>1, <1>2 DEF DropPixmap, Typed, PixmapType
<1>4. /\ thread' \in [Threads -> ThreadType]
      /\ \A w \in Threads \ {t} : thread'[w] = thread[w]
      /\ thread'[t].uses = thread[t].uses /\ thread'[t].val = None
      /\ thread'[t].at = "out"
  <2> DEFINE one == [thread EXCEPT ![t].val = None]
  <2>1. /\ one \in [Threads -> ThreadType]
        /\ \A w \in Threads \ {t} : one[w] = thread[w]
        /\ one[t].uses = thread[t].uses /\ one[t].val = None /\ one[t].at = "out"
    BY <1>1 DEF DropPixmap, Typed, ThreadType, Idle
  <2>2. thread' = [one EXCEPT ![t] = [one[t] EXCEPT !.asked = 0]]
    BY <2>1 DEF DropPixmap
  <2> HIDE DEF one
  <2> QED
    BY <1>1, <2>1, <2>2 DEF ThreadType
<1>5. Typed(cache, font, pixmap, thread)'
  BY <1>1, <1>3, <1>4 DEF DropPixmap, Typed
<1>6. Counted(cache, font, pixmap, thread)'
  <2>1. \A x \in Pixmaps : pixmap'[x].refs =
          pixmap[x].refs + One(thread'[t].val = x) - One(v = x)
    BY <1>1, <1>2, <1>3, <1>4, CacheAssumption DEF One, Typed, PixmapType
  <2>2. Counted(cache, font, pixmap', thread')
    BY <1>1, <1>4, <2>1, ValCounts DEF Good
  <2> QED
    BY <2>2 DEF DropPixmap
<1>7. Same(cache, font, pixmap, thread)'
  BY <1>1, <1>3, <1>4 DEF DropPixmap, Good, Typed, CacheType, ThreadType, Same
<1>8. Rendering(font, thread)'
  BY <1>1, <1>4 DEF DropPixmap, Good, Rendering, Keys
<1> QED
  BY <1>5, <1>6, <1>7, <1>8 DEF Good

\* What is found in the cache is of the font, since the key keeps it.
LEMMA CallGood ==
  ASSUME IInv, NEW t \in Threads, NEW key \in Keys, NEW large \in BOOLEAN,
         Call(t, key, large)
  PROVE  Good(cache, font, pixmap, thread)'
<1> DEFINE f == key[1]
           val == IF large THEN None ELSE cache.glyph[key]
           hit == [thread[t] EXCEPT !.val = val, !.asked = font[f].id]
           miss == [thread[t] EXCEPT !.key = key, !.keep = ~large,
                                     !.asked = font[f].id,
                                     !.at = IF font[f].type3 THEN "type3" ELSE "render"]
<1>1. /\ Good(cache, font, pixmap, thread) /\ Typed(cache, font, pixmap, thread)
      /\ f \in Fonts /\ f \in thread[t].uses
      /\ thread[t].at = "out" /\ thread[t].val = None
      /\ UNCHANGED <<cache, font>>
  BY DEF IInv, Good, Call, Idle, Keys
<1>2. thread[t] \in ThreadType /\ font[f].id \in Ids /\ font[f].type3 \in BOOLEAN
  BY <1>1 DEF Typed, FontType
<1>3. CASE val # None
  <2>1. val = cache.glyph[key] /\ val \in Pixmaps
    BY <1>1, <1>3 DEF Typed, CacheType
  <2>2. /\ pixmap' = [pixmap EXCEPT ![val].refs = @ + 1]
        /\ thread' = [thread EXCEPT ![t] = hit]
    BY <1>3 DEF Call
  <2>3. /\ hit \in ThreadType /\ hit.at = "out" /\ hit.val = val
        /\ hit.uses = thread[t].uses /\ hit.asked = font[f].id
    <3> DEFINE one == [thread[t] EXCEPT !.val = val]
    <3> HIDE DEF val
    <3>1. /\ one \in ThreadType /\ one.at = "out" /\ one.val = val
          /\ one.uses = thread[t].uses
      BY <1>1, <1>2, <2>1 DEF ThreadType
    <3>2. hit = [one EXCEPT !.asked = font[f].id]
      OBVIOUS
    <3> HIDE DEF one, hit
    <3> QED
      BY <1>2, <3>1, <3>2 DEF ThreadType
  <2> HIDE DEF hit, miss, val
  <2>4. /\ pixmap' \in [Pixmaps -> PixmapType]
        /\ pixmap'[val].refs = pixmap[val].refs + 1
        /\ \A x \in Pixmaps \ {val} : pixmap'[x] = pixmap[x]
        /\ \A x \in Pixmaps : pixmap'[x].id = pixmap[x].id
    BY <1>1, <2>1, <2>2 DEF Typed, PixmapType
  <2>5. /\ thread' \in [Threads -> ThreadType] /\ thread'[t] = hit
        /\ \A w \in Threads \ {t} : thread'[w] = thread[w]
    BY <1>1, <2>2, <2>3 DEF Typed
  <2>6. Typed(cache, font, pixmap, thread)'
    BY <1>1, <2>4, <2>5 DEF Typed
  <2>7. Counted(cache, font, pixmap, thread)'
    <3>1. \A x \in Pixmaps : pixmap'[x].refs =
            pixmap[x].refs + One(thread'[t].val = x) - One(thread[t].val = x)
      BY <1>1, <2>1, <2>3, <2>4, <2>5, CacheAssumption DEF One, Typed, PixmapType
    <3>2. thread'[t].uses = thread[t].uses
      BY <2>3, <2>5
    <3>3. Counted(cache, font, pixmap', thread')
      BY <1>1, <2>5, <3>1, <3>2, ValCounts DEF Good
    <3> QED
      BY <1>1, <3>3
  <2>8. Same(cache, font, pixmap, thread)'
    <3>1. pixmap[val].id = font[f].id
      BY <1>1, <1>3, <2>1 DEF Good, Same
    <3>2. \A k \in Keys : cache.glyph[k] # None => cache.glyph[k] \in Pixmaps
      BY <1>1 DEF Typed, CacheType
    <3>3. \A u \in Threads : thread[u].val # None => thread[u].val \in Pixmaps
      BY <1>1 DEF Typed, ThreadType
    <3> QED
      BY <1>1, <2>1, <2>3, <2>4, <2>5, <3>1, <3>2, <3>3 DEF Good, Same
  <2>9. Rendering(font, thread)'
    BY <1>1, <2>3, <2>5 DEF Good, Rendering
  <2> QED
    BY <2>6, <2>7, <2>8, <2>9 DEF Good
<1>4. CASE val = None
  <2>1. UNCHANGED pixmap /\ thread' = [thread EXCEPT ![t] = miss]
    BY <1>4 DEF Call
  <2>2. /\ miss \in ThreadType /\ miss.at \in {"type3", "render"} /\ miss.val = None
        /\ miss.uses = thread[t].uses /\ miss.asked = font[f].id /\ miss.key = key
    <3> DEFINE one == [thread[t] EXCEPT !.key = key]
               two == [one EXCEPT !.keep = ~large]
               three == [two EXCEPT !.asked = font[f].id]
               at == IF font[f].type3 THEN "type3" ELSE "render"
    <3>1. /\ one \in ThreadType /\ one.val = None
          /\ one.uses = thread[t].uses /\ one.key = key
      BY <1>1, <1>2 DEF ThreadType
    <3> HIDE DEF one
    <3>2. /\ two \in ThreadType /\ two.val = None
          /\ two.uses = thread[t].uses /\ two.key = key
      BY <3>1 DEF ThreadType
    <3> HIDE DEF two
    <3>3. /\ three \in ThreadType /\ three.val = None /\ three.asked = font[f].id
          /\ three.uses = thread[t].uses /\ three.key = key
      BY <1>2, <3>2 DEF ThreadType
    <3>4. miss = [three EXCEPT !.at = at]
      BY DEF three, two, one
    <3>5. at \in {"type3", "render"}
      OBVIOUS
    <3> HIDE DEF three, at, miss
    <3> QED
      BY <3>3, <3>4, <3>5 DEF ThreadType
  <2> HIDE DEF hit, miss, val
  <2>3. /\ thread' \in [Threads -> ThreadType] /\ thread'[t] = miss
        /\ \A w \in Threads \ {t} : thread'[w] = thread[w]
    BY <1>1, <2>1, <2>2 DEF Typed
  <2>4. Typed(cache, font, pixmap, thread)'
    BY <1>1, <2>1, <2>3 DEF Typed
  <2>5. Counted(cache, font, pixmap, thread)'
    <3>1. \A x \in Pixmaps : pixmap[x].refs =
            pixmap[x].refs + One(thread'[t].val = x) - One(thread[t].val = x)
      BY <1>1, <2>2, <2>3 DEF One, Typed, PixmapType
    <3>2. thread'[t].uses = thread[t].uses
      BY <2>2, <2>3
    <3>3. Counted(cache, font, pixmap, thread')
      BY <1>1, <2>3, <3>1, <3>2, ValCounts DEF Good
    <3> QED
      BY <1>1, <2>1, <3>3
  <2>6. Same(cache, font, pixmap, thread)'
    BY <1>1, <2>1, <2>2, <2>3 DEF Good, Same
  <2>7. Rendering(font, thread)'
    BY <1>1, <2>2, <2>3 DEF Good, Rendering
  <2> QED
    BY <2>4, <2>5, <2>6, <2>7 DEF Good
<1> QED
  BY <1>3, <1>4

\* A step that leaves cache and fonts alone takes thread t from one place to
\* another inside of fz_render_glyph, or out of it with what it has.
LEMMA MoveGood ==
  ASSUME Good(cache, font, pixmap, thread), NEW t \in Threads,
         UNCHANGED <<cache, font, pixmap>>, thread[t].at # "out",
         \/ \E at \in {"lock", "cache"} : At(t, at, thread[t].val)
         \/ Back(t, thread[t].val)
  PROVE  Good(cache, font, pixmap, thread)'
<1>1. Typed(cache, font, pixmap, thread)
  BY DEF Good
<1>2. thread \in [Threads -> ThreadType] /\ thread[t].val \in Pixmaps \cup {None}
  BY <1>1 DEF Typed, ThreadType
<1>3. /\ thread' \in [Threads -> ThreadType]
      /\ \A w \in Threads \ {t} : thread'[w] = thread[w]
      /\ thread'[t].val = thread[t].val /\ thread'[t].uses = thread[t].uses
      /\ thread[t].val # None => thread'[t].asked = thread[t].asked
      /\ thread'[t].at # "out" =>
           /\ thread'[t].at \in {"lock", "cache"} /\ thread'[t].key = thread[t].key
           /\ thread'[t].asked = thread[t].asked
  <2>1. CASE \E at \in {"lock", "cache"} : At(t, at, thread[t].val)
    BY <1>2, <2>1, AtSets
  <2>2. CASE Back(t, thread[t].val)
    BY <1>2, <2>2, BackSets
  <2> QED
    BY <2>1, <2>2
<1>4. Typed(cache, font, pixmap, thread)'
  BY <1>1, <1>3 DEF Typed
<1>5. Counted(cache, font, pixmap, thread)'
  <2>1. \A x \in Pixmaps : pixmap[x].refs =
          pixmap[x].refs + One(thread'[t].val = x) - One(thread[t].val = x)
    BY <1>1, <1>3 DEF One, Typed, PixmapType
  <2>2. Counted(cache, font, pixmap, thread')
    BY <1>1, <1>3, <2>1, ValCounts DEF Good
  <2> QED
    BY <2>2
<1>6. Same(cache, font, pixmap, thread)'
  BY <1>1, <1>3 DEF Good, Same
<1>7. Rendering(font, thread)'
  BY <1>1, <1>3 DEF Good, Rendering
<1> QED
  BY <1>4, <1>5, <1>6, <1>7 DEF Good

\* The pixmap of a new glyph is where nothing refers to one.
LEMMA RenderGood ==
  ASSUME IInv, NEW t \in Threads, Render(t)
  PROVE  Good(cache, font, pixmap, thread)'
<1> DEFINE id == font[thread[t].key[1]].id
           at == IF thread[t].at = "type3" THEN "lock" ELSE "cache"
<1>1. /\ Good(cache, font, pixmap, thread) /\ Typed(cache, font, pixmap, thread)
      /\ thread[t].at \in {"type3", "render"} /\ thread[t].val = None
      /\ thread[t].key \in Keys /\ thread[t].asked = id /\ id \in Ids
      /\ UNCHANGED <<cache, font>> /\ at \in {"lock", "cache"}
  BY DEF IInv, Good, Render, Rendering, Typed, FontType, Keys
<1>2. ASSUME NEW p \in Pixmaps, NEW size \in Sizes, pixmap[p].refs = 0,
             pixmap' = [pixmap EXCEPT ![p] = [refs |-> 1, size |-> size, id |-> id]],
             At(t, at, p)
      PROVE  Good(cache, font, pixmap, thread)'
  <2> HIDE DEF id, at
  <2>1. /\ \A k \in Keys : cache.glyph[k] # p
        /\ \A u \in Threads : thread[u].val # p
    BY <1>1, <1>2, Free
  <2>2. /\ pixmap' \in [Pixmaps -> PixmapType]
        /\ pixmap'[p].refs = 1 /\ pixmap'[p].id = id
        /\ \A x \in Pixmaps \ {p} : pixmap'[x] = pixmap[x]
    BY <1>1, <1>2, CacheAssumption DEF Typed, PixmapType
  <2>3. /\ thread' \in [Threads -> ThreadType]
        /\ \A w \in Threads \ {t} : thread'[w] = thread[w]
        /\ thread'[t].at = at /\ thread'[t].val = p
        /\ thread'[t].uses = thread[t].uses /\ thread'[t].key = thread[t].key
        /\ thread'[t].asked = thread[t].asked
    BY <1>1, <1>2, AtSets DEF Typed
  <2>4. Typed(cache, font, pixmap, thread)'
    BY <1>1, <2>2, <2>3 DEF Typed
  <2>5. Counted(cache, font, pixmap, thread)'
    <3>1. \A x \in Pixmaps : pixmap'[x].refs =
            pixmap[x].refs + One(thread'[t].val = x) - One(thread[t].val = x)
      BY <1>1, <1>2, <2>2, <2>3, CacheAssumption DEF One, Typed, PixmapType
    <3>2. Counted(cache, font, pixmap', thread')
      BY <1>1, <2>3, <3>1, ValCounts DEF Good
    <3> QED
      BY <1>1, <3>2
  <2>6. Same(cache, font, pixmap, thread)'
    <3>1. \A k \in Keys : cache.glyph[k] # None => cache.glyph[k] \in Pixmaps \ {p}
      BY <1>1, <2>1 DEF Typed, CacheType
    <3>2. \A u \in Threads : thread[u].val # None => thread[u].val \in Pixmaps \ {p}
      BY <1>1, <2>1 DEF Typed, ThreadType
    <3> QED
      BY <1>1, <2>2, <2>3, <3>1, <3>2 DEF Good, Same
  <2>7. Rendering(font, thread)'
    BY <1>1, <2>3 DEF Good, Rendering
  <2> QED
    BY <2>4, <2>5, <2>6, <2>7 DEF Good
<1>3. CASE At(t, at, None) /\ UNCHANGED pixmap
  BY <1>1, <1>3, MoveGood
<1>4. CASE RenderThrows(t)
  BY <1>1, <1>4, MoveGood DEF RenderThrows
<1> QED
  BY <1>2, <1>3, <1>4 DEF Render

LEMMA LockGood ==
  ASSUME IInv, NEW t \in Threads, Lock(t)
  PROVE  Good(cache, font, pixmap, thread)'
<1>1. Good(cache, font, pixmap, thread) /\ thread \in [Threads -> ThreadType]
  BY DEF IInv, Good, Typed
<1>2. At(t, "cache", thread[t].val)
  <2> DEFINE one == [thread EXCEPT ![t].at = "cache"]
  <2>1. one \in [Threads -> ThreadType] /\ one[t].val = thread[t].val
    BY <1>1 DEF ThreadType
  <2>2. thread' = one
    BY DEF Lock
  <2> HIDE DEF one
  <2>3. [one EXCEPT ![t].val = thread[t].val] = one
    BY <2>1 DEF ThreadType
  <2> QED
    BY <2>2, <2>3 DEF At, one
<1> QED
  BY <1>1, <1>2, MoveGood DEF Lock

LEMMA ReturnGood ==
  ASSUME IInv, NEW t \in Threads, Return(t)
  PROVE  Good(cache, font, pixmap, thread)'
  BY MoveGood DEF IInv, Return

\* The changes of an insertion: d is c with the glyph, f and p have counted one
\* reference more, and thread u is out of fz_render_glyph with v; or it has
\* moved from one pixmap to another.
Inserted(c, d, key, v) ==
  /\ d \in CacheType /\ c.glyph[key] = None /\ d.glyph[key] = v
  /\ \A k \in Keys \ {key} : d.glyph[k] = c.glyph[k]
FontUp(f, g, y) ==
  /\ g \in [Fonts -> FontType]
  /\ \A x \in Fonts : g[x].refs = f[x].refs + One(x = y) /\ g[x].id = f[x].id
PixmapUp(p, q, y) ==
  /\ q \in [Pixmaps -> PixmapType]
  /\ \A x \in Pixmaps : q[x].refs = p[x].refs + One(x = y) /\ q[x].id = p[x].id
Out(t, t2, u, v) ==
  /\ t2 \in [Threads -> ThreadType] /\ \A w \in Threads \ {u} : t2[w] = t[w]
  /\ t2[u].at = "out" /\ t2[u].val = v /\ t2[u].uses = t[u].uses
  /\ v # None => t2[u].asked = t[u].asked
Taken(p, y) == [p EXCEPT ![y].refs = @ + 1]
Moved(p, q, new, old) ==
  /\ q \in [Pixmaps -> PixmapType]
  /\ \A x \in Pixmaps : /\ q[x].refs = p[x].refs + One(new = x) - One(old = x)
                        /\ q[x].id = p[x].id

\* fz_drop_pixmap takes one reference away.
LEMMA AbandonedOne ==
  ASSUME NEW p \in [Pixmaps -> PixmapType], NEW x \in Pixmaps
  PROVE  /\ Abandoned(p, x) \in [Pixmaps -> PixmapType]
         /\ \A y \in Pixmaps : /\ Abandoned(p, x)[y].refs = p[y].refs - One(x = y)
                               /\ Abandoned(p, x)[y].id = p[y].id
<1> DEFINE q == Abandoned(p, x)
<1>1. /\ q \in [Pixmaps -> PixmapType]
      /\ q[x].refs = p[x].refs - 1 /\ q[x].id = p[x].id
      /\ \A y \in Pixmaps \ {x} : q[y] = p[y]
  BY DEF PixmapType, Abandoned
<1>2. \A y \in Pixmaps : p[y].refs \in Int
  BY DEF PixmapType
<1> HIDE DEF q
<1>3. \A y \in Pixmaps : q[y].refs = p[y].refs - One(x = y) /\ q[y].id = p[y].id
  BY <1>1, <1>2 DEF One
<1> QED
  BY <1>1, <1>3 DEF q

\* Thread u comes out of fz_render_glyph with another pixmap of the same font,
\* or with none.
LEMMA OutGood ==
  ASSUME NEW c, NEW f, NEW p, NEW t, NEW q, NEW t2, Good(c, f, p, t),
         NEW u \in Threads, NEW v, Out(t, t2, u, v), Moved(p, q, v, t[u].val),
         v # None => p[v].id = t[u].asked, v \in Pixmaps \cup {None}
  PROVE  Good(c, f, q, t2)
<1>1. Typed(c, f, p, t) /\ Counted(c, f, p, t)
  BY DEF Good
<1>2. Typed(c, f, q, t2)
  BY <1>1 DEF Typed, Out, Moved
<1>3. Counted(c, f, q, t2)
  BY <1>1, ValCounts DEF Out, Moved
<1>4. Same(c, f, q, t2)
  <2>1. \A k \in Keys : c.glyph[k] # None => c.glyph[k] \in Pixmaps
    BY <1>1 DEF Typed, CacheType
  <2>2. \A w \in Threads : t[w].val # None => t[w].val \in Pixmaps
    BY <1>1 DEF Typed, ThreadType
  <2> QED
    BY <2>1, <2>2 DEF Good, Same, Out, Moved
<1>5. Rendering(f, t2)
  BY DEF Good, Rendering, Out
<1> QED
  BY <1>2, <1>3, <1>4, <1>5 DEF Good

\* Another thread was faster: its pixmap is returned, and the own one dropped.
LEMMA AbandonMoves ==
  ASSUME NEW p \in [Pixmaps -> PixmapType], NEW v \in Pixmaps, NEW pix \in Pixmaps
  PROVE  Moved(p, Taken(Abandoned(p, v), pix), pix, v)
<1> DEFINE q == Taken(Abandoned(p, v), pix)
<1>0. PICK r : r = Abandoned(p, v)
  OBVIOUS
<1>1. /\ r \in [Pixmaps -> PixmapType]
      /\ \A y \in Pixmaps : /\ r[y].refs = p[y].refs - One(v = y)
                            /\ r[y].id = p[y].id
  BY <1>0, AbandonedOne
<1>2. /\ q \in [Pixmaps -> PixmapType]
      /\ \A y \in Pixmaps : /\ q[y].refs = r[y].refs + One(pix = y)
                            /\ q[y].id = r[y].id
  <2>1. /\ q \in [Pixmaps -> PixmapType]
        /\ q[pix].refs = r[pix].refs + 1 /\ q[pix].id = r[pix].id
        /\ \A y \in Pixmaps \ {pix} : q[y] = r[y]
    BY <1>0, <1>1 DEF PixmapType, Taken
  <2> HIDE DEF q
  <2>2. ASSUME NEW y \in Pixmaps
        PROVE  q[y].refs = r[y].refs + One(pix = y) /\ q[y].id = r[y].id
    <3>1. r[y].refs \in Int
      BY <1>1 DEF PixmapType
    <3>2. CASE pix = y
      BY <2>1, <3>2 DEF One
    <3>3. CASE pix # y
      BY <2>1, <3>1, <3>3 DEF One
    <3> QED
      BY <3>2, <3>3
  <2> QED
    BY <2>1, <2>2
<1> HIDE DEF q
<1>3. ASSUME NEW x \in Pixmaps
      PROVE  q[x].refs = p[x].refs + One(pix = x) - One(v = x) /\ q[x].id = p[x].id
  <2>1. p[x].refs \in Int /\ One(pix = x) \in Int /\ One(v = x) \in Int
    BY DEF PixmapType, One
  <2> QED
    BY <1>1, <1>2, <2>1
<1> QED
  BY <1>2, <1>3 DEF Moved, q

\* The glyph is inserted: its pixmap has got another reference, and so has the
\* font, for the key.
LEMMA InsertGood ==
  ASSUME NEW c, NEW f, NEW p, NEW t, NEW d, NEW g, NEW q, NEW t2, Good(c, f, p, t),
         NEW u \in Threads, NEW key \in Keys, NEW v \in Pixmaps,
         t[u].at = "cache", t[u].key = key, t[u].val = v,
         Inserted(c, d, key, v), FontUp(f, g, key[1]), PixmapUp(p, q, v),
         Out(t, t2, u, v)
  PROVE  Good(d, g, q, t2)
<1>1. Typed(c, f, p, t) /\ Counted(c, f, p, t)
  BY DEF Good
<1>2. Typed(d, g, q, t2)
  BY DEF Typed, Inserted, FontUp, PixmapUp, Out
<1>3. ASSUME NEW x \in Pixmaps
      PROVE  Covers(q[x].refs, Cardinality(Cached(d, x)) + Cardinality(Holding(t2, x)))
  <2>1. Holding(t2, x) = Holding(t, x)
    BY DEF Holding, Out
  <2>2. Cardinality(Cached(d, x)) = Cardinality(Cached(c, x)) + One(x = v)
    BY InsertCounts DEF Inserted
  <2>3. /\ p[x].refs \in Int /\ One(x = v) \in Int
        /\ Cardinality(Cached(c, x)) \in Nat /\ Cardinality(Holding(t, x)) \in Nat
    <3>1. Cardinality(Cached(c, x)) \in Nat /\ Cardinality(Holding(t, x)) \in Nat
      BY CountsNat, Zenon
    <3> QED
      BY <1>1, <3>1 DEF Typed, PixmapType, One
  <2>4. Covers(p[x].refs, Cardinality(Cached(c, x)) + Cardinality(Holding(t, x)))
    BY <1>1 DEF Counted
  <2> QED
    BY <2>1, <2>2, <2>3, <2>4 DEF Covers, PixmapUp
<1>4. ASSUME NEW x \in Fonts
      PROVE  g[x].refs = Cardinality(CachedOf(d, x)) + Cardinality(Using(t2, x))
  <2>1. Using(t2, x) = Using(t, x)
    BY DEF Using, Out
  <2>2. Cardinality(CachedOf(d, x)) = Cardinality(CachedOf(c, x)) + One(x = key[1])
    BY InsertCounts DEF Inserted
  <2>3. /\ One(x = key[1]) \in Int
        /\ Cardinality(CachedOf(c, x)) \in Nat /\ Cardinality(Using(t, x)) \in Nat
    <3>1. Cardinality(CachedOf(c, x)) \in Nat /\ Cardinality(Using(t, x)) \in Nat
      BY CountsNat, Zenon
    <3> QED
      BY <3>1 DEF One
  <2>4. f[x].refs = Cardinality(CachedOf(c, x)) + Cardinality(Using(t, x))
    BY <1>1 DEF Counted
  <2> QED
    BY <2>1, <2>2, <2>3, <2>4 DEF FontUp
<1>5. Counted(d, g, q, t2)
  BY <1>3, <1>4 DEF Counted
<1>6. Same(d, g, q, t2)
  <2>1. \A k \in Keys : c.glyph[k] # None => c.glyph[k] \in Pixmaps
    BY <1>1 DEF Typed, CacheType
  <2>2. \A w \in Threads : t[w].val # None => t[w].val \in Pixmaps
    BY <1>1 DEF Typed, ThreadType
  <2>3. p[v].id = t[u].asked /\ t[u].asked = f[key[1]].id
    BY CacheAssumption DEF Good, Same, Rendering
  <2>4. \A k \in Keys : k[1] \in Fonts
    BY DEF Keys
  <2>5. ASSUME NEW k \in Keys, d.glyph[k] # None
        PROVE  q[d.glyph[k]].id = g[k[1]].id
    <3>1. CASE k = key
      BY <2>3, <2>4, <3>1 DEF Inserted, FontUp, PixmapUp
    <3>2. CASE k # key
      <4>1. d.glyph[k] = c.glyph[k] /\ c.glyph[k] \in Pixmaps /\ k[1] \in Fonts
        BY <2>1, <2>4, <2>5, <3>2 DEF Inserted
      <4>2. p[c.glyph[k]].id = f[k[1]].id
        BY <2>5, <4>1 DEF Good, Same
      <4> QED
        BY <4>1, <4>2 DEF FontUp, PixmapUp
    <3> QED
      BY <3>1, <3>2
  <2>6. ASSUME NEW w \in Threads, t2[w].val # None
        PROVE  q[t2[w].val].id = t2[w].asked
    <3>1. CASE w = u
      BY <2>3, <3>1, CacheAssumption DEF PixmapUp, Out
    <3>2. CASE w # u
      BY <2>2, <2>6, <3>2 DEF Good, Same, PixmapUp, Out
    <3> QED
      BY <3>1, <3>2
  <2> QED
    BY <2>5, <2>6 DEF Same
<1>7. Rendering(g, t2)
  BY DEF Good, Rendering, Keys, FontUp, Out
<1> QED
  BY <1>2, <1>5, <1>6, <1>7 DEF Good

\* fz_hash_insert has thrown, and the pixmap of a thread is lost with val.
LEMMA LostGood ==
  ASSUME NEW c, NEW f, NEW p, NEW t, NEW t2, Good(c, f, p, t), ~ValKept,
         NEW u \in Threads, Out(t, t2, u, None)
  PROVE  Good(c, f, p, t2)
<1>1. Typed(c, f, p, t) /\ Counted(c, f, p, t)
  BY DEF Good
<1>2. Typed(c, f, p, t2)
  BY <1>1 DEF Typed, Out
<1>3. ASSUME NEW x \in Pixmaps
      PROVE  Covers(p[x].refs, Cardinality(Cached(c, x)) + Cardinality(Holding(t2, x)))
  <2>1. /\ Cardinality(Holding(t2, x)) =
             Cardinality(Holding(t, x)) + One(t2[u].val = x) - One(t[u].val = x)
        /\ Covers(p[x].refs, Cardinality(Cached(c, x)) + Cardinality(Holding(t, x)))
    <3>1. Cardinality(Holding(t2, x)) =
            Cardinality(Holding(t, x)) + One(t2[u].val = x) - One(t[u].val = x)
      BY ThreadCounts DEF Out
    <3> QED
      BY <1>1, <3>1 DEF Counted
  <2>2. /\ One(t2[u].val = x) = 0 /\ One(t[u].val = x) \in {0, 1}
        /\ p[x].refs \in Int
    BY <1>1, CacheAssumption DEF One, Typed, PixmapType, Out
  <2> QED
    BY <2>1, <2>2, CountsNat DEF Covers
<1>4. Counted(c, f, p, t2)
  <2>1. \A x \in Fonts : Using(t2, x) = Using(t, x)
    BY DEF Using, Out
  <2> QED
    BY <1>1, <1>3, <2>1 DEF Counted
<1>5. Same(c, f, p, t2) /\ Rendering(f, t2)
  BY DEF Good, Same, Rendering, Out
<1> QED
  BY <1>2, <1>4, <1>5 DEF Good

\* The cache is evicted first if it is full.
LEMMA CacheGood ==
  ASSUME IInv, NEW t \in Threads, Cache(t)
  PROVE  Good(cache, font, pixmap, thread)'
<1> DEFINE key == thread[t].key
           val == thread[t].val
           full == Full(pixmap[val].size)
           c == IF full THEN Evict(cache) ELSE cache
           fonts == IF full THEN FontsEvicted(cache) ELSE font
           pixmaps == IF full THEN PixmapsEvicted(cache) ELSE pixmap
           pix == c.glyph[key]
<1>1. /\ Good(cache, font, pixmap, thread) /\ Typed(cache, font, pixmap, thread)
      /\ thread[t].at = "cache" /\ thread \in [Threads -> ThreadType]
  BY DEF IInv, Good, Typed, Cache
<1>2. key \in Keys /\ val \in Pixmaps /\ key[1] \in Fonts
  BY <1>1 DEF Good, Rendering, Cache, Cacheable, Typed, ThreadType, Keys
<1>3. Good(c, fonts, pixmaps, thread)
  <2>1. CASE full
    BY <1>1, <2>1, EvictGood
  <2>2. CASE ~full
    BY <1>1, <2>2
  <2> QED
    BY <2>1, <2>2
<1>4. \A v \in Pixmaps \cup {None} : Back(t, v) => Out(thread, thread', t, v)
  BY <1>1, BackSets DEF Out
<1>5. \/ /\ pix # None
         /\ pixmap' = [Abandoned(pixmaps, val) EXCEPT ![pix].refs = @ + 1]
         /\ font' = fonts /\ cache' = c /\ Back(t, pix)
      \/ /\ pix = None
         /\ pixmap' = [pixmaps EXCEPT ![val].refs = @ + 1]
         /\ font' = FontKept(fonts, key[1])
         /\ cache' = [c EXCEPT !.glyph[key] = val, !.total = @ + pixmap[val].size]
         /\ Back(t, val)
      \/ /\ pixmap' = pixmaps /\ font' = fonts /\ cache' = c
         /\ \E v \in IF ValKept THEN {val} ELSE {val, None} : Back(t, v)
  BY DEF Cache
<1>6. pixmap[val].size \in Nat /\ thread[t].val = val /\ thread[t].key = key
  BY <1>1, <1>2 DEF Typed, PixmapType
<1> HIDE DEF key, val, full, c, fonts, pixmaps
<1>7. /\ Typed(c, fonts, pixmaps, thread) /\ pixmaps \in [Pixmaps -> PixmapType]
      /\ fonts \in [Fonts -> FontType] /\ c \in CacheType
      /\ pix \in Pixmaps \cup {None}
  BY <1>2, <1>3 DEF Good, Typed, CacheType
<1>8. ASSUME pix # None, Back(t, pix), font' = fonts, cache' = c,
             pixmap' = [Abandoned(pixmaps, val) EXCEPT ![pix].refs = @ + 1]
      PROVE  Good(cache, font, pixmap, thread)'
  <2>1. pix \in Pixmaps /\ Out(thread, thread', t, pix)
    BY <1>4, <1>7, <1>8
  <2>2. Moved(pixmaps, pixmap', pix, val)
    <3>1. pixmap' = Taken(Abandoned(pixmaps, val), pix)
      BY <1>8 DEF Taken
    <3> QED
      BY <1>2, <1>7, <2>1, <3>1, AbandonMoves
  <2>3. pixmaps[pix].id = thread[t].asked
    <3>1. pixmaps[pix].id = fonts[key[1]].id
      BY <1>2, <1>3, <1>8 DEF Good, Same
    <3>2. thread[t].asked = fonts[key[1]].id
      BY <1>1, <1>3, <1>6 DEF Good, Rendering
    <3> QED
      BY <3>1, <3>2
  <2>4. Good(c, fonts, pixmap', thread')
    BY <1>3, <1>6, <2>1, <2>2, <2>3, OutGood
  <2> QED
    BY <1>8, <2>4
<1>9. ASSUME pix = None, Back(t, val), font' = FontKept(fonts, key[1]),
             pixmap' = [pixmaps EXCEPT ![val].refs = @ + 1],
             cache' = [c EXCEPT !.glyph[key] = val, !.total = @ + pixmap[val].size]
      PROVE  Good(cache, font, pixmap, thread)'
  <2>1. Out(thread, thread', t, val)
    BY <1>2, <1>4, <1>9
  <2>2. PixmapUp(pixmaps, pixmap', val)
    BY <1>2, <1>7, <1>9 DEF PixmapUp, PixmapType, One
  <2>3. FontUp(fonts, font', key[1])
    BY <1>2, <1>7, <1>9 DEF FontUp, FontKept, FontType, One
  <2>4. Inserted(c, cache', key, val)
    <3> DEFINE e == [c EXCEPT !.glyph[key] = val]
    <3>1. /\ e \in CacheType /\ e.glyph[key] = val
          /\ \A k \in Keys \ {key} : e.glyph[k] = c.glyph[k]
      BY <1>2, <1>7 DEF CacheType
    <3>2. cache' = [e EXCEPT !.total = @ + pixmap[val].size]
      BY <1>9
    <3> HIDE DEF e
    <3>3. cache' \in CacheType /\ cache'.glyph = e.glyph
      BY <1>6, <3>1, <3>2 DEF CacheType
    <3> QED
      BY <1>9, <3>1, <3>3 DEF Inserted
  <2>5. Good(cache', font', pixmap', thread')
    BY <1>1, <1>2, <1>3, <1>6, <2>1, <2>2, <2>3, <2>4, InsertGood
  <2> QED
    BY <2>5
<1>10. ASSUME NEW v \in IF ValKept THEN {val} ELSE {val, None}, Back(t, v),
              pixmap' = pixmaps, font' = fonts, cache' = c
       PROVE  Good(cache, font, pixmap, thread)'
  <2>1. v \in {val, None} /\ Out(thread, thread', t, v)
    BY <1>2, <1>4, <1>10
  <2>2. CASE v = val
    <3>1. pixmaps[val].id = thread[t].asked
      BY <1>2, <1>3, <1>6, CacheAssumption DEF Good, Same
    <3>2. Moved(pixmaps, pixmaps, val, val)
      BY <1>7 DEF Moved, One, PixmapType
    <3>3. Good(c, fonts, pixmaps, thread')
      BY <1>2, <1>3, <1>6, <2>1, <2>2, <3>1, <3>2, OutGood
    <3> QED
      BY <1>10, <3>3
  <2>3. CASE v # val
    <3>1. v = None /\ ~ValKept
      BY <1>10, <2>1, <2>3
    <3>2. Good(c, fonts, pixmaps, thread')
      BY <1>3, <2>1, <3>1, LostGood
    <3> QED
      BY <1>10, <3>2
  <2> QED
    BY <2>2, <2>3
<1> QED
  BY <1>5, <1>8, <1>9, <1>10

\* A context that is dropped uses no font and has no pixmap.
LEMMA DropContextGood ==
  ASSUME IInv, NEW t \in Threads, DropContext(t)
  PROVE  Good(cache, font, pixmap, thread)'
<1>1. Good(cache, font, pixmap, thread) /\ Typed(cache, font, pixmap, thread)
  BY DEF IInv, Good
<1>2. Good(cache', font', pixmap', thread)
  <2>1. CASE cache.refs > 1
    <3>1. cache' = [cache EXCEPT !.refs = @ - 1] /\ UNCHANGED <<font, pixmap>>
      BY <2>1 DEF DropContext, Dropped
    <3>2. cache' \in CacheType /\ cache'.glyph = cache.glyph
      BY <1>1, <3>1 DEF Typed, CacheType
    <3>3. Typed(cache', font, pixmap, thread)
      BY <1>1, <3>2 DEF Typed
    <3>4. Counted(cache', font, pixmap, thread) /\ Same(cache', font, pixmap, thread)
      BY <1>1, <3>2 DEF Good, Counted, Same, Cached, CachedOf
    <3> QED
      BY <1>1, <3>1, <3>3, <3>4 DEF Good
  <2>2. CASE ~(cache.refs > 1)
    BY <1>1, <2>2, EvictGood DEF DropContext, Dropped
  <2> QED
    BY <2>1, <2>2
<1>3. /\ thread' \in [Threads -> ThreadType]
      /\ \A u \in Threads : /\ thread'[u].val = thread[u].val
                            /\ thread'[u].uses = thread[u].uses
                            /\ thread'[u].at = thread[u].at
                            /\ thread'[u].key = thread[u].key
                            /\ thread'[u].asked = thread[u].asked
  <2>1. thread \in [Threads -> ThreadType]
    BY <1>1 DEF Typed
  <2>2. thread' = [thread EXCEPT ![t] = [thread[t] EXCEPT !.ctx = FALSE]]
    BY DEF DropContext
  <2>3. thread' \in [Threads -> ThreadType]
    BY <2>1, <2>2 DEF ThreadType
  <2>4. \A u \in Threads \ {t} : thread'[u] = thread[u]
    BY <2>1, <2>2
  <2>5. /\ thread'[t].val = thread[t].val /\ thread'[t].uses = thread[t].uses
        /\ thread'[t].at = thread[t].at /\ thread'[t].key = thread[t].key
        /\ thread'[t].asked = thread[t].asked
    BY <2>1, <2>2 DEF ThreadType
  <2> QED
    BY <2>3, <2>4, <2>5
<1>4. Typed(cache, font, pixmap, thread)'
  BY <1>2, <1>3 DEF Good, Typed
<1>5. Counted(cache, font, pixmap, thread)'
  <2>1. \A x : Holding(thread', x) = Holding(thread, x) /\ Using(thread', x) = Using(thread, x)
    BY <1>3 DEF Holding, Using
  <2> QED
    BY <1>2, <2>1 DEF Good, Counted
<1>6. Same(cache, font, pixmap, thread)' /\ Rendering(font, thread)'
  BY <1>2, <1>3 DEF Good, Same, Rendering
<1> QED
  BY <1>4, <1>5, <1>6 DEF Good

-----------------------------------------------------------------------------
(* The lock                                                                *)

InLock == {"render", "cache"}

\* A step of one thread, which has the lock afterwards as it should, and whose
\* getting or giving it up concerns no other thread.
LEMMA LockStep ==
  ASSUME LockKept, NEW t \in Threads, lock \in Threads \cup {None},
         \A u \in Threads \ {t} : thread'[u].at = thread[u].at,
         lock' = t <=> thread'[t].at \in InLock,
         \/ lock' = lock
         \/ lock \in {t, None} /\ lock' \in {t, None}
  PROVE  LockKept' /\ lock' \in Threads \cup {None}
<1>1. \A u \in Threads \ {t} : lock' = u <=> lock = u
  BY CacheAssumption
<1> QED
  BY <1>1 DEF LockKept, InLock

\* Calls, locks and returns keep the lock with the thread that needs it.
LEMMA LockSteps ==
  ASSUME IInv, NEW t \in Threads,
         \/ \E key \in Keys, large \in BOOLEAN : Call(t, key, large)
         \/ Inside(t)
  PROVE  LockKept' /\ lock' \in Threads \cup {None}
<1>1. /\ thread \in [Threads -> ThreadType] /\ LockKept
      /\ lock \in Threads \cup {None} /\ thread[t] \in ThreadType
      /\ lock = t <=> thread[t].at \in InLock
      /\ t # None /\ thread[t].val \in Pixmaps \cup {None}
  BY CacheAssumption DEF IInv, Good, Typed, LockKept, InLock, ThreadType
<1>2. ASSUME NEW v \in Pixmaps \cup {None}, Back(t, v), lock' = Unlock(t)
      PROVE  LockKept' /\ lock' \in Threads \cup {None}
  <2>1. thread'[t].at = "out" /\ \A u \in Threads \ {t} : thread'[u] = thread[u]
    BY <1>1, <1>2, BackSets
  <2>2. lock' # t /\ (lock' = lock \/ (lock = t /\ lock' = None))
    <3>1. CASE lock = t
      BY <1>1, <1>2, <3>1 DEF Unlock
    <3>2. CASE lock # t
      BY <1>2, <3>2 DEF Unlock
    <3> QED
      BY <3>1, <3>2
  <2> QED
    BY <1>1, <2>1, <2>2, LockStep DEF InLock
<1>3. ASSUME NEW key \in Keys, NEW large \in BOOLEAN, Call(t, key, large)
      PROVE  LockKept' /\ lock' \in Threads \cup {None}
  <2>1. lock = None /\ thread[t].at = "out"
    BY <1>3 DEF Call, Idle
  <2>2. \A u \in Threads \ {t} : thread'[u] = thread[u]
    BY <1>1, <1>3 DEF Call
  <2>3. \/ UNCHANGED lock /\ thread'[t].at = "out"
        \/ UNCHANGED lock /\ thread'[t].at = "type3"
        \/ lock' = t /\ thread'[t].at = "render"
    <3> DEFINE f == key[1]
               val == IF large THEN None ELSE cache.glyph[key]
               hit == [thread[t] EXCEPT !.val = val, !.asked = font[f].id]
               miss == [thread[t] EXCEPT !.key = key, !.keep = ~large,
                          !.asked = font[f].id,
                          !.at = IF font[f].type3 THEN "type3" ELSE "render"]
    <3>1. hit.at = "out" /\ miss.at = IF font[f].type3 THEN "type3" ELSE "render"
      <4>1. DOMAIN thread[t] = {"ctx", "uses", "at", "key", "keep", "val", "asked"}
        BY <1>1 DEF ThreadType
      <4> QED
        BY <2>1, <4>1
    <3>2. \/ thread' = [thread EXCEPT ![t] = hit] /\ UNCHANGED lock
          \/ /\ thread' = [thread EXCEPT ![t] = miss]
             /\ lock' = IF font[f].type3 THEN lock ELSE t
      BY <1>3 DEF Call
    <3> HIDE DEF hit, miss
    <3> QED
      BY <1>1, <3>1, <3>2
  <2> QED
    BY <1>1, <2>1, <2>2, <2>3, LockStep DEF InLock
<1>4. CASE Render(t)
  <2>1. thread[t].at \in {"render", "type3"}
    BY <1>4 DEF Render
  <2> DEFINE at == IF thread[t].at = "type3" THEN "lock" ELSE "cache"
  <2>2. ASSUME NEW v \in Pixmaps \cup {None}, At(t, at, v), UNCHANGED lock
        PROVE  LockKept' /\ lock' \in Threads \cup {None}
    <3>1. thread'[t].at = at /\ \A u \in Threads \ {t} : thread'[u] = thread[u]
      BY <1>1, <2>2, AtSets
    <3> QED
      BY <1>1, <2>1, <2>2, <3>1, LockStep DEF InLock
  <2>3. CASE RenderThrows(t)
    BY <1>2, <2>3 DEF RenderThrows
  <2> QED
    BY <1>4, <2>2, <2>3 DEF Render
<1>5. CASE Lock(t)
  <2>1. thread'[t].at = "cache" /\ \A u \in Threads \ {t} : thread'[u] = thread[u]
    BY <1>1, <1>5 DEF Lock, ThreadType
  <2> QED
    BY <1>1, <1>5, <2>1, LockStep DEF Lock, InLock
<1>6. CASE Cache(t)
  <2>1. /\ \E v \in Pixmaps \cup {None} : Back(t, v)
        /\ lock' = Unlock(t)
    <3>1. Good(cache, font, pixmap, thread)' /\ thread'[t].val \in Pixmaps \cup {None}
      BY <1>6, CacheGood DEF Good, Typed, ThreadType
    <3>2. (\E v : Back(t, v)) /\ lock' = Unlock(t)
      BY <1>6 DEF Cache
    <3>3. PICK v : Back(t, v)
      BY <3>2
    <3>4. DOMAIN thread[t] = {"ctx", "uses", "at", "key", "keep", "val", "asked"}
      BY <1>1 DEF ThreadType
    <3>5. thread'[t].val = v
      BY <1>1, <3>3, <3>4 DEF Back
    <3> QED
      BY <3>1, <3>2, <3>3, <3>5
  <2> QED
    BY <1>2, <2>1
<1>7. CASE Return(t)
  BY <1>1, <1>2, <1>7 DEF Return
<1> QED
  BY <1>3, <1>4, <1>5, <1>6, <1>7 DEF Inside

-----------------------------------------------------------------------------
(* The theorems                                                            *)

LEMMA InitGood == Init => IInv
<1> SUFFICES ASSUME Init
             PROVE  IInv
  OBVIOUS
<1>1. Cardinality(Threads) \in Nat /\ 0 \in Ids
  BY CacheAssumption, FS_CardinalityType DEF Ids
<1>2. NoGlyphs \in [Keys -> Pixmaps \cup {None}]
  BY DEF NoGlyphs
<1>3. Typed(cache, font, pixmap, thread)
  BY <1>1, <1>2 DEF Init, Typed, CacheType, FontType, PixmapType, ThreadType
<1>4. Counted(cache, font, pixmap, thread)
  <2>1. ASSUME NEW x \in Pixmaps
        PROVE  Holding(thread, x) = {} /\ pixmap[x].refs = 0
    BY CacheAssumption DEF Init, Holding
  <2>2. ASSUME NEW x \in Fonts
        PROVE  Using(thread, x) = {} /\ font[x].refs = 0
    BY DEF Init, Using
  <2>3. cache.glyph = NoGlyphs
    BY DEF Init
  <2>4. \A x \in Pixmaps : Covers(pixmap[x].refs,
          Cardinality(Cached(cache, x)) + Cardinality(Holding(thread, x)))
    BY <2>1, <2>3, NoneCached, FS_EmptySet DEF Covers
  <2>5. \A x \in Fonts : font[x].refs =
          Cardinality(CachedOf(cache, x)) + Cardinality(Using(thread, x))
    BY <2>2, <2>3, NoneCached, FS_EmptySet
  <2> QED
    BY <2>4, <2>5 DEF Counted
<1>5. Same(cache, font, pixmap, thread) /\ Rendering(font, thread)
  BY DEF Init, NoGlyphs, Same, Rendering
<1>6. LockKept /\ lock \in Threads \cup {None}
  BY CacheAssumption DEF Init, LockKept
<1> QED
  BY <1>3, <1>4, <1>5, <1>6 DEF IInv, Good

\* Every action preserves the invariant.
LEMMA NextGood == IInv /\ [Next]_vars => IInv'
<1> SUFFICES ASSUME IInv, [Next]_vars
             PROVE  IInv'
  OBVIOUS
<1>1. LockKept /\ lock \in Threads \cup {None} /\ thread \in [Threads -> ThreadType]
  BY DEF IInv, Good, Typed
<1>2. ASSUME UNCHANGED lock, \A u \in Threads : thread'[u].at = thread[u].at
      PROVE  LockKept' /\ lock' \in Threads \cup {None}
  BY <1>1, <1>2 DEF LockKept
<1>3. ASSUME NEW t \in Threads, NEW f \in Fonts, NEW type3 \in Type3, NewFont(t, f, type3)
      PROVE  IInv'
  BY <1>1, <1>2, <1>3, NewFontGood DEF NewFont, IInv, ThreadType
<1>4. ASSUME NEW t \in Threads, NEW f \in Fonts, KeepFont(t, f)
      PROVE  IInv'
  BY <1>1, <1>2, <1>4, KeepFontGood DEF KeepFont, IInv, ThreadType
<1>5. ASSUME NEW t \in Threads, NEW f \in Fonts, DropFont(t, f)
      PROVE  IInv'
  BY <1>1, <1>2, <1>5, DropFontGood DEF DropFont, IInv, ThreadType
<1>6. ASSUME NEW t \in Threads, DropPixmap(t)
      PROVE  IInv'
  BY <1>1, <1>2, <1>6, DropPixmapGood DEF DropPixmap, IInv, ThreadType
<1>7. ASSUME NEW t \in Threads, NEW key \in Keys, NEW large \in BOOLEAN,
             Call(t, key, large)
      PROVE  IInv'
  <2>1. LockKept' /\ lock' \in Threads \cup {None}
    BY <1>7, LockSteps
  <2> QED
    BY <1>7, <2>1, CallGood DEF IInv
<1>8. ASSUME NEW t \in Threads, Inside(t)
      PROVE  IInv'
  <2>1. LockKept' /\ lock' \in Threads \cup {None}
    BY <1>8, LockSteps
  <2>2. Good(cache, font, pixmap, thread)'
    BY <1>8, RenderGood, LockGood, CacheGood, ReturnGood DEF Inside
  <2> QED
    BY <2>1, <2>2 DEF IInv
<1>9. ASSUME NEW t \in Threads, Purge(t)
      PROVE  IInv'
  <2>1. Good(cache', font', pixmap', thread)
    BY <1>9, EvictGood DEF Purge, IInv
  <2> QED
    BY <1>1, <1>2, <1>9, <2>1 DEF Purge, IInv
<1>10. ASSUME NEW t \in Threads, DropContext(t)
       PROVE  IInv'
  BY <1>1, <1>2, <1>10, DropContextGood DEF DropContext, IInv, ThreadType
<1>11. CASE UNCHANGED vars
  BY <1>11 DEF vars, IInv, LockKept, Good, Typed, Counted, Same, Rendering,
               Cached, CachedOf, Holding, Using
<1> QED
  BY <1>3, <1>4, <1>5, <1>6, <1>7, <1>8, <1>9, <1>10, <1>11 DEF Next

\* The invariant holds of any number of threads, fonts, glyphs and pixmaps.
THEOREM Inductive == Spec => []IInv
  BY InitGood, NextGood, PTL DEF Spec

\* A font that is made where another one was freed never gets its glyphs.
THEOREM GlyphsOfSameFont == Spec => []SameFont
<1>1. IInv => SameFont
  <2> SUFFICES ASSUME IInv
               PROVE  SameFont
    OBVIOUS
  <2>1. Good(cache, font, pixmap, thread) /\ Typed(cache, font, pixmap, thread)
    BY DEF IInv, Good
  <2>2. ASSUME NEW k \in Keys, cache.glyph[k] # None
        PROVE  font[k[1]].refs > 0
    <3>1. k[1] \in Fonts /\ font[k[1]].refs # 0
      BY <2>1, <2>2, Free DEF Keys
    <3>2. font[k[1]].refs =
            Cardinality(CachedOf(cache, k[1])) + Cardinality(Using(thread, k[1]))
      BY <2>1, <3>1 DEF Good, Counted
    <3> QED
      BY <3>1, <3>2, CountsNat
  <2> QED
    BY <2>1, <2>2 DEF Good, Same, SameFont
<1> QED
  BY <1>1, Inductive, PTL

\* Every reference is counted, if val survives the longjmp past fz_hash_insert.
THEOREM CountsHold == ValKept => (Spec => []CountsExact)
<1> SUFFICES ASSUME ValKept
             PROVE  Spec => []CountsExact
  OBVIOUS
<1>1. IInv => CountsExact
  BY DEF IInv, Good, Counted, Covers, CountsExact, Cached, CachedOf, Holding, Using, Entries
<1> QED
  BY <1>1, Inductive, PTL

\* The lock is the thread's that renders for FreeType or caches.
THEOREM LockHeld == Spec => []LockKept
<1>1. IInv => LockKept
  BY DEF IInv
<1> QED
  BY <1>1, Inductive, PTL

-----------------------------------------------------------------------------
(* The total of the cache                                                  *)

\* total is exact, and no pixmap that is cached is too large for it.
Exact(c, p) ==
  /\ c.total = Cardinality(Pixels(c, p)) /\ c.total <= MaxCache
  /\ \A k \in Keys : c.glyph[k] # None => p[c.glyph[k]].size <= MaxCache

TotalInv == IInv /\ Exact(cache, pixmap)

\* The pixels of a cache of small pixmaps are finitely many.
LEMMA PixelsFinite ==
  ASSUME NEW c, NEW p,
         \A k \in Keys : c.glyph[k] # None =>
           p[c.glyph[k]].size \in Nat /\ p[c.glyph[k]].size <= MaxCache
  PROVE  IsFiniteSet(Pixels(c, p))
<1>1. IsFiniteSet(1..MaxCache)
  BY CacheAssumption, FS_Interval
<1>2. IsFiniteSet(Keys \X (1..MaxCache))
  BY <1>1, KeysFinite, FS_Product
<1>3. Pixels(c, p) \in SUBSET (Keys \X (1..MaxCache))
  <2>1. ASSUME NEW k \in Keys, c.glyph[k] # None
        PROVE  1..p[c.glyph[k]].size \subseteq 1..MaxCache
    BY <2>1, CacheAssumption
  <2> QED
    BY <2>1 DEF Pixels
<1> QED
  BY <1>2, <1>3, FS_Subset

LEMMA UnitsOf ==
  ASSUME NEW k, NEW n \in Nat
  PROVE  IsFiniteSet({k} \X (1..n)) /\ Cardinality({k} \X (1..n)) = n
<1>1. IsFiniteSet(1..n) /\ Cardinality(1..n) = IF 1 > n THEN 0 ELSE n - 1 + 1
  BY FS_Interval
<1>2. Cardinality(1..n) = n
  BY <1>1
<1>3. IsFiniteSet({k}) /\ Cardinality({k}) = 1
  BY FS_Singleton
<1>4. IsFiniteSet({k} \X (1..n)) /\ Cardinality({k} \X (1..n)) = 1 * n
  BY <1>1, <1>2, <1>3, FS_Product
<1> QED
  BY <1>4

\* Two unions of sets, of which one has a set more.
LEMMA UnionMore ==
  ASSUME NEW H, NEW k, NEW f, NEW g, NEW new,
         DOMAIN f = H, DOMAIN g = H \cup {k},
         \A l \in H : g[l] = f[l], g[k] = new
  PROVE  UNION {g[l] : l \in H \cup {k}} = (UNION {f[l] : l \in H}) \cup new
<1> DEFINE A == UNION {g[l] : l \in H \cup {k}}
           B == UNION {f[l] : l \in H}
<1>1. \A y : y \in A <=> \E l \in H \cup {k} : y \in g[l]
  OBVIOUS
<1>2. \A y : y \in B <=> \E l \in H : y \in f[l]
  OBVIOUS
<1> HIDE DEF A, B
<1>3. \A y : y \in A <=> y \in B \cup new
  <2> SUFFICES ASSUME NEW y PROVE y \in A <=> y \in B \/ y \in new
    OBVIOUS
  <2>1. (\E l \in H \cup {k} : y \in g[l]) <=> (\E l \in H : y \in g[l]) \/ y \in g[k]
    OBVIOUS
  <2>2. (\E l \in H : y \in g[l]) <=> \E l \in H : y \in f[l]
    OBVIOUS
  <2> QED
    BY <1>1, <1>2, <2>1, <2>2
<1>4. A = B \cup new
  BY <1>3
<1> QED
  BY <1>4 DEF A, B


\* What is cached, and its sizes, is as before.
LEMMA ExactKept ==
  ASSUME NEW c, NEW d, NEW p, NEW q, Exact(c, p),
         d.glyph = c.glyph, d.total = c.total,
         \A k \in Keys : c.glyph[k] # None => q[c.glyph[k]].size = p[c.glyph[k]].size
  PROVE  Exact(d, q)
<1>1. Pixels(d, q) = Pixels(c, p)
  BY DEF Pixels
<1> QED
  BY <1>1 DEF Exact

\* An empty cache has no pixels.
LEMMA ExactEmpty ==
  ASSUME NEW c, NEW p, c.glyph = NoGlyphs, c.total = 0
  PROVE  Exact(c, p)
<1>1. \A k \in Keys : c.glyph[k] = None
  BY DEF NoGlyphs
<1>2. Pixels(c, p) = {}
  BY <1>1 DEF Pixels
<1> QED
  BY <1>1, <1>2, CacheAssumption, FS_EmptySet DEF Exact

\* A glyph is cached, for which there is room.
LEMMA ExactMore ==
  ASSUME NEW c \in CacheType, NEW d, NEW p \in [Pixmaps -> PixmapType], NEW q,
         Exact(c, p), NEW k \in Keys, NEW v \in Pixmaps,
         c.glyph[k] = None, d.glyph[k] = v, \A l \in Keys \ {k} : d.glyph[l] = c.glyph[l],
         \A x \in Pixmaps : q[x].size = p[x].size,
         d.total = c.total + p[v].size, d.total <= MaxCache, p[v].size <= MaxCache
  PROVE  Exact(d, q)
<1> DEFINE new == {k} \X (1..p[v].size)
<1>1. p[v].size \in Nat /\ v # None /\ \A l \in Keys : c.glyph[l] \in Pixmaps \cup {None}
  BY CacheAssumption DEF PixmapType, CacheType
<1>2. \A l \in Keys : d.glyph[l] # None => q[d.glyph[l]].size <= MaxCache
  BY <1>1 DEF Exact
<1>3. IsFiniteSet(Pixels(c, p)) /\ Cardinality(Pixels(c, p)) = c.total
  <2>1. \A l \in Keys : c.glyph[l] # None =>
          p[c.glyph[l]].size \in Nat /\ p[c.glyph[l]].size <= MaxCache
    BY <1>1 DEF Exact, PixmapType
  <2> QED
    BY <2>1, PixelsFinite DEF Exact
<1>4. IsFiniteSet(new) /\ Cardinality(new) = p[v].size
  <2>1. p[v].size \in Nat
    BY <1>1
  <2> QED
    BY <2>1, UnitsOf
<1>5. Pixels(d, q) = Pixels(c, p) \cup new
  <2> DEFINE had == {l \in Keys : c.glyph[l] # None}
             has == {l \in Keys : d.glyph[l] # None}
             Of(l) == {l} \X (1..p[c.glyph[l]].size)
             Are(l) == {l} \X (1..q[d.glyph[l]].size)
             f == [l \in had |-> Of(l)]
             g == [l \in has |-> Are(l)]
  <2>1. has = had \cup {k} /\ k \notin had
    BY <1>1
  <2>2. Are(k) = new
    BY <1>1
  <2>3. \A l \in had : Are(l) = Of(l)
    BY <1>1
  <2>4. Pixels(c, p) = UNION {Of(l) : l \in had} /\ Pixels(d, q) = UNION {Are(l) : l \in has}
    BY DEF Pixels
  <2> HIDE DEF had, has, Of, Are, new
  <2>5. /\ UNION {Of(l) : l \in had} = UNION {f[l] : l \in had}
        /\ UNION {Are(l) : l \in has} = UNION {g[l] : l \in has}
    OBVIOUS
  <2>6. /\ DOMAIN f = had /\ DOMAIN g = had \cup {k}
        /\ g[k] = new /\ \A l \in had : g[l] = f[l]
    BY <2>1, <2>2, <2>3
  <2> HIDE DEF f, g
  <2>7. UNION {g[l] : l \in had \cup {k}} = (UNION {f[l] : l \in had}) \cup new
    BY <2>6, UnionMore
  <2> QED
    BY <2>1, <2>4, <2>5, <2>7
<1>6. Pixels(c, p) \cap new = {}
  <2>1. \A y \in Pixels(c, p) : y[1] # k
    BY DEF Pixels
  <2>2. \A y \in new : y[1] = k
    OBVIOUS
  <2> QED
    BY <2>1, <2>2
<1>7. Cardinality(Pixels(d, q)) = c.total + p[v].size
  <2> HIDE DEF new
  <2>1. Cardinality(Pixels(c, p) \cup new) =
          Cardinality(Pixels(c, p)) + Cardinality(new) - Cardinality(Pixels(c, p) \cap new)
    BY <1>3, <1>4, FS_Union
  <2>2. Cardinality(Pixels(c, p) \cap new) = 0
    BY <1>6, FS_EmptySet
  <2>3. c.total \in Int /\ p[v].size \in Int
    BY <1>1 DEF CacheType
  <2> QED
    BY <1>3, <1>4, <1>5, <2>1, <2>2, <2>3
<1> QED
  BY <1>2, <1>7 DEF Exact

\* What becomes of the cache when it is evicted.
LEMMA ExactEvicted ==
  ASSUME NEW c \in CacheType, NEW p
  PROVE  Exact(Evict(c), p) /\ Exact([Evict(c) EXCEPT !.refs = 0], p)
<1> DEFINE d == Evict(c)
<1>1. d.glyph = NoGlyphs /\ d.total = 0
  BY DEF CacheType, Evict
<1>2. [d EXCEPT !.refs = 0].glyph = NoGlyphs /\ [d EXCEPT !.refs = 0].total = 0
  <2>1. d \in CacheType
    BY EvictType
  <2> HIDE DEF d
  <2> QED
    BY <1>1, <2>1 DEF CacheType
<1> QED
  BY <1>1, <1>2, ExactEmpty

\* References come and go, sizes stay.
LEMMA SizesKept ==
  ASSUME pixmap \in [Pixmaps -> PixmapType]
  PROVE  /\ \A x, y \in Pixmaps :
              [pixmap EXCEPT ![x].refs = @ + 1][y].size = pixmap[y].size
         /\ \A x, y \in Pixmaps :
              [pixmap EXCEPT ![x].refs = @ - 1][y].size = pixmap[y].size
  BY DEF PixmapType

\* Rendering is to a pixmap that is not cached.
LEMMA RenderExact ==
  ASSUME TotalInv, NEW t \in Threads, Render(t)
  PROVE  Exact(cache, pixmap)'
<1>1. /\ Good(cache, font, pixmap, thread) /\ Exact(cache, pixmap) /\ cache' = cache
      /\ pixmap \in [Pixmaps -> PixmapType]
  BY DEF TotalInv, IInv, Good, Typed, Render
<1>2. CASE pixmap' = pixmap
  BY <1>1, <1>2
<1>3. CASE pixmap' # pixmap
  <2>1. PICK p \in Pixmaps, size \in Sizes :
          /\ pixmap[p].refs = 0
          /\ pixmap' = [pixmap EXCEPT ![p] = [refs |-> 1, size |-> size,
                                              id |-> font[thread[t].key[1]].id]]
    BY <1>3 DEF Render, RenderThrows
  <2>2. \A k \in Keys : cache.glyph[k] # p
    BY <1>1, <2>1, Free
  <2>3. \A k \in Keys : pixmap'[cache.glyph[k]].size = pixmap[cache.glyph[k]].size \/ cache.glyph[k] = None
    <3>1. \A k \in Keys : cache.glyph[k] \in Pixmaps \cup {None}
      BY <1>1 DEF Good, Typed, CacheType
    <3> QED
      BY <1>1, <2>1, <2>2, <3>1
  <2> QED
    BY <1>1, <2>3, ExactKept
<1> QED
  BY <1>2, <1>3

\* With or without eviction there is room for what is inserted.
LEMMA CacheExact ==
  ASSUME TotalInv, NEW t \in Threads, Cache(t)
  PROVE  Exact(cache, pixmap)'
<1> DEFINE key == thread[t].key
           val == thread[t].val
           full == Full(pixmap[val].size)
           c == IF full THEN Evict(cache) ELSE cache
           fonts == IF full THEN FontsEvicted(cache) ELSE font
           pixmaps == IF full THEN PixmapsEvicted(cache) ELSE pixmap
           pix == c.glyph[key]
<1>1. /\ Good(cache, font, pixmap, thread) /\ Exact(cache, pixmap)
      /\ Typed(cache, font, pixmap, thread) /\ thread[t].at = "cache"
      /\ thread \in [Threads -> ThreadType] /\ cache \in CacheType
      /\ pixmap \in [Pixmaps -> PixmapType]
  BY DEF TotalInv, IInv, Good, Typed, Cache
<1>2. key \in Keys /\ val \in Pixmaps /\ pixmap[val].size <= MaxCache
  BY <1>1 DEF Good, Rendering, Cache, Cacheable, Typed, ThreadType, Keys
<1>3. pixmap[val].size \in Nat /\ cache.total \in Int
  BY <1>1, <1>2 DEF PixmapType, CacheType
<1>4. pixmaps \in [Pixmaps -> PixmapType] /\ \A x \in Pixmaps : pixmaps[x].size = pixmap[x].size
  <2>1. \A x \in Pixmaps : Cardinality(Cached(cache, x)) \in Int
    BY CountsNat
  <2>2. PixmapsEvicted(cache) =
          [x \in Pixmaps |-> [pixmap[x] EXCEPT !.refs = @ - Cardinality(Cached(cache, x))]]
    BY DEF PixmapsEvicted, Cached
  <2> HIDE DEF full
  <2> QED
    BY <1>1, <2>1, <2>2 DEF PixmapType
<1>5. /\ c \in CacheType /\ Exact(c, pixmaps) /\ c.total + pixmap[val].size <= MaxCache
  <2>1. CASE full
    <3>1. c = Evict(cache) /\ c \in CacheType /\ Exact(c, pixmaps)
      BY <1>1, <2>1, EvictType, ExactEvicted
    <3>2. c.total = 0
      BY <1>1, <3>1 DEF CacheType, Evict
    <3> QED
      BY <1>2, <1>3, <3>1, <3>2
  <2>2. CASE ~full
    <3>1. c = cache /\ pixmaps = pixmap /\ ~(cache.total + pixmap[val].size > MaxCache)
      BY <2>2 DEF Full
    <3> QED
      BY <1>1, <1>2, <1>3, <3>1, CacheAssumption
  <2> QED
    BY <2>1, <2>2
<1>6. \/ /\ pix # None /\ cache' = c
         /\ pixmap' = [Abandoned(pixmaps, val) EXCEPT ![pix].refs = @ + 1]
      \/ /\ pix = None
         /\ pixmap' = [pixmaps EXCEPT ![val].refs = @ + 1]
         /\ cache' = [c EXCEPT !.glyph[key] = val, !.total = @ + pixmap[val].size]
      \/ pixmap' = pixmaps /\ cache' = c
  BY DEF Cache
<1> HIDE DEF key, val, full, c, fonts, pixmaps
<1>7. \A k \in Keys : c.glyph[k] \in Pixmaps \cup {None}
  BY <1>5 DEF CacheType
<1>8. CASE /\ pix # None /\ cache' = c
           /\ pixmap' = [Abandoned(pixmaps, val) EXCEPT ![pix].refs = @ + 1]
  <2>1. \A x \in Pixmaps : pixmap'[x].size = pixmaps[x].size
    <3> DEFINE p == Abandoned(pixmaps, val)
    <3>1. p \in [Pixmaps -> PixmapType] /\ \A x \in Pixmaps : p[x].size = pixmaps[x].size
      BY <1>2, <1>4 DEF Abandoned, PixmapType
    <3> HIDE DEF p
    <3>2. pixmap' = [p EXCEPT ![pix].refs = @ + 1]
      BY <1>8 DEF p
    <3> QED
      BY <1>2, <1>7, <1>8, <3>1, <3>2 DEF PixmapType
  <2>2. \A k \in Keys : c.glyph[k] # None =>
          pixmap'[c.glyph[k]].size = pixmaps[c.glyph[k]].size
    BY <1>7, <2>1
  <2>3. cache'.glyph = c.glyph /\ cache'.total = c.total
    BY <1>8
  <2>4. Exact(c, pixmaps)
    BY <1>5
  <2>5. Exact(cache', pixmap')
    BY <2>2, <2>3, <2>4, ExactKept
  <2> QED
    BY <2>5
<1>9. CASE /\ pix = None
           /\ pixmap' = [pixmaps EXCEPT ![val].refs = @ + 1]
           /\ cache' = [c EXCEPT !.glyph[key] = val, !.total = @ + pixmap[val].size]
  <2>1. \A x \in Pixmaps : pixmap'[x].size = pixmaps[x].size
    BY <1>2, <1>4, <1>9 DEF PixmapType
  <2> DEFINE e == [c EXCEPT !.glyph[key] = val]
  <2>2. /\ e \in CacheType /\ e.glyph[key] = val /\ e.total = c.total
        /\ \A k \in Keys \ {key} : e.glyph[k] = c.glyph[k]
    BY <1>2, <1>5 DEF CacheType
  <2>3. cache' = [e EXCEPT !.total = @ + pixmap[val].size]
    BY <1>9
  <2> HIDE DEF e
  <2>4. cache'.glyph = e.glyph /\ cache'.total = c.total + pixmap[val].size
    BY <2>2, <2>3 DEF CacheType
  <2>5. /\ pixmaps \in [Pixmaps -> PixmapType] /\ pixmaps[val].size = pixmap[val].size
        /\ key \in Keys /\ val \in Pixmaps /\ c.glyph[key] = None
    BY <1>2, <1>4, <1>5, <1>9
  <2>6. /\ cache'.glyph[key] = val
        /\ \A k \in Keys \ {key} : cache'.glyph[k] = c.glyph[k]
        /\ cache'.total = c.total + pixmaps[val].size
        /\ cache'.total <= MaxCache /\ pixmaps[val].size <= MaxCache
    BY <1>2, <1>5, <2>2, <2>4, <2>5
  <2>7. Exact(cache', pixmap')
    BY <1>5, <2>1, <2>5, <2>6, ExactMore
  <2> QED
    BY <2>7
<1> QED
  BY <1>4, <1>5, <1>6, <1>8, <1>9

\* Every step keeps the total exact.
LEMMA NextExact == TotalInv /\ [Next]_vars => TotalInv'
<1> SUFFICES ASSUME TotalInv, [Next]_vars
             PROVE  Exact(cache, pixmap)'
  BY NextGood DEF TotalInv
<1>1. /\ Exact(cache, pixmap) /\ cache \in CacheType
      /\ pixmap \in [Pixmaps -> PixmapType] /\ thread \in [Threads -> ThreadType]
      /\ \A k \in Keys : cache.glyph[k] \in Pixmaps \cup {None}
  BY DEF TotalInv, IInv, Good, Typed, CacheType
<1>2. ASSUME cache' = cache,
             \A x \in Pixmaps : pixmap'[x].size = pixmap[x].size
      PROVE  Exact(cache, pixmap)'
  BY <1>1, <1>2, ExactKept
<1>3. ASSUME NEW t \in Threads,
             \/ \E f \in Fonts, type3 \in Type3 : NewFont(t, f, type3)
             \/ \E f \in Fonts : KeepFont(t, f) \/ DropFont(t, f)
             \/ Lock(t) \/ Return(t) \/ UNCHANGED vars
      PROVE  Exact(cache, pixmap)'
  BY <1>2, <1>3, Zenon DEF NewFont, KeepFont, DropFont, Lock, Return, vars
<1>4. ASSUME NEW t \in Threads, DropPixmap(t)
      PROVE  Exact(cache, pixmap)'
  <2>1. thread[t].val \in Pixmaps
    BY <1>1, <1>4 DEF DropPixmap, ThreadType
  <2> QED
    BY <1>1, <1>2, <1>4, <2>1, SizesKept DEF DropPixmap
<1>5. ASSUME NEW t \in Threads, NEW key \in Keys, NEW large \in BOOLEAN,
             Call(t, key, large)
      PROVE  Exact(cache, pixmap)'
  <2>1. \/ \E x \in Pixmaps : pixmap' = [pixmap EXCEPT ![x].refs = @ + 1]
        \/ UNCHANGED pixmap
    BY <1>1, <1>5 DEF Call
  <2>2. cache' = cache
    BY <1>5 DEF Call
  <2>3. \A x \in Pixmaps : pixmap'[x].size = pixmap[x].size
    BY <1>1, <2>1, SizesKept
  <2> QED
    BY <1>2, <2>2, <2>3
<1>6. ASSUME NEW t \in Threads, Purge(t)
      PROVE  Exact(cache, pixmap)'
  BY <1>1, <1>6, ExactEvicted DEF Purge
<1>7. ASSUME NEW t \in Threads, DropContext(t)
      PROVE  Exact(cache, pixmap)'
  <2>1. CASE cache.refs > 1
    <3>1. /\ cache'.glyph = cache.glyph /\ cache'.total = cache.total
          /\ pixmap' = pixmap
      BY <1>1, <1>7, <2>1 DEF DropContext, Dropped, CacheType
    <3> QED
      BY <1>1, <3>1, ExactKept
  <2>2. CASE ~(cache.refs > 1)
    BY <1>1, <1>7, <2>2, ExactEvicted DEF DropContext, Dropped
  <2> QED
    BY <2>1, <2>2
<1>8. ASSUME NEW t \in Threads, Inside(t)
      PROVE  Exact(cache, pixmap)'
  BY <1>3, <1>8, RenderExact, CacheExact DEF Inside
<1>9. CASE UNCHANGED vars
  BY <1>2, <1>9 DEF vars
<1> QED
  BY <1>3, <1>4, <1>5, <1>6, <1>7, <1>8, <1>9 DEF Next

\* total is how many pixels are cached, and within bounds, whoever evicts the
\* cache or caches the same glyph meanwhile.
THEOREM TotalHolds == Spec => []TotalExact
<1>1. Init => TotalInv
  <2>1. Init => Exact(cache, pixmap)
    BY ExactEmpty DEF Init
  <2> QED
    BY <2>1, InitGood DEF TotalInv
<1>2. TotalInv => TotalExact
  BY DEF TotalInv, Exact, TotalExact
<1> QED
  BY <1>1, <1>2, NextExact, PTL DEF Spec
=============================================================================
