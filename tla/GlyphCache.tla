----------------------------- MODULE GlyphCache -----------------------------
(***************************************************************************)
(* The cache of rendered glyphs that the contexts of all threads share     *)
(* (source/fitz/draw-glyph.c).  It is a hash table from keys, of which the *)
(* address of the font is a part, to pixmaps, under FZ_LOCK_GLYPHCACHE,    *)
(* which a thread gives up while it runs the procedure of a type 3 glyph.  *)
(* The hash table is the map that HashTable implements.                    *)
(***************************************************************************)
EXTENDS Integers, FiniteSets, FiniteSetsExt

(* A definition marked Slip is used nowhere: it is the definition that      *)
(* follows as a mistake in the code would have it.                         *)

CONSTANTS
  Threads,
  Fonts,     \* the addresses of fonts
  Glyphs,    \* what else a key is made of
  Pixmaps,   \* the addresses of pixmaps
  Sizes,     \* w * h of a pixmap; one larger than MaxCache is not cached
  MaxCache,  \* MAX_CACHE_SIZE
  Type3,     \* BOOLEAN, or the kinds of fonts there are
  MayThrow,  \* may rendering and fz_hash_insert throw?
  ValKept,   \* does val, which fz_var does not name, survive a longjmp?
  MaxFonts,  \* a bound on the fonts that are ever made
  None

ASSUME CacheAssumption ==
  /\ IsFiniteSet(Threads) /\ IsFiniteSet(Pixmaps)
  /\ IsFiniteSet(Fonts) /\ IsFiniteSet(Glyphs)
  /\ Sizes \subseteq Nat \ {0} /\ MaxCache \in Nat /\ MaxFonts \in Nat
  /\ Type3 \subseteq BOOLEAN /\ MayThrow \in BOOLEAN /\ ValKept \in BOOLEAN
  /\ None \notin Threads \cup Pixmaps

VARIABLES
  cache,  \* the fz_glyph_cache: refs, total, and glyph, the hash table
  lock,   \* the thread that has FZ_LOCK_GLYPHCACHE
  font,   \* of an address: refs, kind, and id, which font there it is
  pixmap, \* of an address: refs, size, and id, the font it was rendered from
  thread  \* each thread: ctx, whether its context is there; uses, the fonts it
          \* keeps; at, where in fz_render_glyph it is; key, keep (do_cache),
          \* and val, which is the caller's once it is out; asked, which font
          \* the glyph was asked for of
vars == <<cache, lock, font, pixmap, thread>>

Keys == Fonts \X Glyphs
NoGlyphs == [k \in Keys |-> None]

Init ==
  /\ cache = [refs |-> Cardinality(Threads), total |-> 0, glyph |-> NoGlyphs]
  /\ lock = None
  /\ font = [f \in Fonts |-> [refs |-> 0, type3 |-> FALSE, id |-> 0]]
  /\ pixmap = [p \in Pixmaps |-> [refs |-> 0, size |-> 0, id |-> 0]]
  /\ thread = [t \in Threads |->
       [ctx |-> TRUE, uses |-> {}, at |-> "out", key |-> None, keep |-> FALSE,
        val |-> None, asked |-> 0]]

-----------------------------------------------------------------------------
(* Fonts and pixmaps, which have counts of their own                       *)

Idle(t) == thread[t].ctx /\ thread[t].at = "out"
LastId == Max({font[f].id : f \in Fonts})

\* fz_new_font: a new font may be where one was that is freed.
NewFont(t, f, type3) ==
  /\ Idle(t) /\ font[f].refs = 0 /\ LastId < MaxFonts
  /\ font' = [font EXCEPT ![f] = [refs |-> 1, type3 |-> type3, id |-> LastId + 1]]
  /\ thread' = [thread EXCEPT ![t].uses = @ \cup {f}]
  /\ UNCHANGED <<cache, lock, pixmap>>

\* fz_keep_font, of a font that another thread uses
KeepFont(t, f) ==
  /\ Idle(t) /\ f \notin thread[t].uses
  /\ \E u \in Threads : f \in thread[u].uses
  /\ font' = [font EXCEPT ![f].refs = @ + 1]
  /\ thread' = [thread EXCEPT ![t].uses = @ \cup {f}]
  /\ UNCHANGED <<cache, lock, pixmap>>

DropFont(t, f) ==
  /\ Idle(t) /\ f \in thread[t].uses
  /\ font' = [font EXCEPT ![f].refs = @ - 1]
  /\ thread' = [thread EXCEPT ![t].uses = @ \ {f}]
  /\ UNCHANGED <<cache, lock, pixmap>>

\* fz_drop_pixmap, by the caller of fz_render_glyph
DropPixmap(t) ==
  /\ Idle(t) /\ thread[t].val # None
  /\ pixmap' = [pixmap EXCEPT ![thread[t].val].refs = @ - 1]
  /\ thread' = [thread EXCEPT ![t].val = None, ![t].asked = 0]
  /\ UNCHANGED <<cache, lock, font>>

-----------------------------------------------------------------------------
(* fz_render_glyph                                                         *)

\* thread t goes on to "lock" or "cache", or it is back from fz_render_glyph
At(t, at, v) == thread' = [thread EXCEPT ![t].at = at, ![t].val = v]
Back(t, v) ==
  thread' = [thread EXCEPT ![t].at = "out", ![t].val = v, ![t].key = None,
                           ![t].keep = FALSE,
                           ![t].asked = IF v = None THEN 0 ELSE @]

\* glyphs of a large size are not looked for in vain: no key has that size
Call(t, key, large) ==
  LET f == key[1]
      val == IF large THEN None ELSE cache.glyph[key]
      hit == [thread[t] EXCEPT !.val = val, !.asked = font[f].id]
      miss == [thread[t] EXCEPT !.key = key, !.keep = ~large, !.asked = font[f].id,
                                !.at = IF font[f].type3 THEN "type3" ELSE "render"]
  IN  /\ Idle(t) /\ thread[t].val = None /\ f \in thread[t].uses
      /\ large => font[f].type3
      /\ lock = None
      /\ IF val # None
         THEN /\ pixmap' = [pixmap EXCEPT ![val].refs = @ + 1]
              /\ thread' = [thread EXCEPT ![t] = hit] /\ UNCHANGED lock
         ELSE /\ thread' = [thread EXCEPT ![t] = miss]
              /\ lock' = IF font[f].type3 THEN lock ELSE t
              /\ UNCHANGED pixmap
      /\ UNCHANGED <<cache, font>>

\* Slip: the lock is given back whoever has it.
UnlockAlways(t) == None
\* fz_always: the lock after fz_render_glyph has thrown or returned
Unlock(t) == IF lock = t THEN None ELSE lock

\* Slip: an exception leaves the lock as it is.
RenderThrowsLocked(t) ==
  /\ MayThrow /\ Back(t, None)
  /\ UNCHANGED <<lock, pixmap>>
\* caching is 0: the exception is thrown on
RenderThrows(t) ==
  /\ MayThrow /\ Back(t, None) /\ lock' = Unlock(t)
  /\ UNCHANGED pixmap

\* fz_render_ft_glyph, or fz_render_t3_glyph, which runs without the lock; a
\* glyph may have no pixmap
Render(t) ==
  /\ thread[t].at \in {"render", "type3"}
  /\ \/ \E p \in Pixmaps, size \in Sizes :
          /\ pixmap[p].refs = 0
          /\ pixmap' = [pixmap EXCEPT ![p] = [refs |-> 1, size |-> size,
                                              id |-> font[thread[t].key[1]].id]]
          /\ At(t, IF thread[t].at = "type3" THEN "lock" ELSE "cache", p)
          /\ UNCHANGED lock
     \/ /\ At(t, IF thread[t].at = "type3" THEN "lock" ELSE "cache", None)
        /\ UNCHANGED <<lock, pixmap>>
     \/ RenderThrows(t)
  /\ UNCHANGED <<cache, font>>

Lock(t) ==
  /\ thread[t].at = "lock" /\ lock = None
  /\ lock' = t /\ thread' = [thread EXCEPT ![t].at = "cache"]
  /\ UNCHANGED <<cache, font, pixmap>>

Cacheable(t) ==
  LET v == thread[t].val
  IN  v # None /\ thread[t].keep /\ pixmap[v].size <= MaxCache

\* fz_evict_glyph_cache: what becomes of cache c, fonts and pixmaps
Evict(c) == [c EXCEPT !.glyph = NoGlyphs, !.total = 0]
Entries(c, f) == Cardinality({k \in Keys : k[1] = f /\ c.glyph[k] # None})
FontsEvicted(c) == [f \in Fonts |-> [font[f] EXCEPT !.refs = @ - Entries(c, f)]]
PixmapsEvicted(c) ==
  [p \in Pixmaps |->
     [pixmap[p] EXCEPT !.refs = @ - Cardinality({k \in Keys : c.glyph[k] = p})]]

\* Slip: the key does not keep its font.
FontKeptNot(fonts, f) == fonts
FontKept(fonts, f) == [fonts EXCEPT ![f].refs = @ + 1]
\* Slip: the pixmap that is abandoned is not dropped.
AbandonedNot(pixmaps, p) == pixmaps
Abandoned(pixmaps, p) == [pixmaps EXCEPT ![p].refs = @ - 1]

\* Slip: the cache is evicted when it is full already.
FullLate(size) == cache.total > MaxCache
Full(size) == cache.total + size > MaxCache

\* With the lock: fz_hash_insert returns the pixmap of another thread that was
\* faster, or none; when it throws, the exception is ignored.
Cache(t) ==
  LET key == thread[t].key
      val == thread[t].val
      full == Full(pixmap[val].size)
      c == IF full THEN Evict(cache) ELSE cache
      fonts == IF full THEN FontsEvicted(cache) ELSE font
      pixmaps == IF full THEN PixmapsEvicted(cache) ELSE pixmap
      pix == c.glyph[key]
  IN  /\ thread[t].at = "cache" /\ Cacheable(t)
      /\ \/ /\ pix # None
            /\ pixmap' = [Abandoned(pixmaps, val) EXCEPT ![pix].refs = @ + 1]
            /\ font' = fonts /\ cache' = c
            /\ Back(t, pix)
         \/ /\ pix = None
            /\ pixmap' = [pixmaps EXCEPT ![val].refs = @ + 1]
            /\ font' = FontKept(fonts, key[1])
            /\ cache' = [c EXCEPT !.glyph[key] = val, !.total = @ + pixmap[val].size]
            /\ Back(t, val)
         \/ /\ MayThrow /\ pix = None
            /\ pixmap' = pixmaps /\ font' = fonts /\ cache' = c
            /\ \E v \in IF ValKept THEN {val} ELSE {val, None} : Back(t, v)
      /\ lock' = Unlock(t)

\* what is not for the cache goes to the caller
Return(t) ==
  /\ thread[t].at = "cache" /\ ~Cacheable(t)
  /\ Back(t, thread[t].val) /\ lock' = Unlock(t)
  /\ UNCHANGED <<cache, font, pixmap>>

-----------------------------------------------------------------------------
\* fz_purge_glyph_cache
Purge(t) ==
  /\ Idle(t) /\ lock = None
  /\ cache' = Evict(cache)
  /\ font' = FontsEvicted(cache) /\ pixmap' = PixmapsEvicted(cache)
  /\ UNCHANGED <<lock, thread>>

\* the last context frees the cache
Dropped(t) ==
  IF cache.refs > 1
  THEN cache' = [cache EXCEPT !.refs = @ - 1] /\ UNCHANGED <<font, pixmap>>
  ELSE /\ cache' = [Evict(cache) EXCEPT !.refs = 0]
       /\ font' = FontsEvicted(cache) /\ pixmap' = PixmapsEvicted(cache)
\* fz_drop_glyph_cache_context, when the thread has nothing left to drop
DropContext(t) ==
  /\ Idle(t) /\ thread[t].uses = {} /\ thread[t].val = None
  /\ lock = None
  /\ thread' = [thread EXCEPT ![t].ctx = FALSE]
  /\ Dropped(t)
  /\ UNCHANGED lock

-----------------------------------------------------------------------------
Inside(t) == Render(t) \/ Lock(t) \/ Cache(t) \/ Return(t)
Next ==
  \E t \in Threads :
    \/ \E f \in Fonts, type3 \in Type3 : NewFont(t, f, type3)
    \/ \E f \in Fonts : KeepFont(t, f) \/ DropFont(t, f)
    \/ DropPixmap(t)
    \/ \E key \in Keys, large \in BOOLEAN : Call(t, key, large)
    \/ Inside(t)
    \/ Purge(t) \/ DropContext(t)

Spec == Init /\ [][Next]_vars
\* A thread that is inside of fz_render_glyph goes on.
FairSpec == Spec /\ \A t \in Threads : WF_vars(Inside(t))

-----------------------------------------------------------------------------
(* Properties                                                              *)

\* The counts are exact, and nothing is lost or freed early, whoever renders
\* the same glyph at the same time and whatever throws: the cache and whoever
\* calls fz_render_glyph have a reference to a pixmap each, each key in the
\* cache and whoever uses a font have one to the font.
CountsExact ==
  /\ \A p \in Pixmaps :
       pixmap[p].refs = Cardinality({k \in Keys : cache.glyph[k] = p})
                        + Cardinality({t \in Threads : thread[t].val = p})
  /\ \A f \in Fonts :
       font[f].refs = Entries(cache, f) + Cardinality({t \in Threads : f \in thread[t].uses})

\* A font that is made where another one was freed never gets its glyphs.
SameFont ==
  /\ \A k \in Keys : cache.glyph[k] # None =>
       font[k[1]].refs > 0 /\ pixmap[cache.glyph[k]].id = font[k[1]].id
  /\ \A t \in Threads : thread[t].val # None =>
       pixmap[thread[t].val].id = thread[t].asked

\* The pixels of what is in cache c, if the pixmaps are p
Pixels(c, p) ==
  UNION {{k} \X (1..p[c.glyph[k]].size) : k \in {l \in Keys : c.glyph[l] # None}}

\* total is how many pixels are cached, and within bounds.
TotalExact == cache.total = Cardinality(Pixels(cache, pixmap)) /\ cache.total <= MaxCache

\* The lock is the thread's that renders for FreeType or caches, and no other's.
LockKept ==
  \A t \in Threads : lock = t <=> thread[t].at \in {"render", "cache"}

\* The lock does not stay with a thread, whatever throws.
LockReturns == \A t \in Threads : lock = t ~> lock # t

\* draw-glyph.c:214: "If we throw an exception whilst caching, just ignore the
\* exception and carry on": the pixmap is not lost.
CarriesOn ==
  \A p \in Pixmaps :
    pixmap[p].refs > 0 =>
      \/ \E k \in Keys : cache.glyph[k] = p
      \/ \E t \in Threads : thread[t].val = p
=============================================================================
