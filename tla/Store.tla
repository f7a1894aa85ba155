------------------------------- MODULE Store -------------------------------
(***************************************************************************)
(* The resource store of source/fitz/store.c, shared by every context      *)
(* cloned from one another: an LRU list of items with a hash index, whose  *)
(* values are reference counted together with the references the client    *)
(* threads hold, and the scavenging allocator that evicts from it.         *)
(*                                                                         *)
(* Everything is done under FZ_LOCK_ALLOC, but evict() gives the lock up   *)
(* in the middle to free what it has unlinked.  An action is therefore one *)
(* stretch from taking the lock to giving it up; a thread inside           *)
(* ensure_space, scavenge or fz_empty_store is between two stretches, with *)
(* its local variables in call[t], and any other thread may run.  Freeing  *)
(* touches no shared state, and is the end of the stretch before it.       *)
(***************************************************************************)
EXTENDS Integers, Sequences, FiniteSets, SequencesExt

(* A definition marked Slip is used nowhere: it is the definition that      *)
(* follows as a mistake in the code would have it, and there to check that *)
(* the properties notice.                                                  *)

CONSTANTS
  Thread,      \* threads, each with a context cloned from the same one
  Slot,        \* pointer variables of a thread that can own a reference
  Item,        \* addresses of fz_item structures
  Obj,         \* addresses of reference counted values
  Static,      \* static values, declared with refs = -1 (colorspace.c)
  Key,         \* keys
  Indexed,     \* the keys make_hash_key accepts (indirect objects)
  SizeOf,      \* the itemsize a value is stored with
  StoreMax,    \* store->max, 0 being FZ_STORE_UNLIMITED
  UIntMax,     \* the largest unsigned int
  Request,     \* the sizes asked of the allocator
  Closers,     \* threads that close documents: fz_empty_store
  Removers,    \* threads that take back what they stored: fz_remove_item
  StoreShared, \* may a value be stored that others reference already?
  NoItem, NoVal, NoKey

ASSUME ConstantsAssumption ==
  /\ IsFiniteSet(Thread) /\ IsFiniteSet(Slot) /\ IsFiniteSet(Item)
  /\ Obj \cap Static = {} /\ NoVal \notin Obj \cup Static
  /\ NoItem \notin Item /\ NoKey \notin Key /\ Indexed \subseteq Key
  /\ UIntMax \in Nat /\ StoreMax \in 0..UIntMax
  /\ SizeOf \in [Obj \cup Static -> 0..UIntMax]
  /\ \A v \in Obj : SizeOf[v] > 0
  /\ Request \subseteq 1..UIntMax
  /\ Closers \subseteq Thread /\ Removers \subseteq Thread
  /\ StoreShared \in BOOLEAN

VARIABLES
  store,  \* the store, the values' headers and the items, see StoreType
  held,   \* the value each pointer variable holds a reference to
  call    \* the store function a thread is inside of, with its locals
vars == <<store, held, call>>

Val == Obj \cup Static
Handle == Thread \X Slot

\* refs: fz_storable.refs; live: allocated values; val, key, bytes: the fields
\* val, key and size of allocated items; hash: the index; lru: the list, head
\* first; size: store->size.
StoreType ==
  [refs : [Val -> Int], live : SUBSET Val,
   val : [Item -> Val \cup {NoVal}], key : [Item -> Key \cup {NoKey}],
   bytes : [Item -> 0..UIntMax],
   hash : [Indexed -> Item \cup {NoItem}], lru : Seq(Item), size : 0..UIntMax]

CallType ==
  {c \in [op : {"idle", "ensure", "reject", "write", "scavenge", "nomem", "empty"},
          item : Item \cup {NoItem}, prev : Item \cup {NoItem},
          val : Val \cup {NoVal}, tofree : Nat, count : Nat,
          phase : 0..17, asked : 0..UIntMax, read : Int] :
     /\ c.op = "ensure" => c.item \in Item
     /\ c.op \in {"reject", "write"} => c.val \in Val}

Idle == [op |-> "idle", item |-> NoItem, prev |-> NoItem, val |-> NoVal,
         tofree |-> 0, count |-> 0, phase |-> 0, asked |-> 0, read |-> 0]

Init ==
  /\ store = [refs |-> [v \in Val |-> IF v \in Static THEN -1 ELSE 0],
              live |-> Static,
              val  |-> [i \in Item |-> NoVal],
              key  |-> [i \in Item |-> NoKey],
              bytes |-> [i \in Item |-> 0],
              hash |-> [k \in Indexed |-> NoItem],
              lru  |-> << >>,
              size |-> 0]
  /\ held = [h \in Handle |-> NoVal]
  /\ call = [t \in Thread |-> Idle]

-----------------------------------------------------------------------------
(* What the stretches are made of, as functions of the store's state s.    *)

UInt(n) == n % (UIntMax + 1)

\* Slip: no reference is taken.
RefNone(s, v) == s
\* Slip: static values are counted too.
RefStatic(s, v) == [s EXCEPT !.refs[v] = @ + 1]
\* if (refs > 0) refs++
Ref(s, v) == IF s.refs[v] > 0 THEN [s EXCEPT !.refs[v] = @ + 1] ELSE s

\* prev->val->refs++ and --prev->val->refs, whatever the count is
AddRefs(s, i, n) ==
  IF i = NoItem THEN s ELSE [s EXCEPT !.refs[s.val[i]] = @ + n]

Listed(s) == Range(s.lru)
Position(s, i) == CHOOSE n \in DOMAIN s.lru : s.lru[n] = i
Without(s, i) ==
  IF i \in Listed(s) THEN RemoveAt(s.lru, Position(s, i)) ELSE s.lru
ToHead(s, i) == <<i>> \o Without(s, i)
Touch(s, i) == [s EXCEPT !.lru = ToHead(s, i)]
\* Slip: evict() forgets the hash.
UnhashedNever(s, i) == s.hash
Unhashed(s, i) ==
  IF s.key[i] \in Indexed THEN [s.hash EXCEPT ![s.key[i]] = NoItem] ELSE s.hash

\* Slip: the last reference goes and nothing is freed.
DetachLeaks(s, i) ==
  [s EXCEPT !.val[i] = NoVal, !.key[i] = NoKey, !.bytes[i] = 0,
            !.hash = Unhashed(s, i), !.lru = Without(s, i),
            !.refs[s.val[i]] = IF @ > 0 THEN @ - 1 ELSE @]
\* Item i leaves the list and the hash and is freed, and the store's reference
\* to its value with it.
Detach(s, i) ==
  LET v == s.val[i]
  IN  [refs |-> [s.refs EXCEPT ![v] = IF @ > 0 THEN @ - 1 ELSE @],
       live |-> IF s.refs[v] = 1 THEN s.live \ {v} ELSE s.live,
       val  |-> [s.val EXCEPT ![i] = NoVal],
       key  |-> [s.key EXCEPT ![i] = NoKey],
       bytes |-> [s.bytes EXCEPT ![i] = 0],
       hash |-> Unhashed(s, i),
       lru  |-> Without(s, i),
       size |-> s.size]
Evict(s, i) == [Detach(s, i) EXCEPT !.size = UInt(@ - s.bytes[i])]

Prev(s, i) ==
  IF Position(s, i) = 1 THEN NoItem ELSE s.lru[Position(s, i) - 1]
Oldest(s) == IF s.lru = << >> THEN NoItem ELSE Last(s.lru)

\* Slip: refs <= 2.
EvictableShared(s) == {i \in Listed(s) : s.refs[s.val[i]] \in 1..2}
Evictable(s) == {i \in Listed(s) : s.refs[s.val[i]] = 1}
EvictableSize(s) == MapThenSumSet(LAMBDA i : s.bytes[i], Evictable(s))
\* the first item with a count of one from item i on, towards the head
Victim(s, i) ==
  LET found == {n \in DOMAIN s.lru :
                  /\ s.lru[n] \in Evictable(s)
                  /\ \E m \in DOMAIN s.lru : s.lru[m] = i /\ n <= m}
  IN  IF found = {} THEN NoItem ELSE s.lru[Max(found)]

Lookup(s, k) ==
  IF k \in Indexed THEN s.hash[k]
  ELSE LET found == {n \in DOMAIN s.lru : s.key[s.lru[n]] = k}
       IN  IF found = {} THEN NoItem ELSE s.lru[Min(found)]

-----------------------------------------------------------------------------
(* The client: creating, keeping and dropping values.                      *)

Running(t) == call[t] = Idle
Of(t) == {t} \X Slot

\* FZ_INIT_STORABLE(val, 1, free)
Create(t, h, v) ==
  /\ Running(t) /\ held[h] = NoVal
  /\ v \in Obj \ store.live
  /\ store' = [store EXCEPT !.refs[v] = 1, !.live = @ \cup {v}]
  /\ held' = [held EXCEPT ![h] = v]
  /\ UNCHANGED call

\* fz_keep_storable of a static value, such as a device's colour space
GetStatic(t, h, v) ==
  /\ Running(t) /\ held[h] = NoVal
  /\ v \in Static
  /\ held' = [held EXCEPT ![h] = v]
  /\ UNCHANGED <<store, call>>

\* fz_keep_storable, for a variable of any thread: rendering threads run the
\* display lists, with the values in them, that another thread built
Keep(t, h, to) ==
  /\ Running(t) /\ held[h] # NoVal /\ held[to] = NoVal
  /\ store' = Ref(store, held[h])
  /\ held' = [held EXCEPT ![to] = held[h]]
  /\ UNCHANGED call

\* fz_drop_storable
Drop(t, h) ==
  LET v == held[h]
  IN  /\ Running(t) /\ v # NoVal
      /\ store' = IF store.refs[v] < 0 THEN store
                  ELSE [store EXCEPT !.refs[v] = @ - 1,
                                     !.live = IF store.refs[v] = 1
                                              THEN @ \ {v} ELSE @]
      /\ held' = [held EXCEPT ![h] = NoVal]
      /\ UNCHANGED call

-----------------------------------------------------------------------------
(* fz_find_item, fz_remove_item                                            *)

\* Slip: returned without a reference.
FindItemBorrows(t, h, k) ==
  /\ Running(t) /\ held[h] = NoVal /\ Lookup(store, k) # NoItem
  /\ store' = Touch(store, Lookup(store, k))
  /\ held' = [held EXCEPT ![h] = store.val[Lookup(store, k)]]
  /\ UNCHANGED call

FindItem(t, h, k) ==
  LET i == Lookup(store, k)
      v == store.val[i]
  IN  /\ Running(t) /\ held[h] = NoVal
      /\ i # NoItem
      /\ store' = Ref(Touch(store, i), v)
      /\ held' = [held EXCEPT ![h] = v]
      /\ UNCHANGED call

\* store->size is left as it is
RemoveItem(t, k) ==
  LET i == Lookup(store, k)
  IN  /\ t \in Removers /\ Running(t)
      /\ i # NoItem
      /\ store' = Detach(store, i)
      /\ UNCHANGED <<held, call>>

-----------------------------------------------------------------------------
(* fz_store_item and ensure_space                                          *)

Return(t) == call' = [call EXCEPT ![t] = Idle]

\* Slip: the size is added only for an item nobody found.
AcceptFound(s, i) ==
  [s EXCEPT !.lru = ToHead(s, i),
            !.size = IF i \in Listed(s) THEN @ ELSE UInt(@ + s.bytes[i])]
\* store->size += itemsize, and item to the head of the list
Accept(s, i) ==
  [s EXCEPT !.size = UInt(@ + s.bytes[i]), !.lru = ToHead(s, i)]

\* No space was freed.  If another thread has put the item on the list it
\* stays, and the store goes over its maximum; if not, it is taken out of the
\* hash and freed.
GiveUp(t, s, i) ==
  IF s.key[i] \in Indexed /\ i \in Listed(s)
  THEN store' = Accept(s, i) /\ Return(t)
  ELSE /\ store' = [s EXCEPT !.hash = Unhashed(s, i),
                             !.val[i] = NoVal, !.key[i] = NoKey,
                             !.bytes[i] = 0]
       /\ call' = [call EXCEPT ![t] =
                     [Idle EXCEPT !.op = "reject", !.val = s.val[i]]]

\* Slip: prev is not pinned.
EvictForUnpinned(t, s, i, x, tofree, count) ==
  /\ store' = Evict(s, x)
  /\ call' = [call EXCEPT ![t] =
                [Idle EXCEPT !.op = "ensure", !.item = i, !.prev = Prev(s, x),
                             !.tofree = tofree,
                             !.count = count + s.bytes[x]]]
\* Evict x for the sake of item i, with the item before x pinned, and pause.
EvictFor(t, s, i, x, tofree, count) ==
  /\ store' = Evict(AddRefs(s, Prev(s, x), 1), x)
  /\ call' = [call EXCEPT ![t] =
                [Idle EXCEPT !.op = "ensure", !.item = i, !.prev = Prev(s, x),
                             !.tofree = tofree,
                             !.count = count + s.bytes[x]]]

EnsureSpace(t, s, i, tofree) ==
  LET x == Victim(s, Oldest(s))
  IN  IF x = NoItem \/ EvictableSize(s) < tofree
      THEN GiveUp(t, s, i)
      ELSE EvictFor(t, s, i, x, tofree, 0)

StorePre(t, h) ==
  /\ Running(t) /\ h \in Of(t) /\ held[h] # NoVal
  /\ StoreMax # 0 => SizeOf[held[h]] <= StoreMax
  /\ \/ StoreShared \/ held[h] \in Static
     \/ /\ \A i \in Item : store.val[i] # held[h]
        /\ \A g \in Handle : held[g] = held[h] => g \in Of(t)

\* the key is there already: its value is returned
StoreExisting(t, h, k, to) ==
  LET i == Lookup(store, k)
      v == store.val[i]
  IN  /\ StorePre(t, h) /\ held[to] = NoVal
      /\ k \in Indexed /\ i # NoItem
      /\ store' = Ref(Touch(store, i), v)
      /\ held' = [held EXCEPT ![to] = v]
      /\ UNCHANGED call

StoreNew(t, h, k, i) ==
  LET v == held[h]
      s == Ref([store EXCEPT !.val[i] = v, !.key[i] = k, !.bytes[i] = SizeOf[v],
                             !.hash = IF k \in Indexed
                                      THEN [@ EXCEPT ![k] = i] ELSE @], v)
      size == UInt(store.size + SizeOf[v])
  IN  /\ StorePre(t, h) /\ store.val[i] = NoVal
      /\ k \in Indexed => store.hash[k] = NoItem
      /\ IF StoreMax = 0 \/ size <= StoreMax
         THEN store' = Accept(s, i) /\ Return(t)
         ELSE EnsureSpace(t, s, i, size - StoreMax)
      /\ UNCHANGED held

\* Slip: the search starts again, with its count.
StoreResumeRestarts(t) ==
  LET c == call[t]
      s == AddRefs(store, c.prev, -1)
  IN  /\ c.op = "ensure"
      /\ IF c.count >= c.tofree THEN store' = Accept(s, c.item) /\ Return(t)
         ELSE EnsureSpace(t, s, c.item, c.tofree)
      /\ UNCHANGED held

\* Back in ensure_space, with the lock: prev is let go of and is where the
\* search goes on.  What happens if item or prev has been freed in between is
\* not modelled (the code reads freed memory), only that it can be.
StoreResume(t) ==
  LET c == call[t]
      s == AddRefs(store, c.prev, -1)
      x == Victim(s, c.prev)
  IN  /\ c.op = "ensure"
      /\ store.val[c.item] # NoVal /\ c.prev \in Listed(store) \cup {NoItem}
      /\ IF c.count >= c.tofree THEN store' = Accept(s, c.item) /\ Return(t)
         ELSE IF x # NoItem THEN EvictFor(t, s, c.item, x, c.tofree, c.count)
         ELSE IF c.count = 0 THEN GiveUp(t, s, c.item)
         ELSE EnsureSpace(t, s, c.item, c.tofree - c.count)
      /\ UNCHANGED held

\* Slip: val->refs-- is forgotten.
RejectReadOnly(t) ==
  /\ call[t].op = "reject" /\ Return(t) /\ UNCHANGED <<store, held>>
\* if (val->refs > 0) val->refs--, without the lock
RejectRead(t) ==
  /\ call[t].op = "reject"
  /\ LET refs == store.refs[call[t].val]
     IN  IF refs > 0
         THEN call' = [call EXCEPT ![t].op = "write", ![t].read = refs]
         ELSE Return(t)
  /\ UNCHANGED <<store, held>>
RejectWrite(t) ==
  /\ call[t].op = "write"
  /\ store' = [store EXCEPT !.refs[call[t].val] = call[t].read - 1]
  /\ Return(t)
  /\ UNCHANGED held

-----------------------------------------------------------------------------
(* fz_empty_store, for pdf_close_document and fz_drop_store_context        *)

EmptyStore(t) ==
  /\ \/ t \in Closers /\ Running(t)
     \/ call[t].op = "empty"
  /\ IF store.lru = << >> THEN UNCHANGED store /\ Return(t)
     ELSE /\ store' = Evict(store, Head(store.lru))
          /\ call' = [call EXCEPT ![t].op = "empty"]
  /\ UNCHANGED held

-----------------------------------------------------------------------------
(* fz_store_scavenge, scavenge and the allocator that calls them           *)

\* the size the store is to shrink to in a phase
PhaseMax(phase) ==
  IF phase >= 16 THEN 0
  ELSE IF StoreMax # 0 THEN (StoreMax \div 16) * (16 - phase)
  ELSE (store.size \div (16 - phase)) * (15 - phase)
Overflows(size) == size > UIntMax - store.size
Skipped(size, phase) == ~Overflows(size) /\ size + store.size > PhaseMax(phase)
\* Slip: signed arithmetic.
ToFreeSigned(size, phase) ==
  IF Overflows(size) THEN UIntMax - PhaseMax(phase)
  ELSE size + store.size - PhaseMax(phase)
ToFree(size, phase) ==
  IF Overflows(size) THEN UInt(UIntMax - PhaseMax(phase))
  ELSE UInt(size + store.size - PhaseMax(phase))

\* The phases from the given one on that come to scavenging something; all
\* phases past 16 are like 17.
Usable(size, phase) ==
  {p \in phase..Max({16, phase}) :
     /\ ~Skipped(size, p)
     /\ \A q \in phase..p - 1 : PhaseMax(q) > 0}

Scavenge(t, size, phase) ==
  LET x == Victim(store, Oldest(store))
      p == Min(Usable(size, phase))
  IN  IF x = NoItem \/ Usable(size, phase) = {}
      THEN /\ call' = [call EXCEPT ![t] =
                         [Idle EXCEPT !.op = "nomem", !.asked = size]]
           /\ UNCHANGED store
      ELSE /\ store' = Evict(store, x)
           /\ call' = [call EXCEPT ![t] =
                         [Idle EXCEPT !.op = "scavenge", !.asked = size,
                                      !.phase = Min({p + 1, 17}),
                                      !.tofree = ToFree(size, p),
                                      !.count = store.bytes[x]]]

\* The underlying allocator has failed.  (When it succeeds nothing changes.)
Malloc(t, size) ==
  /\ Running(t) /\ Scavenge(t, size, 0) /\ UNCHANGED held

\* back in scavenge, with the lock; when it is done malloc is tried again
ScavengeResume(t) ==
  LET c == call[t]
      x == Victim(store, Oldest(store))
  IN  /\ c.op = "scavenge"
      /\ IF c.count < c.tofree /\ x # NoItem
         THEN /\ store' = Evict(store, x)
              /\ call' = [call EXCEPT ![t].count = @ + store.bytes[x]]
         ELSE \/ Return(t) /\ UNCHANGED store
              \/ Scavenge(t, c.asked, c.phase)
      /\ UNCHANGED held

\* fz_malloc throws; the _no_throw variants return NULL
OutOfMemory(t) ==
  /\ call[t].op = "nomem" /\ Return(t) /\ UNCHANGED <<store, held>>

-----------------------------------------------------------------------------
Client(t) ==
  \/ \E h \in Of(t), v \in Val : Create(t, h, v) \/ GetStatic(t, h, v)
  \/ \E h \in Of(t) : Drop(t, h)
  \/ \E h \in Of(t), to \in Handle : Keep(t, h, to)
  \/ \E h \in Of(t), k \in Key : FindItem(t, h, k)
  \/ \E k \in Key : RemoveItem(t, k)
  \/ \E h, to \in Of(t), k \in Key : StoreExisting(t, h, k, to)
  \/ \E h \in Of(t), k \in Key, i \in Item : StoreNew(t, h, k, i)
  \/ \E size \in Request : Malloc(t, size)
Continue(t) ==
  \/ StoreResume(t) \/ RejectRead(t) \/ RejectWrite(t)
  \/ ScavengeResume(t) \/ OutOfMemory(t)
Next == \E t \in Thread : Client(t) \/ Continue(t) \/ EmptyStore(t)

Spec == Init /\ [][Next]_vars
\* A thread inside a store function gets on: nothing but FZ_LOCK_ALLOC, which
\* is never kept across a pause, stands in its way.
GoesOn(t) == Continue(t) \/ (call[t].op = "empty" /\ EmptyStore(t))
CanGoOn(t) ==
  /\ ~Running(t)
  /\ call[t].op = "ensure" => /\ store.val[call[t].item] # NoVal
                             /\ call[t].prev \in Listed(store) \cup {NoItem}
\* WF_vars(GoesOn(t)), with CanGoOn(t) in the place of ENABLED <<GoesOn(t)>>_vars
Fairness == \A t \in Thread : <>[]CanGoOn(t) => []<><<GoesOn(t)>>_vars
FairSpec == Spec /\ Fairness

-----------------------------------------------------------------------------
(* Properties                                                              *)

TypeOK ==
  /\ store \in StoreType
  /\ held \in [Handle -> Val \cup {NoVal}]
  /\ call \in [Thread -> CallType]

Holders(v) == {h \in Handle : held[h] = v}
Holding(v) == {i \in Item : store.val[i] = v}
Pinning(v) ==
  {t \in Thread : call[t].prev # NoItem /\ store.val[call[t].prev] = v}
Rejecting(v) ==
  {t \in Thread : call[t].op \in {"reject", "write"} /\ call[t].val = v}

\* A value's count is the number of references to it: the clients', the
\* store's, one for each thread in ensure_space that pins it (store.c:174) and
\* one for each fz_store_item that has yet to give its reference up (334).
RefsExact ==
  \A v \in Obj :
    store.refs[v] = Cardinality(Holders(v)) + Cardinality(Holding(v))
                    + Cardinality(Pinning(v)) + Cardinality(Rejecting(v))

\* A value that a client holds a reference to has not been freed, whoever
\* evicts or scavenges.
HeldLive == \A h \in Handle : held[h] # NoVal => held[h] \in store.live

\* A value nobody refers to is freed: evict(), fz_drop_storable and
\* fz_remove_item between them leak nothing.
NoLeak ==
  \A v \in Obj \cap store.live :
    Holders(v) \cup Holding(v) \cup Pinning(v) \cup Rejecting(v) # {}

\* store.c:176: "So the store has 1 reference to prev, as do we, so no other
\* evict process can have thrown prev away in the meantime."  The item that
\* ensure_space goes on from is still there when it gets the lock back, and the
\* item that is being stored, which can be found already, has not been freed
\* under fz_store_item.
NextKept ==
  \A t \in Thread :
    /\ call[t].prev # NoItem => /\ call[t].prev \in Listed(store)
                                /\ store.val[call[t].prev] # NoVal
    /\ call[t].item # NoItem => store.val[call[t].item] # NoVal

\* The hash and the list agree: what has a hashable key is under it in the
\* hash, once; what is in the hash but not on the list yet (item->next == item)
\* belongs to the one thread that is storing it; no item is listed twice.
IndexAgrees ==
  LET Storing == {call[t].item : t \in Thread}
  IN  /\ \A k \in Indexed : store.hash[k] # NoItem =>
           store.key[store.hash[k]] = k
      /\ \A i \in Item : store.val[i] # NoVal =>
           /\ store.key[i] \in Indexed => store.hash[store.key[i]] = i
           /\ i \in Listed(store) \cup Storing
      /\ \A i \in Listed(store) : store.val[i] # NoVal
      /\ IsInjective(store.lru)
      /\ \A t, u \in Thread : t # u /\ call[t].item # NoItem =>
           call[t].item # call[u].item

\* store->size is the sum of the sizes of the listed items that fz_store_item
\* is done with (one that another thread found may be listed and not counted):
\* it is how many bytes they have.
Done(s, c) == Listed(s) \ {c[t].item : t \in Thread}
Bytes(s, c) == UNION {{i} \X (1..s.bytes[i]) : i \in Done(s, c)}
SizeExact == store.size = Cardinality(Bytes(store, call))

\* store.h:102: "max: The maximum size (in bytes) that the store is allowed to
\* grow to."
SizeBounded == StoreMax # 0 => store.size <= StoreMax

\* store.c:77: "It's a static object. Dropping does nothing."
StaticStays == Static \subseteq store.live

\* store.c:82: "If we are dropping the last reference to an object, then it
\* cannot possibly be in the store"
LastDropNotStored ==
  \A i \in Item : store.val[i] # NoVal => store.val[i] \in store.live

\* What a thread has a reference to keeps its place in the store: making space
\* and scavenging pass it over, however the calls interleave.
InUseStays ==
  [][\A i \in Listed(store) :
       (\E h \in Handle : held[h] = store.val[i] /\ held'[h] = held[h])
       => /\ i \in Listed(store') /\ store'.key[i] = store.key[i]
          /\ store'.val[i] = store.val[i]]_vars

\* context.h:240: if the underlying allocator fails "MuPDF attempts to make
\* room for the allocation by evicting elements from the store": it gives up
\* only when there is nothing that could be evicted.
GivesUpLast ==
  [][\A t \in Thread :
       call[t].op # "nomem" /\ call'[t].op = "nomem" => Evictable(store) = {}]_vars

\* Every call of fz_store_item, fz_malloc and fz_empty_store returns.
CallsReturn == \A t \in Thread : ~Running(t) ~> Running(t)
=============================================================================
