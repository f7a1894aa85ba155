----------------------------- MODULE HashTable -----------------------------
(***************************************************************************)
(* The hash table of source/fitz/hash.c: open addressing with linear       *)
(* probes, removal that closes the hole, and doubling when it fills up.    *)
(*                                                                         *)
(* Its callers hold table->lock around every function, so a call is one    *)
(* action; but when the lock is FZ_LOCK_ALLOC, which malloc and free need, *)
(* fz_resize_hash gives it up around both.  Then an insertion that resizes *)
(* is three actions, with the locals of the thread in call[t] between them.*)
(***************************************************************************)
EXTENDS Integers, FiniteSets

(* A definition marked Slip is used nowhere: it is the definition that      *)
(* follows as a mistake in the code would have it.                         *)

CONSTANTS
  Thread,
  Key,
  Val,          \* the values, pointers that are not NULL
  HashOf,       \* hash(), for every key
  InitialSize,
  Locks,        \* the locks that tables have: "alloc" is FZ_LOCK_ALLOC
  NoKey, NoVal

ASSUME TableAssumption ==
  /\ NoVal \notin Val /\ NoKey \notin Key
  /\ HashOf \in [Key -> Nat]
  /\ Locks \subseteq {"alloc", "other"}
  \* with fewer entries the table can fill up before it is resized
  /\ InitialSize \in Nat /\ InitialSize >= 6

\* The table that FZ_LOCK_ALLOC protects, the store's, begins with 4096 slots,
\* and there are fewer threads than slots to spare once it has doubled.
ASSUME FewThreads ==
  /\ IsFiniteSet(Thread)
  /\ "alloc" \in Locks =>
       Cardinality(Thread) < 2 * InitialSize - (16 * InitialSize) \div 10

VARIABLES
  table,  \* ents, size, load and lock, and gen, how often ents was replaced
  call,   \* what a thread that has given up the lock will go on to do
  pos     \* the position fz_hash_insert_with_pos returned to a thread
vars == <<table, call, pos>>

Empty == [key |-> NoKey, val |-> NoVal]
\* the only such function (TLC takes this form and not the other)
NoEnts(size) == CHOOSE ents \in [0..size - 1 -> {Empty}] : TRUE
Idle == [op |-> "idle", key |-> NoKey, val |-> NoVal, newsize |-> 0, ents |-> 0]
NoPos == [key |-> NoKey, at |-> 0]

Init ==
  /\ \E lock \in Locks :
       table = [ents |-> NoEnts(InitialSize), size |-> InitialSize,
                load |-> 0, lock |-> lock, gen |-> 0]
  /\ call = [t \in Thread |-> Idle]
  /\ pos = [t \in Thread |-> NoPos]

-----------------------------------------------------------------------------
Home(k, size) == HashOf[k] % size
\* a probe for k goes on up to the first slot that is empty or k's own
Visited(T, k, n) == T.ents[(Home(k, T.size) + n) % T.size].key
Probe(T, k) ==
  LET stop == CHOOSE n \in 0..T.size - 1 :
                /\ Visited(T, k, n) \in {NoKey, k}
                /\ \A m \in 0..n - 1 : Visited(T, k, m) \notin {NoKey, k}
  IN  (Home(k, T.size) + stop) % T.size
Find(T, k) == T.ents[Probe(T, k)].val

\* nothing is changed when the key is there
Put(T, k, v) ==
  LET p == Probe(T, k)
  IN  IF T.ents[p] # Empty THEN T
      ELSE [T EXCEPT !.ents[p] = [key |-> k, val |-> v], !.load = @ + 1]

\* Slip: the entry may always be moved.
MayFillAlways(code, hole, look) == TRUE
\* May the entry at look, which hashes to code, move to the hole?
MayFill(code, hole, look) ==
  \/ code <= hole /\ hole < look
  \/ look < code /\ code <= hole
  \/ hole < look /\ look < code
\* how far it is from a hole to the next slot that is empty
Gap(T, hole) ==
  CHOOSE n \in 1..T.size :
    /\ n = T.size \/ T.ents[(hole + n) % T.size] = Empty
    /\ \A m \in 1..n - 1 : T.ents[(hole + m) % T.size] # Empty
\* The hole and the entries when n slots after the first hole were looked at.
Closing(T, hole) ==
  LET closed[n \in 0..T.size - 1] ==
        IF n = 0 THEN [hole |-> hole, ents |-> [T.ents EXCEPT ![hole] = Empty]]
        ELSE LET was == closed[n - 1]
                 look == (hole + n) % T.size
             IN  IF MayFill(Home(was.ents[look].key, T.size), was.hole, look)
                 THEN [hole |-> look,
                       ents |-> [was.ents EXCEPT ![was.hole] = was.ents[look],
                                                 ![look] = Empty]]
                 ELSE was
  IN  closed
\* The entry goes, and those after it up to an empty slot close the hole.
Take(T, hole) ==
  [T EXCEPT !.ents = Closing(T, hole)[Gap(T, hole) - 1].ents, !.load = @ - 1]

\* The new table when n slots of the old one were read.
Copying(T, newsize) ==
  LET new == [ents |-> NoEnts(newsize), size |-> newsize, load |-> 0,
              lock |-> T.lock, gen |-> T.gen + 1]
      copied[n \in 0..T.size] ==
        IF n = 0 THEN new
        ELSE IF T.ents[n - 1] = Empty THEN copied[n - 1]
        ELSE Put(copied[n - 1], T.ents[n - 1].key, T.ents[n - 1].val)
  IN  copied
Rehash(T, newsize) == Copying(T, newsize)[T.size]

\* Slip: resized when it is full.
CrowdedLate(T) == T.load >= T.size
Crowded(T) == T.load > (T.size * 8) \div 10

-----------------------------------------------------------------------------
Running(t) == call[t] = Idle
Return(t) == call' = [call EXCEPT ![t] = Idle]

\* fz_hash_insert_with_pos returns the position if the entry is new
Insert(t, T, k, v) ==
  /\ table' = Put(T, k, v)
  /\ \/ UNCHANGED pos
     \/ /\ Find(T, k) = NoVal
        /\ pos' = [pos EXCEPT ![t] = [key |-> k, at |-> Probe(T, k)]]

\* fz_hash_insert, fz_hash_insert_with_pos.  A thread that has been given a
\* position is in fz_store_item until it has used it or forgotten it.
HashInsert(t, k, v) ==
  /\ Running(t) /\ pos[t] = NoPos
  /\ IF ~Crowded(table) THEN Insert(t, table, k, v) /\ UNCHANGED call
     ELSE IF table.lock # "alloc"
          THEN Insert(t, Rehash(table, 2 * table.size), k, v) /\ UNCHANGED call
     ELSE /\ call' = [call EXCEPT ![t] =
                        [op |-> "resize", key |-> k, val |-> v,
                         newsize |-> 2 * table.size, ents |-> table.gen]]
          /\ UNCHANGED <<table, pos>>

\* what oldents points to: the table's entries, or memory that was freed when
\* they were replaced, of which nothing is to be expected
Old(t) ==
  IF call[t].ents = table.gen THEN table
  ELSE [table EXCEPT !.ents = NoEnts(table.size)]

\* Slip: the size is not looked at again.
ResizeBlindly(t) ==
  /\ call[t].op = "resize"
  /\ table' = Rehash(Old(t), call[t].newsize)
  /\ call' = [call EXCEPT ![t].op = "insert"]
  /\ UNCHANGED pos
\* malloc has returned and the lock is taken again: if someone else has
\* resized the table the new memory is freed, else it is used
Resize(t) ==
  /\ call[t].op = "resize"
  /\ table' = IF table.size >= call[t].newsize THEN table
              ELSE Rehash(Old(t), call[t].newsize)
  /\ call' = [call EXCEPT ![t].op = "insert"]
  /\ UNCHANGED pos
\* malloc failed: fz_throw, and nothing is inserted
ResizeFails(t) ==
  /\ call[t].op = "resize" /\ table.size < call[t].newsize
  /\ Return(t) /\ UNCHANGED <<table, pos>>
\* free has returned and the lock is taken for good
InsertResized(t) ==
  /\ call[t].op = "insert"
  /\ Insert(t, table, call[t].key, call[t].val)
  /\ Return(t)

\* fz_hash_remove: only a warning when the key is not there
Removed(T, k) == IF Find(T, k) = NoVal THEN T ELSE Take(T, Probe(T, k))
HashRemove(t, k) ==
  /\ Running(t)
  /\ table' = Removed(table, k)
  /\ UNCHANGED <<call, pos>>

\* Slip: the position is trusted.
HashRemoveAt(t) ==
  /\ Running(t) /\ pos[t] # NoPos
  /\ table' = Take(table, pos[t].at)
  /\ pos' = [pos EXCEPT ![t] = NoPos]
  /\ UNCHANGED call
\* fz_hash_remove_fast: the position may be out of date
HashRemoveFast(t) ==
  /\ Running(t) /\ pos[t] # NoPos
  /\ table' = IF table.ents[pos[t].at].key = pos[t].key
              THEN Take(table, pos[t].at) ELSE Removed(table, pos[t].key)
  /\ pos' = [pos EXCEPT ![t] = NoPos]
  /\ UNCHANGED call

\* fz_store_item did not need it
Forget(t) ==
  /\ Running(t) /\ pos[t] # NoPos
  /\ pos' = [pos EXCEPT ![t] = NoPos]
  /\ UNCHANGED <<table, call>>

\* fz_empty_hash, which the glyph cache calls
EmptyHash(t) ==
  /\ table.lock # "alloc" /\ Running(t)
  /\ table' = [table EXCEPT !.ents = NoEnts(table.size), !.load = 0]
  /\ UNCHANGED <<call, pos>>

Next ==
  \E t \in Thread :
    \/ \E k \in Key, v \in Val : HashInsert(t, k, v)
    \/ \E k \in Key : HashRemove(t, k)
    \/ Resize(t) \/ ResizeFails(t) \/ InsertResized(t)
    \/ HashRemoveFast(t) \/ Forget(t) \/ EmptyHash(t)

Spec == Init /\ [][Next]_vars

-----------------------------------------------------------------------------
(* Properties                                                              *)

Used == {p \in 0..table.size - 1 : table.ents[p] # Empty}

\* hash.c:5: "removing entries works correctly": a probe for a key that is in
\* the table reaches it, whatever was inserted, removed and moved before, and
\* so no key is there twice.
Reachable == \A p \in Used : Probe(table, table.ents[p].key) = p

\* table->load, that decides when to resize, counts the entries, and there is
\* always an empty slot, without which the loops of fz_hash_find and
\* do_hash_insert would never end, though threads insert without looking at the
\* load again when they are done resizing.
NeverFull == table.load = Cardinality(Used) /\ Cardinality(Used) < table.size

\* fz_hash_remove_fast removes its key, if it is still there, and no other,
\* wherever the entries have moved since the position was returned.
RemovesItsOwn ==
  [][\A t \in Thread : HashRemoveFast(t) =>
       \A k \in Key : Find(table', k) = IF k = pos[t].key THEN NoVal
                                        ELSE Find(table, k)]_vars

\* The table is a map: resizing, in pieces and by several threads, changes
\* nothing that can be found, and an insertion never overwrites.  In particular
\* the oldents that fz_resize_hash has read before it gave up the lock (149) and
\* goes on with (188) have not been freed by another thread.
Abstract == INSTANCE KeyMap WITH map <- [k \in Key |-> Find(table, k)],
                                 clears <- (table.lock # "alloc")
IsMap == Abstract!Spec
=============================================================================
