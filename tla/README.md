# Verification of PDFConverter and the MuPDF library in it

PDFConverter is an extension of a CAD program that turns pages of PDF
documents into drawings.  It is a thin layer (`src/PDFConverter`, 2,400 lines)
over a copy of MuPDF (`src/source`, about 75,000 lines of C).  MuPDF does
the work and has nearly all of the state; PDFConverter walks the list of
commands that MuPDF records for a page and makes entities of them.

This directory holds TLA+ models of the parts where state, interleavings and
exceptions meet, their TLC configurations, and proofs checked by TLAPS.
`PROJECT.json` lists the components, the runs, the mutants that each property
is known to notice, the source lines of each definition, the hazards and the
theorems.

## 1. The system

### How the parts are put together

    PDFConverter.cpp --> pdfapp.cpp --(walks the list)--> display list
          |                  |                              ^
          |                  +--> rebuildPline.cpp          | records
          v                                                 |
      documents (pdf, xps, ...) --> interpreter --> device layer --> devices
          |                             |                |
          |                             v                v
      streams, xref, objects      resource store     glyph cache
                                        |                |
                                        +--> hash table <+
                                        |
                                  allocator, locks, contexts, exceptions

Everything is called with an `fz_context`, which holds the exception stack of
one thread and pointers to what the threads share: the store, the glyph
cache, fonts, colour spaces.  Threads have contexts cloned from one another
(`docs/overview.txt`, "Multi-threading"), and the client gives the library four
locks.  PDFConverter itself uses one thread and no locks; what is said here
of threads is about the library as its documentation lets it be used
(`docs/multi-threaded.c`).

### Inventory

Component; its state; its operations; what is hard; what makes it correct.

* **Resource store** (`fitz/store.c`).  An LRU list of items with a hash
  index, a size, and reference counts in the values.  Store, find, remove,
  empty, scavenge, keep, drop.  *Hard:* `evict()` gives up `FZ_LOCK_ALLOC` in
  the middle, with pointers into the list in local variables, items half
  inserted, and counts that others change.  *Correct:* counts are exact,
  nothing is freed in use or leaked, list, hash and size agree, calls return.
* **Scavenging allocator** (`fitz/memory.c`).  No state but the store's: an
  allocation that fails evicts in seventeen phases and tries again.  *Hard:*
  unsigned comparisons, the lock again.  *Correct:* it gives up last.
* **Hash table** (`fitz/hash.c`).  Entries, size, load.  *Hard:* removal moves
  entries in a cyclic array; growing gives up the caller's lock around
  `malloc` and `free`; positions are remembered meanwhile.  *Correct:* it is a
  map, and there is always an empty slot to end a probe.
* **Exceptions** (`fitz/error.c`, macros in `fitz/context.h`).  A stack of
  `setjmp` buffers with a code each.  *Hard:* which block runs after which is
  arithmetic with 0, 1, 2, 3 and 5; the stack may overflow.  *Correct:* always
  blocks run once, catch blocks exactly when something was thrown.
* **Display list** (`fitz/list-device.c`).  A list of commands; while it is
  recorded a stack of at most 96 clips whose rectangles shrink to their
  contents; while it is replayed the depth of what is culled.  *Hard:* a
  clip's rectangle is known only when it ends; nesting beyond the stack;
  masks become clips; tiles repeat and may be skipped.  *Correct:* nothing
  visible is culled and the device sees nested brackets.
* **Device layer** (`fitz/device.c`).  One counter, `error_depth`.  *Hard:* a
  bracket that fails has to swallow its contents and its own end.
* **Glyph cache** (`fitz/draw-glyph.c`).  A table from (font address, glyph)
  to pixmaps, with a total.  *Hard:* the lock is given up while a type 3
  glyph runs; fonts are identified by address; exceptions with the lock held.
* **Line joining** (`PDFConverter/rebuildPline.cpp`).  Segments, a map from
  points to segments, paths.  *Hard:* lists that are used up while they are
  walked at both ends.  It is off unless `m_bLineSegOpt` is set, which no
  code of the repository does (`pdfapp.h`).
* **Page conversion** (`PDFConverter/pdfapp.cpp`).  The document, the page, its
  list, a stack of clips of its own.  *Hard:* it has to follow the rules of a
  list that MuPDF's own `fz_run_display_list` follows.
* **Contexts and locks** (`fitz/context.c`).  Counts of the shared parts; the
  order in which locks are taken.  *Hard:* the last context frees.
* **Cross-reference table, objects, repair** (`pdf/pdf-xref.c`,
  `pdf/pdf-object.c`, `pdf/pdf-repair.c`).  Sections of entries, each with the
  object once it is read; objects with counts and the number of the object they
  are in; incremental updates.  *Hard:* borrowed references, entries half filled
  when reading throws, sections that hide one another, edits deep inside of
  an object that must take all of it to the section that is saved.
  *Correct:* what was edited is what is saved and read again; what was lent
  stays; reading changes nothing and can be tried again.
* **Progressive loading** (`fitz/stream-prog.c`, hints in `pdf-xref.c`,
  `docs/progressive.txt`).  *Hard:* any call may throw `FZ_ERROR_TRYLATER` and
  be made again later.
* **Interpreter** (`pdf/pdf-interpret.c`).  A stack of graphics states with a
  lower bound in nested streams and a number of open clips in each; marks on
  forms that are being run.  Pages, annotations, forms, soft masks and pattern
  cells run streams in one another, and open brackets on the device.  *Hard:*
  what an exception leaves of it, at each of a dozen places that catch.
  *Correct:* brackets and states stay in step, a stream leaves its caller's
  states alone, and a page ends.
* **Pages, writing, fonts and cmaps, annotations and forms, encryption**
  (`pdf/*.c`), **draw device** and **other devices**, **streams and filters**,
  **images, pixmaps, colour**, **XPS, CBZ, images as documents**, **tools**,
  **viewers**.  See section 8 and `PROJECT.json`.
* **Third-party and generated code** is not part of this program.

## 2. The modules

| module | models | composed with |
|---|---|---|
| `Store` | the resource store and the allocator that scavenges from it | `StoreProofs` extends it |
| `HashTable` | the hash table | implements `KeyMap`; `HashProofs` extends it |
| `KeyMap` | what a hash table promises: a map | abstract |
| `ErrorStack` | the exception stack and its macros | implements `TryCatch`; `ErrorProofs` extends it |
| `TryCatch` | what the macros promise: nested blocks, pending exceptions | abstract |
| `DisplayList` | recording, the device layer on both sides, replay, and `pdfapp_interpret` | one module: four parts sharing one list; `DisplayProofs` extends it |
| `GlyphCache` | the glyph cache with fonts and pixmaps | takes the hash table as the map that `HashTable` implements; `GlyphProofs` extends it |
| `PlineRebuild` | the joining of lines | - |
| `Interpret` | the PDF interpreter: pages, streams, forms, masks, patterns, and the exceptions that pass them | calls the device layer of `device.c`, and is what `DisplayList` takes its brackets from (section 7); `InterpretProofs` extends it, and `InterpretNesting` that |
| `Xref` | the cross-reference table with its cached objects, edits, incremental saves, and data that arrive | implements `Document`; `XrefProofs` extends it |
| `Document` | what an editor of a document relies on: values by number, and those in the file | abstract |

`MCStore`, `MCHashTable`, `MCGlyphCache`, `MCPlineRebuild` and `MCXref` give
constants and symmetries for TLC.  In each module a definition marked *Slip* is the one
that follows as a plausible mistake would have it; nothing uses it, and the
mutants of `PROJECT.json` put it in the place of the other to see that the
property notices.

### State and actions, against the code

**Store.**  `store` is the `fz_store` with the headers of the values
(`refs`, `live`) and the fields of the items; `held` is what the pointer
variables of the clients own; `call[t]` holds the local variables of a
thread whose stretch under the lock ended inside of `ensure_space`, `scavenge`
or `fz_empty_store`.  One action is one stretch from taking the lock to giving
it up: `StoreNew` goes up to the first eviction, `StoreResume` from there to
the next one or to the end; `RejectRead` and `RejectWrite` are the unlocked
`--val->refs` of line 333, which is a read and a write.  `Malloc` does the first
`fz_store_scavenge` of an allocation that failed, `ScavengeResume` the next
turn, `OutOfMemory` the exception.  Unsigned integers wrap at `UIntMax + 1`.
Items without a hashable key are on the list and in no hash.  Static values
have a count of -1.

**HashTable.**  A call is one action, since the caller has the table's lock;
with `table.lock = "alloc"` an insertion that grows the table is
`HashInsert`, `Resize` (after `malloc`) and `InsertResized` (after `free`), and
`ResizeFails`.  `gen` counts replacements of `ents`, so that the pointer
`oldents` read before the lock was given up can be seen to be stale.

**ErrorStack.**  `top`, `code` and `errcode` are the fields of
`fz_error_context`, `set` the slots with a buffer, `flow` the blocks control
is in.  An action is a step of a program: entering a `fz_try` (`Try`), leaving
a block normally (`LeaveTry`, `LeaveAlways`), `Throw`.

**DisplayList.**  `list` is the `fz_display_list`, `page` and `dev` the devices
it is recorded through and replayed to, `run` the variables of
`fz_run_display_list`; each node remembers in `in`, which is not in the code,
the brackets it was recorded in.  Commands are grouped by what they do to the
state.  `Interpret` is the stack that `pdfapp_interpret` keeps.

**GlyphCache.**  `thread[t].at` is where in `fz_render_glyph` a thread is:
running a type 3 glyph without the lock, rendering with it, waiting for it
again, caching.  Fonts and pixmaps are addresses that are used again, with an
identity besides, to see that the cache does not confuse them.

**PlineRebuild.**  `seg`, `runs`, `vtx` and `drawn` are the segments of a
colour, the runs of one width, `mapVtx` and `vecPath`; `Join` is one turn of
the loop of `ChangeToPolyLine`, with both calls of the recursive `expandPath`.

**Interpret.**  `gs` is `csi->gstate` up to `gtop`, `csi` the other fields of
`pdf_csi`, `dev` the device behind `device.c` with the brackets that are open
on it.  `calls` is the C stack: a frame has the steps its function has still to
do (`todo`), those of its `fz_always` and `fz_catch` (`onErr`), and what it has
saved of the caller's in local variables.  One action is one step: an operator
of a content stream (`Run_q`, `Run_Do`, ...), or a call to the device, `pdf_gsave`,
`pdf_grestore` and so on.  `Throw` takes the frames off up to the one that
catches, as `longjmp` does.  Operators are grouped by what they do to the states;
`f` stands for every path that is painted, `sh` for shades and images.

**Xref.**  `sections[j][n]` is entry `n` of `doc->xref_sections[j]`, `objs` the
objects in memory, `held` what a client has kept; what it has only been lent
(`pdf_resolve_indirect`) is what entries own.  An object is a dictionary with a
value, at most one dictionary in it, and perhaps a stream.  `Cache` is
`pdf_cache_object` for every type of entry, with what remains when it throws;
`arrived[n]` is how much of object `n`, or of the object stream `n`, is there.
`file` is what an incremental save has written, and `Reopen` reads it.

## 3. The runs

All runs check every action of their module at least once between them.

| run | instance | distinct states | shows |
|---|---|---|---|
| `StoreThreads` | 2 threads, 1 slot each, 3 items, 3 values (one as large as the store), 2 keys (one not hashable), max 32, fair | 154,000 | counts, list, hash and size through every interleaving of storing, finding, dropping and scavenging; every call returns |
| `StoreUnlimited` | 2 threads, no maximum, closers, removers, shared and static values | 53,000 | counts when documents are closed and items taken back |
| `HashThreads` | 2 threads, 6 keys in two colliding classes, sizes 6 and 12, either lock | 18,000 | refinement of `KeyMap`, probes reach, positions are safe |
| `ErrorCareful` | 5 slots, one reserved, 2 exceptions | 809,000 | refinement of `TryCatch` |
| `DisplayCull` | 6 nodes, 3 cells, stack of 1, failing and caching device | 7,000,000 | culling and nesting with clips, text, groups, masks and tiles |
| `DisplayMask` | 4 nodes | violation | `pdfapp_interpret` pops what it did not push |
| `GlyphThreads` | 2 threads, 1 address of fonts used twice, 2 glyphs, 3 pixmaps, fair | 462,000 | the cache, with type 3 glyphs and exceptions |
| `PlineOpen` | up to 4 segments among 5 points, 2 widths | 203,000 | joining of lines that close no loop |
| `PlineErased` | up to 3 segments | violation | loops disappear |
| `InterpretPage` | 3 operators, 2 forms (one a group), an annotation, every fault, fair | 218,000 | states, clips, groups, masks and marks through every exception; a page ends |
| `InterpretLater` | 2 operators, 1 form, no `incomplete_ok` | violation | a page that has not all arrived does not end |
| `XrefEdits` | 3 objects (an object stream and two in it), a fourth to be created, 3 edits, 1 save, data that arrive | 106,000 | edits, saves and reads agree, nothing lent is freed, reading can be retried |

### Why the bounds are enough

* *Store.*  An interleaving needs one thread inside `ensure_space` and one that
  disturbs it.  Three items are the one being stored, the one evicted and the
  one the search goes on from; a value as large as the store makes the search
  go past all others.  Sizes are multiples of 16, `UIntMax` is 127 so that the
  shift by phases (`max >> 4` per phase) gives every phase an amount and the
  sums in the code do not wrap by accident; what does wrap is found with 63
  (section 6).
* *Hash table.*  Six slots are the fewest of which `(size * 8) / 10` leaves two
  empty; one class of keys hashes to the last slot, so that probes and
  holes wrap around, the other to the slot before.  Doubling once makes twelve;
  with six keys the second size does not fill up.
* *Exceptions.*  Four ordinary slots and the reserved one: every code can meet
  every other on neighbouring slots.  The theorems hold for any size.
* *Display list.*  A stack of one clip makes a second one nested too deeply;
  three cells tell inside, outside and between apart; six nodes are two
  brackets with contents and an end each.  A list of more nodes has no more
  kinds of neighbours.
* *Glyph cache.*  Two fonts one after the other at one address; a cache of
  size 2 with glyphs of 1 and 2 overflows.  `MaxFonts` bounds how many fonts
  are made.
* *Interpreter.*  Three operators set the state up, nest (a form, a pattern or
  a soft mask runs a stream of its own), and change or paint in the nested one;
  one form is a transparency group and one is not; each fault is possible at
  every place it can strike.  Four operators have the same answers for the
  invariants, and take too long with liveness.
* *Cross-reference table.*  The object stream has two objects, so that one is
  cached along with the other; three edits are enough to make a dictionary, put
  it into an object and change it there, or to create, update and delete; one
  save leaves an old version of an object in the object stream.
* *Lines.*  Four segments make a fork, a path joined in its middle, and lines
  that meet in a point in every order.

### Fairness

`Store!Fairness`: a thread inside a store function goes on.  Between two
stretches it waits for `FZ_LOCK_ALLOC` only, which every action gives up, so weak
fairness of each thread is what a lock that does not starve provides.  It is
spelled out, with the condition under which a call can go on (`CanGoOn`) in the
place of `ENABLED`, which TLC takes long to evaluate here.
Nothing is assumed of clients: they need not call anything.
`GlyphCache!FairSpec`: a thread inside `fz_render_glyph` goes on, weakly fair;
rendering ends.  `Interpret!FairSpec`: the interpreter is one thread that
goes on, and `MaxTokens` makes the contents finite, as files are.  The hash
table, the exceptions, the display list and the cross-reference table have no
liveness property and no fairness: nothing obliges clients to call.

### Deadlock

Checked for the store, the hash table and the cross-reference table, whose
clients can always call.  The other systems end (a list is replayed once, a
page is run once, lines are joined once, an exception that nobody catches
ends the program, contexts are dropped), and
their configurations say `CHECK_DEADLOCK FALSE`.

## 4. What the properties say

* Store: `RefsExact`, `HeldLive`, `NoLeak` relate the counts to every
  reference there is, those in local variables of calls included;
  `NextKept` is what `ensure_space` and `fz_store_item` assume across the gap
  in the lock (the comment at store.c:165);
  `IndexAgrees` and `SizeExact` relate list, hash and size; `InUseStays` is an
  action property: no step of any thread takes away what another one uses;
  `CallsReturn` is liveness.
* Hash table: `Reachable` is what closing the hole has to preserve;
  `NeverFull` that probes end though the load is not looked at again after a
  resize; `RemovesItsOwn` that an old position does no harm; `IsMap` that the
  table implements `KeyMap`.
* Exceptions: `InStep` relates the codes to the blocks; `KeepsPromise` is the
  refinement.
* Display list: `CullSafe` relates what was recorded to what is drawn, on pages
  without text that adds to a clip;
  `DevNested` relates the device's brackets and both counters to the nesting
  of the list; `InterpretFollows` relates PDFConverter's stack to the brackets.
* Glyph cache: `CountsExact` and `TotalExact` relate counts to contents, at the
  end too; `SameFont` is about addresses; `LockKept` and `LockReturns` about the
  lock under exceptions.
* Lines: `DrawnAsOnPage`, `OpenLinesKept`, `FewestPaths`.
* Interpreter: `Nested` relates the device to the clips of the states and to
  what every call under way has still to close; `StatesKept` is what each call
  promises its caller; `MasksHeld` relates references to states and local
  variables; `MarkedWhileRun` is that no form is run in itself, nor marked for
  ever; `CallersKept` is an action property of streams; `RunEnds` is liveness.
* Cross-reference table: `RefsExact` relates counts to entries, dictionaries and
  clients; `EditsKept` is the invariant that incremental saves rest on; `Saves`
  is the refinement of `Document`: an edit changes one value, a save makes the
  file what the document is, opening gives it back; `LentStays` and `ReadsKeep`
  say what reading may not do, `RetrySucceeds` that a read that failed for want
  of data can be made again.

## 5. Proofs

`StoreProofs`, `HashProofs`, `ErrorProofs`, `DisplayProofs`, `GlyphProofs`,
`InterpretProofs`, `InterpretNesting` and `XrefProofs`, checked by TLAPS.

* **`TypeCorrect`** (`StoreProofs`): `Spec => []TypeOK`, for any finite sets of
  threads, slots and items, any values, keys and sizes, any maximum and any
  width of integers (`ConstantsAssumption`).  `TypeOK` is inductive: it has in
  it what a pause leaves for its continuation (a thread inside `ensure_space` has an item, the phase is at most 17).  The
  lemmas about `Min`, `Max`, `RemoveAt` and `UInt` come first, then one lemma
  per function of the store's state (`Ref`, `ToHead`, `Detach`, `Victim`, ...),
  then one step per action.
* **`Inductive`** (`StoreProofs`): `Undisturbed` implies `Spec => []IInv`.  None of
  the store's properties is inductive by itself: that nothing is freed in use
  needs exact counts; that a step keeps counts exact needs the items named in
  local variables to be there still (a pin is a reference to *the value of
  the item*); that they are there needs the counts, since eviction looks at
  nothing else; and that a rejected value's unlocked decrement loses nothing
  needs it to be owned by one thread.  `IInv` is the conjunction: `Counted`
  (counts are numbers of occurrences, and a value is live while it has one),
  `CallsDistinct` (two threads never store the same item), `Indexes` (list and
  hash), `Stays` (what a pause goes on from is there) and `Owned` (who else
  may refer to a value that is being stored or has been rejected).  It is a
  predicate of a store, the clients' variables and the calls, not of the
  variables of the module, so that it can be claimed in the middle of a stretch.
  There is one lemma for each change that stretches are made of (`DetachKeeps`,
  `PinKeeps`, `UnpinKeeps`, `TouchKeeps`, `RefKeeps`, `AcceptKeeps`,
  `RejectKeeps`, ...), and each action is a chain of them.
* From it follow **`CountsExact`**, **`NothingFreedInUse`**,
  **`NothingStoredFreed`**, **`NothingLeaked`**, **`PlacesStay`**,
  **`ListAndHashAgree`** and **`StaticNeverFreed`**, each a property of a run, and,
  with lemmas on what each change does to the list, the action property
  **`InUseKeepsPlace`**, for stores with a maximum.
* **`SizeHolds`** (`StoreProofs`): `store->size` is the sum of the sizes of the
  items.  A sum over a set is a recursive definition, of which the prover has
  no induction; so the sum is stated as the number of elements of the union of
  `{i} \X (1..size)` over the items `i`, which theorems about cardinalities
  speak of.  The size wraps as the code's unsigned addition does, so what is
  inductive is that it is the sum modulo `UIntMax + 1` (`Sized`); where the sum
  fits, it is the sum.  `Sized` is again a predicate of a store and the calls,
  as an item is on the list before its size is added.  It needs `Undisturbed`
  (what is evicted is not being stored), and that nobody calls
  `fz_remove_item`, which forgets to subtract (section 6).
* **`AlwaysReachable`, `AlwaysRoom`, `FastRemovesItsOwn`, `ImplementsMap`**
  (`HashProofs`), for any keys, any hash function and any sizes.  The loops of
  the code, which probe, close a hole and insert again, are recursive functions
  of the number of turns; what is claimed of them is proved by the least number
  of turns for which it would fail (`Least`, `Recursion`).  The invariant `Inv`
  has in it that between where a key hashes to and where it is there is no empty
  slot (`Chained`, on a circle: `Between`), and that no key is there twice.  In
  the middle of the loop that closes a hole, `Hollow` says which entries cannot
  be found: those it has still to look at.  A thread that gave up the lock
  finds the table it left or one that is at least as large as it wanted it to be
  (`CallOK`).  It does not look at the load again, so the load may exceed the
  limit by one for every such thread (`LoadOK`), and `FewThreads` assumes that
  there are slots for them: the store's table begins with 4,096 (store.c:41),
  and once it has 8,192 the threads may be 1,638.
* **`StaysInStep`, `InStepHolds`** (`ErrorProofs`): with `IInv`, which is `TypeOK`,
  `InStep` and that nothing was asserted or lost, every step of a careful
  program keeps the codes in step with the blocks.
* **`Implements`** (`ErrorProofs`): `Careful => (Spec => KeepsPromise)`: the codes
  mapped to pending exceptions are a behaviour of `TryCatch`.  One step per
  action; `Always` and `Catch` have lemmas of their own, as they are parts of
  three actions.
* **`DeviceNested`** (`DisplayProofs`): `~ IgnoreImage` implies
  `Spec => []DevNested`, for any list, rectangles, scissor, stack of clips and
  depth of nesting, with cached tiles and with brackets that fail when the
  list is recorded and when it is replayed.  The invariant has two parts.
  `Nesting` is kept by recording: `Follows` relates the brackets around a node to
  those around the next one.  `Matches` is kept by replaying: what has begun (is open
  or has failed) is the outermost brackets, the next one is culled and no
  tile, and `clipped` and `tiled` count the two parts.  That the first bracket
  that is culled is not a tile is the strengthening: without it `clipped` could
  be 0 with something culled.  For a cached tile, `TileEnds` shows that the
  node `skip_to_end_tile` finds by counting is the end of that tile, from the
  nesting of the nodes between (`StaysInside`, `CmdsCountTiles`).
* **`CullHolds`** (`DisplayProofs`): `Spec => []CullSafe`, with no assumption on the
  constants, so also for a device that ignores images.  That rectangles are
  shrunk while the list is recorded is what has to be got right.  For it the
  invariant relates `list->stack` to the brackets that are open (`Shrinks`): a frame
  for every open clip (`Tally`), whose `update` is the node that began it (`Updates`)
  and which has all that can be seen of the nodes of which that clip is the
  innermost one (`Covers`), or is the whole plane where a tile is between
  (`Repeats`); once a clip is closed, its own rectangle has all that can be seen
  inside (`Enough`).  While the list is replayed, `CulledAt` says that what is
  culled is inside of a bracket outside of tiles that misses the scissor.  A device
  that is not given some brackets is followed by one that is given all of them
  (`Tracks`): what is culled depends on the counters and not on the device.
  Without the premise of `CullSafe`, `Tally` fails, and so does the property
  (section 6).
* **`InterpretHolds`** (`DisplayProofs`): `Spec => []InterpretFollows`.  `Interpret` is a
  recursive function of the nodes; that it exists (`InterpretIs`) and what it has
  before each node (`WalksFollow`) are shown of the least number for which they
  would be wrong, as the induction theorems of the library cannot be used here.
* **`GlyphsOfSameFont`, `CountsHold`, `LockHeld`** (`GlyphProofs`), for any
  numbers of threads, fonts, glyphs and pixmaps.  That a font never gets the
  glyphs of one that was at its address before needs exact counts (the address is
  not used again while a key keeps the font), and the other way round a
  pixmap may only be made where nothing refers to one.  `IInv` has both
  (`Counted`, `Same`), with what a thread inside of `fz_render_glyph` goes on from
  (`Rendering`: it keeps the font, which is still the one it was asked for), and
  the lock.  It is a predicate of a cache, fonts, pixmaps and threads, as
  `Cache` evicts before it inserts.  `Counted` says that counts are never too
  small, and exact if `ValKept`; only `CountsHold` assumes that, as a pixmap
  that is lost (section 6) is a leak and no more.
* **`StackInOrder`** (`InterpretProofs`): `Spec => []IInv`, for any forms, any
  number of states and any depth of nesting.  `IInv` is about the C stack: the
  steps each frame has still to do are those of its kind of function, from
  some point on; every frame but the innermost waits for a call it has made;
  the base of a stream that is being run is at most `gbot` and at most the
  number of states there are, so that `pdf_grestore` does not get below it; the
  marked forms are those of the frames that have not come to `pdf_unmark_obj`.  An exception takes off the
  frames up to one that catches, in any of these states, and goes on with what
  that one does in `fz_always` and `fz_catch`, which is why the invariant has to
  speak of every frame's remaining steps and not of the innermost's.
  The lemmas `Advance`, `Push` and `ThrowKeeps` say what the three ways to
  change the stack preserve, and there is one lemma for each action.  From it
  follow **`MarksKept`** (no form is run in itself, none stays marked) and the
  action property **`StreamsKeepCallers`**.
* **`LevelsKept`**, **`StatesHold`** (`InterpretProofs`): `Patient` implies
  `Spec => []StatesKept`.  `At` says how many graphics states there are, and
  which `gbot` and `gparent`, for each list of steps that a function can have
  left, in terms of those that there were when it was called; where a stream has thrown,
  there may be more states, and the steps left are those that take them off.
  `Levelled` says so of every frame: of one that waits, at the numbers with which the
  frame it waits for began; `Between` says which functions wait for which.  Each function
  that catches has to be in order at the numbers that the frames an exception takes
  off leave it with, which is why the invariant speaks of what is to be done in
  `fz_always` and `fz_catch` (`onErr`) too.  What goes by exact numbers
  (`StrongAt`) is claimed under `Patient` only; the rest (`WeakAt`: there is a state
  wherever one is used) of every program.  `Parents` bounds `gparent`.
* **`MasksHold`** (`InterpretProofs`): `Spec => []MasksHeld`, with no assumption.
  What refers to a mask is counted as the number of places in a sequence
  (`HowMany`), of the states and of the calls that have taken one off for as long as
  they paint.  `Gains` says that an action that adds and takes off states changes the
  references at least as much as the number of places, `Softer` that one that
  only takes off frames leaves those that it does not take off as they are; an
  exception drops no mask, which is a leak (section 6) and keeps the inequality.
* **`NestedHolds`** (`InterpretNesting`): `Patient` implies `Spec => []Nested`.
  `Nested` is about numbers: the length of the device's stack, the clips of the
  current state, and a sum over the steps left of all calls. Inductive is what
  they are numbers of. `Leads` says that the steps a call has left take the
  brackets it has open, kind by kind and step by step, to those it is to leave
  (none, or the clip that a soft mask becomes); `Bears` says so of a call for
  its steps, for those of `fz_catch`, and for whichever soft mask the state will
  have. `Laid` puts the calls on the device one after another: the `i`-th was
  made when `X[i]` brackets were open, `D[i]` of them clips of the state, it has
  `own[i]` open itself, and clips of its states come after those. `Owes` is then
  the difference of the two positions of now (`OwesIs`; `TotalIs` shows by the
  least counterexample what the recursive sum is). `Grows` says that clips of
  states only add up, and which calls wait for which, so that what is popped is
  above whatever a caller has open. An exception merges the calls it takes off
  into the one that catches it (`Merged`), unless one of them owes a bracket:
  then it is `lost`, and `Fits` is claimed no longer, but `Grows` is. There is
  one lemma for each action; those on `Leads`, `Bears`, `Laid` and `Owes` are in
  `InterpretProofs`.
* **`BasicHolds`, `RefsExactHolds`, `LentStaysHolds`, `ReadsKeepHolds`**
  (`XrefProofs`), for any file that the layout assumption allows and any
  numbers of objects, clients, edits and saves.  `Basic` says that table,
  objects, clients and file fit together: counts are numbers of occurrences
  (`Good`, of a heap and of what refers to it from outside, `Ext`), what is
  inside of an object has nothing inside, numbers beyond the end have no entry
  (`Shape`, `Bare`).  Each change of the heap has a lemma about `Good` (`KeepGood`,
  `DropGood`, `NewGood`, `UnsetGood`, ...), each of the table one about entries
  (`SetCellIs`, `PushedIs`, `MovedIs`, `FilledIs`).  Loading is a chain of such
  changes of any length, which may end in the middle: `Stage` relates each state of
  it to the first one.  Nothing that is alive changes, no entry has anything
  taken away, what is new is as it is in the file, and there is room for the
  rest.  The loops (`pdf_load_obj_stm`, `pdf_free_xref_sections`) are recursive
  functions; what is claimed of them goes by the number of turns (`Turns`,
  `Climbs`).
* **`EditsKeptHolds`** and the refinement **`SavesHolds`** (`XrefProofs`):
  `Orderly` implies `Spec => []EditsKept` and that `Xref` implements `Document`.
  The invariant is `Kept`: besides `Basic`, that a number without an entry in the
  section for changes has the entry that the file has, that what it has cached
  looks like the file, and that it is edited as what it is (`Clean`, `OwnCell`:
  its parent is its number, or it has none as it came along with another);
  that no object is in two places (`Lone`: at most one reference is not a client's);
  and that object streams are where they were.  `EditsKept` is not
  inductive without those three: an object with the wrong parent, or with
  two owners, is still as in the file until it is edited.  An edit then
  touches the objects of one number only (`Edited`, `EditSpares`, `OneOwner`).
* **`RetrySucceedsHolds`** (`XrefProofs`): `Intact` implies
  `Spec => []RetrySucceeds`.  `Sound` says that what is not cached is where its
  entry leads to, in the table and in the file; edits need not be orderly.  That a
  stream has been unpacked in part before makes no difference: `UnpackLoads`
  shows that after all turns everything that the table has in it is cached.

`Undisturbed` is an assumption about the uses of the store: it has no
maximum, or else nobody closes documents or takes items back (which would
have to be while no other thread is inside `fz_store_item`), there are no static
values in it, and what is stored is not shared yet.  The code does not ensure it, and each of its parts
is needed: section 6 has a counterexample for each.  The theorems speak of any
number of threads, variables, items, values, keys and sizes, and of every
interleaving.

`Careful` is an assumption about programs: that an always block neither
throws nor nests a `fz_try` while the stack has overflowed.  The code does not
ensure it, and without it the refinement fails (section 6).

`Orderly` is an assumption about clients that edit: they do not edit what
`pdf_load_obj_stm` has cached along with what they asked for, do not put what one
object has into another, and move an object before they set its stream.  The
code does not ensure it, and without any of the three `EditsKept` fails (section
6).  `Intact` is an assumption about files: the object at an entry's place
has its number, object streams have what the table says is in them and
list no number beyond the table's end.  For other files the code repairs the
table, which is left out (section 7).

`Patient` is an assumption about the caller of the interpreter: if anything
the page needs may be missing, the cookie has `incomplete_ok`, so that
`FZ_ERROR_TRYLATER` does not pass a stream.  The code does not ensure it, and
without it `StatesKept` fails (section 6); `NestedHolds` has it because it
rests on `LevelsKept` for where the states of a call begin.

Only model-checked: all liveness properties, as the
prover has no fairness and no `ENABLED`; `PlineRebuild`, which follows the code
in being recursive.

## 6. Disagreements between the code and what is said of it

Three have a run (kind `code_bug` in `PROJECT.json`):

* `InterpretLater`: without `incomplete_ok`, `FZ_ERROR_TRYLATER` passes through
  `pdf_run_contents_stream` (pdf-interpret.c:2940), which then does not put
  `gbot` back.  `pdf_grestore` does nothing at `gbot`, and the loops that call
  it until enough states are gone (1571, 3023, 1203) never end.
  progressive.txt:118 says that the rendering aborts with the error.
* `DisplayMask`: `pdfapp_interpret` (pdfapp.cpp:970) pops for the clip that a
  soft mask becomes, which it never pushed; device.c:294 and the list's own
  replay treat it as a clip.
* `PlineErased`: segments that close a loop are erased and not drawn
  (rebuildPline.cpp:394), and so is the last segment of every width but the
  greatest (201); pdfapp.cpp:984 says that they are deleted once joined.  The
  option is off by default.

Others were seen with TLC while the modules were written.  The properties are
in the modules, and the constants below bring each counterexample about; the
constants not named are those of the run in brackets.

| property | constants | what happens |
|---|---|---|
| `Store!GivesUpLast` (StoreThreads) | `Thread = {t1}`, `Request = {8}`, `UIntMax = 63` | the comparison of store.c:615 is the wrong way round: a phase is skipped exactly when the request and the store exceed the phase's maximum, that is when there is something to free, so the allocator gives up while an item could be evicted (and when nothing need be freed, the unsigned difference of line 618 wraps and everything is evicted); context.h:241 says that blocks are evicted until the allocation succeeds |
| `Store!SizeBounded` (StoreThreads) | `Request = {8, 60}` | an item found by another thread while space is made for it is kept though no space was made (store.c:321): the store grows beyond `max` (store.h:102) |
| `Store!SizeExact` (StoreThreads) | `Removers = {t1, t2}` | `fz_remove_item` (store.c:448) does not subtract the item's size; store.c:28 says that the size is kept track of and kept below the maximum |
| `Store!NextKept` (StoreThreads) | `Closers = {t1, t2}` | `fz_empty_store` (store.c:466) evicts an item that `ensure_space` has pinned, against the comment at store.c:176 |
| `Store!NextKept` (StoreThreads) | `Removers = {t1, t2}` | `fz_remove_item` (store.c:427) does the same to an item that is pinned or being stored; pdf-pattern.c:78 and pdf-xobject.c:103 call it when loading what they have stored already fails |
| `Store!StaticStays` (StoreUnlimited) | `Thread = {t1, t2, t3}`, `Slot = {p1}`, `Item = {i1, i2, i3, i4}`, `Obj = {o1, o2, o3}`, `Key = {k1, k3}`, `Indexed = {k1}`, `StoreMax = 16`, `UIntMax = 63`, `Closers = {}`, `Removers = {}`, `StoreShared = FALSE` | `ensure_space` increments the count of a static value from -1 to 0 without looking at its sign (store.c:174), and the value is then taken for a counted one (store.c:77) |
| `Store!LastDropNotStored` (StoreThreads) | `StoreShared = TRUE` | the unlocked decrement of store.c:333 loses another thread's increment, and a stored value is freed (store.c:80) |
| `ErrorStack!ReservedSuffices` (ErrorCareful) | `Careful = FALSE` | a `fz_try` in the always block of a construct in the reserved slot fails the assertion of error.c:116 (always blocks of pdf-interpret.c, 1469 and 1564, call functions that use `fz_try`) |
| `ErrorStack!OverflowCoped` (ErrorCareful) | `Careful = FALSE` | a throw in that block jumps to a buffer that is not set, or that an earlier construct has left there |
| `ErrorStack!PassesOn` (ErrorCareful) | `Careful = FALSE` | `fz_rethrow` throws `errcode`, which an always block that caught something has changed (overview.txt:72) |
| `DisplayList!DevNested` (DisplayCull) | `IgnoreImage = TRUE` | a device with the hint is not given `CLIP_IMAGE_MASK` (list-device.c:804) and is given its `POP_CLIP` (807): it closes a bracket that is not its own, or none; the text device has the hint (stext-device.c:1014; mudraw.c:440 takes it away), and pops nothing itself |
| `DisplayList!CullSafe` without its premise (DisplayCull) | `Cells = {1, 2}`, `FillRect = {{1}}`, `OpenRect = {{1}, {2}}`, `Kind = {"clip", "text", "more"}`, `StackSize = 5`, `Caches = FALSE`, `MayFail = FALSE`, `MaxNodes = 10`, `MaxDepth = 4`, and for TLC the page: clips of 1, 1 and 2, text, text that adds to it, two ends, a fill of 1, two ends | text that adds to a clip is counted in `list->top` (list-device.c:119) and has no end that takes it off (727), so that the fill goes to the frame of the third clip, which is closed, and every later end pops the frame of a clip inside of its own; the second clip's frame is empty when the first one is closed (142), the second one is shrunk to nothing, and the fill inside is culled though it can be seen |
| `GlyphCache!CarriesOn` (GlyphThreads) | `ValKept = FALSE` | `val` is assigned in `fz_try` without `fz_var`, so that a `longjmp` may restore `NULL` when `fz_hash_insert` throws (draw-glyph.c:220, overview.txt:102) and the pixmap is lost |
| `Interpret!AllClosed` (InterpretPage) | as they are | an exception that passes `pdf_show_pattern` (1435), `pdf_show_path` or `pdf_run_page_contents_with_usage` leaves the tile, clip or group it opened open; pdf-interpret.c:376 swallows exceptions for the reason that "if we throw from here the clip stack would be messed up" |
| `Interpret!MasksDropped` (InterpretPage) | as they are | a soft mask is never dropped when an exception passes `pdf_show_path` between `begin_softmask` and `end_softmask`, when `end_softmask` puts it back into a state that has got another one meanwhile (402), or when `pdf_copy_pattern_gstate` overwrites it (1058); docs/refcount.txt |
| `Interpret!StatesKept` (InterpretPage) | `Cookies = {"strict"}`, `Faults = {"open", "later"}` | when `FZ_ERROR_TRYLATER` has passed a stream that a soft mask runs, `gbot` is the stream's, and `pdf_grestore` takes no state off; if `fz_end_group` then throws an error of its own, `begin_softmask` (pdf-interpret.c:374) swallows that one, and the caller goes on with a state too many |
| `Xref!EditsKept`, `Saves` (XrefEdits) | `Siblings = TRUE` | an object that `pdf_load_obj_stm` has cached along with another has no parent (pdf-xref.c:1317; `pdf_cache_object` returns at 1592 when it is asked for), so that `object_altered` (pdf-object.c:537) does nothing, and an incremental save leaves out what was changed in it; object.h:103 says that it is "later written out" |
| `Xref!EditsKept`, `Saves` (XrefEdits) | `Shares = TRUE` | a dictionary that is put into two objects has one parent (pdf-object.c:546): a change of it reaches the file in one of them |
| `Xref!EditsKept`, `Saves` (XrefEdits) | `StreamsMove = FALSE` | `pdf_update_stream` (pdf-xref.c:1798) changes an entry of an old section, which is not saved; pdf-appearance.c:1365 moves the object first |
| `Xref!LaterMeansMore` (XrefEdits) | a layout in which the object at an offset has another number | `fz_rethrow_message` (pdf-xref.c:1619) is called where nothing was caught and throws the last exception's code again, which may be `FZ_ERROR_TRYLATER` though everything is there (progressive.txt:106) |

In the display list, text that adds to a clip (`CLIP_TEXT` with `accumulate` 2)
is counted in `list->top` and never taken off, and `pdfapp_interpret` pushes such
text as well and never pops it (pdfapp.cpp:964), though list-device.c:727 says
"Accumulated text has no extra pops".  `CullSafe` and `InterpretFollows` leave such
pages out; `DevNested` holds of them.

## 7. What is assumed and left out in the modelled parts

* A stretch of code under a lock is atomic.  What runs outside of any lock in
  the store is the read and the write of line 333, which are apart.
* Freeing a value has no effect on the store.  (Free functions of values
  drop other values; that is a `Drop` by the same thread, which may come next.)
* Clients of the store own the references they drop, do not store a value
  under a key they have stored another one under (`pdf_store_item` asserts
  it) except through `StoreExisting`, and, in `StoreThreads`, store values
  that nobody else references yet.
* The list device is given brackets that nest.  `Nested` of `Interpret` shows
  that this is what the interpreter does, as long as nothing is `lost`, that is
  until an exception is thrown past one of the three places of section 6.
* `Interpret` leaves out hidden optional content, which takes painting away and
  no bracket; text that is put off until it ends, but for what becomes a
  clip; the references of fonts, colour spaces and patterns in a state,
  which are kept and dropped where those of its soft mask are; the current
  transformation; and errors of the parser, which are one more `generic`
  exception at a token.  A stroke is painted like a fill.  Text that
  becomes a clip within a blend group is `lost`.
* `Xref` begins when the tables have been read.  It leaves out parsing, repair
  (which begins anew), encryption, and linearized files with their hints.  An
  object is a dictionary with at most one other in it; arrays are edited
  by the same functions.  Dictionaries that edits put into each other do not
  nest more deeply.
* The files of `Xref` (`LayoutAssumption`) say nothing of numbers beyond their
  `/Size`, and have an object in an object stream only where that stream is an
  object of its own; what it has there under a number is what the table means by
  it.  Where an object stream is damaged the code throws, or repairs.
* Rectangles are sets of cells and transforms are left out: `fz_transform_rect`
  only enlarges what is compared.
* Stroke states, colours, names, messages, warnings and debug printing.

## 8. Not modelled, and the plan

Not modelled for good: decoding of bytes, pixel arithmetic, parsing of text
and user interfaces (`PROJECT.json` has each part with its reason).

What the plan has left, in order:

1. **`Progressive`**: linearized files: hints, `pdf_progressive_advance`, and pages
   that are found before the table is there, as a part of the environment of `Xref`.
2. **`Contexts`**: cloning and dropping with all shared parts, and the order of
   locks through `Store`, `HashTable` and `GlyphCache`.
3. **`DrawDevice`**: the stack of `fz_draw_device` under `DisplayList`, with the
   tile cache in the store.
4. **Algorithms** against reference definitions: cmap ranges, the page tree,
   marking and renumbering in `pdf-write.c`.

## 9. Running it

    tlc -config StoreThreads.cfg MCStore      (likewise for the other runs)
    tlapm StoreProofs.tla     (likewise HashProofs, ErrorProofs,
                               DisplayProofs, GlyphProofs, InterpretProofs,
                               InterpretNesting and XrefProofs)
