-------------------------------- MODULE Xref --------------------------------
(***************************************************************************)
(* The objects of a PDF document: the cross-reference sections of          *)
(* source/pdf/pdf-xref.c, newest first, the objects they have cached, and  *)
(* what edits (source/pdf/pdf-object.c) do to both, up to an incremental   *)
(* save (source/pdf/pdf-write.c).  An object is a dictionary that may have *)
(* another one in it, and may have a stream.                               *)
(***************************************************************************)
EXTENDS Integers, Sequences, FiniteSets, FiniteSetsExt

(* A definition marked Slip is used nowhere: it is the definition that      *)
(* follows as a mistake in the code would have it.                         *)

CONSTANTS
  MaxNum,     \* a bound for TLC: the greatest number an object may get
  MaxObj,     \* a bound for TLC: how many objects there are in memory
  MaxEdits,   \* a bound for TLC
  MaxSaves,   \* a bound for TLC
  Held,       \* the variables of a client that keep an object
  Layout,     \* the sections of the file, newest first; the ofs of an entry is
              \* the number of its object stream, or of what is at its offset
  FileLen,    \* /Size of the file's trailer
  Inside,     \* what is in an object stream, in order, by number
  Streamed,   \* does the file arrive while it is read (stream-prog.c)?
  Siblings,   \* may clients edit what pdf_load_obj_stm has cached along with
              \* what was asked for?
  Shares,     \* may clients put what a document has into another object?
  StreamsMove \* do clients call pdf_xref_ensure_incremental_object before
              \* pdf_update_stream, as pdf-appearance.c:1365 does?

Num == 1..MaxNum
Obj == 1..MaxObj
NULL == 0

\* the contents of an object: 0 is null, no dictionary inside, no stream
Content == [val : Nat, kid : Nat, stm : Nat]
Nothing == [val |-> 0, kid |-> 0, stm |-> 0]

\* the object streams: objects of their own, that are not in other ones
Streams ==
  {m \in 1..FileLen :
     /\ Inside[m] # << >>
     /\ \E j \in DOMAIN Layout :
          Layout[j][m].type = "n" /\ \A i \in 1..j - 1 : Layout[i][m].type = "undefined"}
\* what is in stream m with number n is what an entry has there
Tells(m, n, at) == \A i \in DOMAIN Inside[m] : Inside[m][i].num = n => Inside[m][i].at = at

ASSUME BoundsAssumption ==
  /\ MaxNum \in Nat /\ MaxObj \in Nat /\ MaxEdits \in Nat /\ MaxSaves \in Nat
  /\ IsFiniteSet(Held)
ASSUME LayoutAssumption ==
  /\ Layout \in Seq([Num -> [type : {"undefined", "f", "n", "o"},
                             ofs : Num \cup {0}, at : Content]])
  /\ Layout # << >> /\ FileLen \in 0..MaxNum
  /\ Inside \in [Num -> Seq([num : Num, at : Content])]
  /\ \A j \in DOMAIN Layout, n \in Num :
       /\ n > FileLen => Layout[j][n].type = "undefined"
       /\ Layout[j][n].type = "o" =>
            Layout[j][n].ofs \in Streams /\ Tells(Layout[j][n].ofs, n, Layout[j][n].at)
  /\ Streamed \in BOOLEAN /\ Shares \in BOOLEAN /\ Siblings \in BOOLEAN /\ StreamsMove \in BOOLEAN

VARIABLES
  sections,  \* doc->xref_sections: the entries by number
  altered,   \* doc->xref_altered: is the first section one for changes?
  len,       \* pdf_xref_len
  objs,      \* the objects in memory
  held,      \* those that a client has kept
  arrived,   \* how much of each object's data is there
  code,      \* errcode of the last exception: "later" is FZ_ERROR_TRYLATER
  file,      \* the sections in the file and its /Size
  edits
vars == <<sections, altered, len, objs, held, arrived, code, file, edits>>
Reading == <<arrived, code, file>>

Unused == [refs |-> 0, parent |-> 0, val |-> 0, kid |-> NULL]
NoEntry == [type |-> "undefined", ofs |-> 0, at |-> Nothing, obj |-> NULL, buf |-> 0]
Read(s) == [j \in DOMAIN s |-> [n \in Num |->
             [type |-> s[j][n].type, ofs |-> s[j][n].ofs, at |-> s[j][n].at,
              obj |-> NULL, buf |-> 0]]]
\* what of the file is object n: itself, and what is in it if it is an object
\* stream
Whole == [n \in Num |-> IF \E j \in DOMAIN Layout : Layout[j][n].type = "n"
                        THEN 1 + Len(Inside[n]) ELSE 0]
\* object streams are not edited: only entries refer to them
Editable == {n \in 1..len : Inside[n] = << >>}

Init ==
  /\ sections = Read(Layout) /\ altered = FALSE /\ len = FileLen
  /\ file = [secs |-> Layout, len |-> FileLen]
  /\ objs = [o \in Obj |-> Unused]
  /\ held = [h \in Held |-> NULL]
  /\ arrived = IF Streamed THEN [n \in Num |-> 0] ELSE Whole
  /\ code = "other" /\ edits = 0

-----------------------------------------------------------------------------
(* Objects in memory                                                       *)

Free(h) == {o \in Obj : h[o].refs = 0}
Room(n) == Cardinality(Free(objs)) >= n

\* an object as it is parsed, with one reference, and where it is (which makes no
\* difference: that of number n has a place of its own, if it is free)
Place(free, p) == IF p \in free THEN p ELSE Max(free)
\* an object in memory, as it is after parsing
Built(h, o, val, kid) ==
  [h EXCEPT ![o] = [refs |-> 1, parent |-> 0, val |-> val, kid |-> kid]]
WithKid(h, c, root, kid) ==
  [obj |-> root, h |-> Built(Built(h, kid, c.kid, NULL), root, c.val, kid)]
At(h, c, n, root) ==
  IF c.kid = 0 THEN [obj |-> root, h |-> Built(h, root, c.val, NULL)]
  ELSE WithKid(h, c, root, Place(Free(h) \ {root}, MaxNum + n))
New(h, c, n) == At(h, c, n, Place(Free(h), n))

Keep(h, o) == [h EXCEPT ![o].refs = @ + 1]
Less(h, o) ==
  IF h[o].refs = 1 THEN [h EXCEPT ![o] = Unused] ELSE [h EXCEPT ![o].refs = @ - 1]
\* pdf_drop_obj
Drop(h, o) ==
  CASE o = NULL -> h
    [] o # NULL /\ h[o].refs = 1 /\ h[o].kid # NULL -> Less(Less(h, o), h[o].kid)
    [] OTHER -> Less(h, o)
\* Slip: what is inside keeps the parent it had.
SetParentOnly(h, o, n) == [p \in Obj |-> IF p = o THEN [h[p] EXCEPT !.parent = n] ELSE h[p]]
\* pdf_set_obj_parent
SetParent(h, o, n) ==
  [p \in Obj |-> IF p # NULL /\ o # NULL /\ (p = o \/ p = h[o].kid)
                 THEN [h[p] EXCEPT !.parent = n] ELSE h[p]]

-----------------------------------------------------------------------------
(* Entries                                                                 *)

\* the section that pdf_get_xref_entry finds
Where(s, n) ==
  LET defined == {j \in DOMAIN s : s[j][n].type # "undefined"}
  IN  IF defined = {} THEN 1 ELSE Min(defined)
Entry(s, n) == s[Where(s, n)][n]

\* ensure_incremental_xref
Incremental ==
  IF altered THEN sections ELSE <<[n \in Num |-> NoEntry]>> \o sections
\* Slip: the older section keeps the object, too.
MovedCopies(n) ==
  LET s == Incremental
  IN  [s EXCEPT ![1][n] = Entry(s, n)]
\* pdf_xref_ensure_incremental_object
Moved(n) ==
  LET s == Incremental
      j == Where(s, n)
  IN  IF j = 1 THEN s
      ELSE [s EXCEPT ![1][n] = s[j][n], ![j][n].obj = NULL, ![j][n].buf = 0]
\* Slip: objects that have been deleted are left out.
IsIncrementalLive(n) == altered /\ sections[1][n].type = "n"
\* pdf_xref_is_incremental
IsIncremental(n) == altered /\ sections[1][n].type # "undefined"

-----------------------------------------------------------------------------
(* Loading: from sections s and objects h to those there are then, and     *)
(* what is thrown                                                          *)

Loaded(s, h) == [s |-> s, h |-> h, err |-> "none"]
Fails(s, h, err) == [s |-> s, h |-> h, err |-> err]
Cached(s, n, new) ==
  Loaded([s EXCEPT ![Where(s, n)][n].obj = new.obj], new.h)

\* an entry of type n
CacheIndirect(s, h, n) ==
  IF arrived[n] = 0 /\ Whole[n] > 0 THEN Fails(s, h, "later")
  ELSE IF Entry(s, n).ofs # n
  THEN \* fz_rethrow_message, where nothing has been caught
       Fails(s, h, code)
  ELSE Cached(s, n, New(h, Entry(s, n).at, n))

\* Slip: what an object stream has is taken whatever the table says.
UnpackingAny(c, x, m) ==
  IF Entry(c.s, x.num).obj = NULL THEN Cached(c.s, x.num, New(c.h, x.at, x.num)) ELSE c
\* Slip: what is cached is replaced.
UnpackingReplaces(c, x, m) ==
  IF Entry(c.s, x.num).type = "o" /\ Entry(c.s, x.num).ofs = m
  THEN Cached(c.s, x.num, New(Drop(c.h, Entry(c.s, x.num).obj), x.at, x.num))
  ELSE c
\* one turn of pdf_load_obj_stm: x, of stream m, is cached if the table says that
\* it is there, and if it is not cached yet
Unpacking(c, x, m) ==
  LET e == Entry(c.s, x.num)
  IN  CASE c.err # "none" -> c
        [] c.err = "none" /\ x.num > len -> Fails(c.s, c.h, "other")
        [] c.err = "none" /\ x.num <= len /\ e.type = "o" /\ e.ofs = m /\ e.obj = NULL ->
             Cached(c.s, x.num, New(c.h, x.at, x.num))
        [] OTHER -> c
\* what there is of object stream m, after the object that it is itself, is cached
Unpack(s, h, m) ==
  LET to[i \in 0..1 + Len(Inside[m])] ==
        IF i <= 1 THEN Loaded(s, h) ELSE Unpacking(to[i - 1], Inside[m][i - 1], m)
  IN  to[arrived[m]]
Unpacked(all, m, n) ==
  CASE all.err # "none" -> all
    [] all.err = "none" /\ arrived[m] < Whole[m] -> Fails(all.s, all.h, "later")
    [] all.err = "none" /\ arrived[m] = Whole[m] /\ Entry(all.s, n).obj = NULL ->
         Fails(all.s, all.h, "other")
    [] OTHER -> all
\* stream is what loading object stream m has come to
FromStream(stream, m, n) ==
  IF stream.err # "none" THEN stream
  ELSE Unpacked(Unpack(stream.s, SetParent(stream.h, Entry(stream.s, m).obj, m), m), m, n)
\* Slip: a stream that has been loaded is taken to be unpacked.
CacheInsideOnce(s, h, n) ==
  LET m == Entry(s, n).ofs
  IN  IF Entry(s, m).obj # NULL THEN Fails(s, h, "other")
      ELSE FromStream(CacheIndirect(s, h, m), m, n)
\* an entry of type o
CacheInside(s, h, n) ==
  LET m == Entry(s, n).ofs
  IN  FromStream(IF Entry(s, m).obj # NULL THEN Loaded(s, h) ELSE CacheIndirect(s, h, m), m, n)

\* an entry that has nothing cached
CacheEntry(n) ==
  LET type == Entry(sections, n).type
  IN  CASE type = "f" -> Cached(sections, n, New(objs, Nothing, n))
        [] type = "n" -> CacheIndirect(sections, objs, n)
        [] type = "o" -> CacheInside(sections, objs, n)
        [] type = "undefined" ->
             \* linear_pos stays at 0 unless the file is linearized
             Fails(sections, objs, IF Streamed THEN "later" ELSE "other")
WithParent(c, n) ==
  IF c.err # "none" THEN c ELSE [c EXCEPT !.h = SetParent(@, Entry(c.s, n).obj, n)]
\* pdf_cache_object
Cache(n) ==
  IF n > len THEN Fails(sections, objs, "other")
  ELSE IF Entry(sections, n).obj # NULL THEN Loaded(sections, objs)
  ELSE WithParent(CacheEntry(n), n)
\* the most that caching one object can take
Loadable == Room(2 * Cardinality(Num))

Threw(err) == code' = IF err = "none" THEN code ELSE err
\* pdf_load_object
Load(n, h) ==
  /\ Loadable /\ held[h] = NULL
  /\ \E c \in {Cache(n)} :
       LET obj == Entry(c.s, n).obj
       IN  /\ sections' = c.s
           /\ IF c.err = "none"
              THEN objs' = Keep(c.h, obj) /\ held' = [held EXCEPT ![h] = obj]
              ELSE objs' = c.h /\ UNCHANGED held
           /\ Threw(c.err)
  /\ UNCHANGED <<altered, len, arrived, file, edits>>
\* pdf_resolve_indirect, which returns NULL for what cannot be read
Resolve(n) ==
  /\ Loadable
  /\ \E c \in {Cache(n)} : sections' = c.s /\ objs' = c.h /\ Threw(c.err)
  /\ UNCHANGED <<altered, len, held, arrived, file, edits>>

\* pdf_drop_obj by a client
Release(h) ==
  /\ held[h] # NULL
  /\ objs' = Drop(objs, held[h])
  /\ held' = [held EXCEPT ![h] = NULL]
  /\ UNCHANGED <<sections, altered, len, Reading, edits>>

\* more of the file is there
Arrive(n) ==
  /\ arrived[n] < Whole[n]
  /\ arrived' = [arrived EXCEPT ![n] = @ + 1]
  /\ UNCHANGED <<sections, altered, len, objs, held, code, file, edits>>

-----------------------------------------------------------------------------
(* Edits                                                                   *)

\* what a client may have in its hands: what it has kept, and what
\* pdf_resolve_indirect returns
Known == ({held[h] : h \in Held} \cup {Entry(sections, n).obj : n \in Num}) \ {NULL}
Inner == {objs[o].kid : o \in Known} \ {NULL}
Owned == (UNION {{sections[j][n].obj : n \in Num} : j \in DOMAIN sections})
         \cup {objs[o].kid : o \in Obj}

\* a value that is used nowhere else
Fresh == edits + 1

\* object_altered
Altered(o) ==
  LET n == objs[o].parent
  IN  IF n = 0 THEN UNCHANGED <<sections, altered>>
      ELSE sections' = Moved(n) /\ altered' = TRUE

\* what a client may edit
Mine(o) ==
  \/ objs[o].parent \in Editable
  \/ /\ objs[o].parent = 0
     /\ \/ Siblings
        \/ \A j \in DOMAIN sections, n \in Num :
             LET e == sections[j][n]
             IN  ~(e.type = "o" /\ e.obj # NULL /\ o \in {e.obj, objs[e.obj].kid})

\* pdf_dict_put and the like, of a number or a name
Put(o) ==
  /\ o \in Known \cup Inner /\ objs[o].val # 0
  /\ Mine(o)
  /\ objs' = [objs EXCEPT ![o].val = Fresh]
  /\ Altered(o)
  /\ UNCHANGED <<len, held, Reading>>
\* pdf_dict_put of a dictionary
PutDict(o, v) ==
  /\ Mine(o)
  /\ o \in Known \ Inner /\ v \in Known \cup Inner /\ v # o
  /\ objs[o].val # 0 /\ objs[v].val # 0 /\ objs[v].kid = NULL
  /\ o \notin {objs[p].kid : p \in Obj}
  /\ Shares \/ v \notin Owned
  /\ LET put == IF objs[o].kid = v THEN objs
                ELSE [Keep(Drop(objs, objs[o].kid), v) EXCEPT ![o].kid = v]
     IN  objs' = IF objs[o].parent = 0 THEN put ELSE SetParent(put, v, objs[o].parent)
  /\ Altered(o)
  /\ UNCHANGED <<len, held, Reading>>
\* pdf_dict_dels
Del(o) ==
  /\ Mine(o)
  /\ o \in Known /\ objs[o].kid # NULL
  /\ objs' = [Drop(objs, objs[o].kid) EXCEPT ![o].kid = NULL]
  /\ Altered(o)
  /\ UNCHANGED <<len, held, Reading>>
\* pdf_new_dict
NewDict(h) ==
  /\ held[h] = NULL /\ Room(1)
  /\ LET new == New(objs, [Nothing EXCEPT !.val = Fresh], MaxObj)
     IN  objs' = new.h /\ held' = [held EXCEPT ![h] = new.obj]
  /\ UNCHANGED <<sections, altered, len, Reading>>

\* pdf_create_object
Create ==
  /\ len < MaxNum
  /\ len' = len + 1 /\ altered' = TRUE
  /\ sections' = [Incremental EXCEPT ![1][len + 1] = [NoEntry EXCEPT !.type = "f"]]
  /\ UNCHANGED <<objs, held, Reading>>
\* pdf_delete_object
Delete(n) ==
  /\ n \in Editable
  /\ LET s == Incremental
     IN  /\ objs' = Drop(objs, s[1][n].obj)
         /\ sections' = [s EXCEPT ![1][n] = [NoEntry EXCEPT !.type = "f"]]
  /\ altered' = TRUE
  /\ UNCHANGED <<len, held, Reading>>
\* pdf_update_object
Update(n, h) ==
  /\ n \in Editable /\ held[h] # NULL /\ objs[held[h]].val # 0
  /\ Shares \/ held[h] \notin Owned
  /\ LET s == Incremental
     IN  /\ objs' = Keep(Drop(objs, s[1][n].obj), held[h])
         /\ sections' = [s EXCEPT ![1][n].type = "n", ![1][n].ofs = 0, ![1][n].obj = held[h]]
  /\ altered' = TRUE
  /\ UNCHANGED <<len, held, Reading>>
\* pdf_update_stream, for an object that is loaded
UpdateStream(n) ==
  /\ n \in Editable
  /\ Entry(sections, n).obj # NULL /\ Entry(sections, n).type # "f"
  /\ LET s == IF StreamsMove THEN Moved(n) ELSE sections
     IN  sections' = [s EXCEPT ![Where(s, n)][n].buf = Fresh]
  /\ altered' = (altered \/ StreamsMove)
  /\ UNCHANGED <<len, objs, held, Reading>>

-----------------------------------------------------------------------------
(* Saving and opening                                                      *)

\* object n as it is read
Value(n) ==
  LET e == Entry(sections, n)
      stm == IF e.buf # 0 THEN e.buf ELSE e.at.stm
  IN  IF n > len \/ e.type \in {"undefined", "f"} THEN Nothing
      ELSE IF e.obj = NULL THEN [e.at EXCEPT !.stm = stm]
      ELSE [val |-> objs[e.obj].val, stm |-> stm,
            kid |-> IF objs[e.obj].kid = NULL THEN 0 ELSE objs[objs[e.obj].kid].val]
\* object n as it is in the file
InFile(n) ==
  LET e == Entry(file.secs, n)
  IN  IF n > file.len \/ e.type \in {"undefined", "f"} THEN Nothing ELSE e.at

\* pdf_write_document with do_incremental: the entries that
\* pdf_xref_is_incremental
SaveIncremental ==
  /\ altered /\ arrived = Whole /\ Len(file.secs) < Len(Layout) + MaxSaves
  /\ LET section == [n \in Num |->
           CASE ~IsIncremental(n) -> [type |-> "undefined", ofs |-> 0, at |-> Nothing]
             [] IsIncremental(n) /\ sections[1][n].type = "f" ->
                  [type |-> "f", ofs |-> 0, at |-> Nothing]
             [] OTHER -> [type |-> "n", ofs |-> n, at |-> Value(n)]]
     IN  file' = [secs |-> <<section>> \o file.secs, len |-> len]
  /\ UNCHANGED <<sections, altered, len, objs, held, arrived, code, edits>>

\* pdf_free_xref_sections
Emptied(h, section) ==
  LET to[n \in 0..MaxNum] == IF n = 0 THEN h ELSE Drop(to[n - 1], section[n].obj)
  IN  to[MaxNum]
Freed(h, s) ==
  LET to[j \in 0..Len(s)] == IF j = 0 THEN h ELSE Emptied(to[j - 1], s[j])
  IN  to[Len(s)]
\* pdf_close_document, of a document that nobody refers to, and
\* pdf_open_document
Reopen ==
  /\ \A h \in Held : held[h] = NULL
  /\ objs' = Freed(objs, sections)
  /\ sections' = Read(file.secs) /\ altered' = FALSE /\ len' = file.len
  /\ UNCHANGED <<held, arrived, code, file, edits>>

Reads ==
  \/ \E n \in Num : Resolve(n) \/ Arrive(n) \/ \E h \in Held : Load(n, h)
  \/ \E h \in Held : Release(h)
\* an edit may load anything: none is made before the file is there
Edits ==
  /\ arrived = Whole /\ edits < MaxEdits /\ edits' = edits + 1
  /\ \/ \E o \in Obj : Put(o) \/ Del(o) \/ \E v \in Obj : PutDict(o, v)
     \/ \E h \in Held : NewDict(h)
     \/ Create
     \/ \E n \in Num : Delete(n) \/ UpdateStream(n) \/ \E h \in Held : Update(n, h)
Next == Reads \/ Edits \/ SaveIncremental \/ Reopen

Spec == Init /\ [][Next]_vars

-----------------------------------------------------------------------------
\* An object is freed when the last entry, dictionary and client that refers to
\* it has dropped it: not before, and no later than when the document is closed.
RefsExact ==
  \A o \in Obj :
    objs[o].refs = Cardinality({x \in (DOMAIN sections) \X Num : sections[x[1]][x[2]].obj = o})
                   + Cardinality({p \in Obj : objs[p].kid = o})
                   + Cardinality({h \in Held : held[h] = o})

\* What pdf_resolve_indirect has returned, and its caller has not kept, is
\* what is read under that number until it is updated or deleted, whatever
\* else is loaded, moved, edited or fails to load meanwhile.
LentStays ==
  [][\A n \in Num :
       LET obj == Entry(sections, n).obj
       IN  obj # NULL /\ (Entry(sections, n).obj' # obj \/ objs'[obj].refs = 0)
             => Reopen \/ Delete(n) \/ \E h \in Held : Update(n, h)]_vars

\* "The whole containing hierarchy is moved to the incremental xref section, so
\* to be later written out" (object.h:103): an object that is not in it is as
\* it is in the file.
EditsKept == \A n \in 1..len : IsIncremental(n) \/ Value(n) = InFile(n)

\* Loading caches what is read anyway, also when it fails half way, and once
\* the file is there, what failed before can be loaded.
ReadsKeep ==
  [][(\E n \in Num : Value(n)' # Value(n)) => ~Reads]_vars
RetrySucceeds ==
  arrived = Whole /\ Loadable =>
    \A n \in 1..len : Entry(sections, n).type = "undefined" \/ Cache(n).err = "none"

\* FZ_ERROR_TRYLATER means "that more data is required" (docs/progressive.txt:106).
LaterMeansMore ==
  arrived = Whole /\ Loadable => \A n \in 1..len : Cache(n).err # "later"

\* Edits change one object at a time, an incremental save writes the document
\* as it is, and opening the file again gives it back.
Durable == INSTANCE Document WITH
  value <- [n \in Num |-> Value(n)], disk <- [n \in Num |-> InFile(n)]
Saves == Durable!Spec
=============================================================================
