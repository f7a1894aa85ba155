---------------------------- MODULE DisplayList ----------------------------
(***************************************************************************)
(* A page's display list: how it is recorded (source/fitz/list-device.c)   *)
(* through the device layer (source/fitz/device.c), how it is replayed to  *)
(* another device through the same layer, nodes outside the scissor being  *)
(* culled, and how PDFConverter/pdfapp.cpp walks it.                       *)
(*                                                                         *)
(* The commands are grouped: "fill" stands for all that draw, "clip" for   *)
(* CLIP_PATH and CLIP_STROKE_PATH, "text" for CLIP_STROKE_TEXT and         *)
(* CLIP_TEXT with accumulate 0 or 1, "more" for CLIP_TEXT with accumulate  *)
(* 2, which adds to the clip before it, "image" for CLIP_IMAGE_MASK.  A    *)
(* rectangle is the set of cells it covers.                                *)
(***************************************************************************)
EXTENDS Integers, Sequences, FiniteSets, SequencesExt

(* A definition marked Slip is used nowhere: it is the definition that      *)
(* follows as a mistake in the code would have it.                         *)

CONSTANTS
  Cells,      \* the plane, 1..n
  FillRect,   \* the rectangles of what is drawn
  OpenRect,   \* the rectangles of clips, masks and groups
  Kind,       \* the kinds of brackets a page uses
  Scissor,    \* the rectangle the list is replayed for
  StackSize,  \* STACK_SIZE
  IgnoreImage,\* the FZ_IGNORE_IMAGE hint of the device it is replayed to
  Caches,     \* does that device cache tiles?
  MayFail,    \* may a device's function that opens a bracket throw?
  MaxNodes, MaxDepth  \* bounds for TLC

ASSUME ListAssumption ==
  /\ Cells \subseteq Int
  /\ FillRect \subseteq SUBSET Cells /\ OpenRect \subseteq SUBSET Cells
  /\ Scissor \subseteq Cells
  /\ Kind \subseteq {"clip", "text", "more", "image", "mask", "group", "tile"}
  /\ StackSize \in Nat \ {0}
  /\ IgnoreImage \in BOOLEAN /\ Caches \in BOOLEAN /\ MayFail \in BOOLEAN

VARIABLES
  list,  \* the fz_display_list: its nodes, and top, stack and tiled
  page,  \* the recording device: open, the brackets it has been given that
         \* are not closed yet, and err, its error_depth
  run,   \* fz_run_display_list: the node it is at, its clipped and tiled
  dev,   \* the device it replays to: open and err, as in page
  drawn  \* the nodes that the device layer was given to draw, in this replay
         \* or, the contents of a tile that is cached, in an earlier one
vars == <<list, page, run, dev, drawn>>

Clips == {"clip", "text", "image", "maskclip"}
EndOf(kind) == IF kind \in Clips THEN "pop"
               ELSE IF kind = "group" THEN "endgroup" ELSE "endtile"
Ends == {"pop", "endgroup", "endtile"}

\* fz_union_rect
Union(r, s) ==
  {c \in Cells : \E a, b \in r \cup s : a <= c /\ c <= b}

\* in is not in the code: the brackets the node is inside of, the one it closes
\* included, with the rectangles they were opened with
Node(cmd, rect, in) == [cmd |-> cmd, rect |-> rect, in |-> in]

Init ==
  /\ list = [node |-> << >>, top |-> 0, tiled |-> 0,
             stack |-> [n \in 1..StackSize |-> [update |-> 0, rect |-> {}]]]
  /\ page = [open |-> << >>, err |-> 0]
  /\ run = [at |-> 0, clipped |-> 0, tiled |-> 0]
  /\ dev = [open |-> << >>, err |-> 0]
  /\ drawn = {}

-----------------------------------------------------------------------------
(* fz_append_display_node                                                  *)

\* update: the node whose rectangle shrinks to its contents, 0 for none
Push(L, update) ==
  [L EXCEPT !.stack = IF L.top < StackSize
                      THEN [@ EXCEPT ![L.top + 1] =
                              [update |-> update, rect |-> {}]]
                      ELSE @,
            !.top = @ + 1]

\* the innermost clip has rect among its contents
Cover(L, rect) ==
  IF L.top \in 1..StackSize /\ L.tiled = 0
  THEN [L EXCEPT !.stack[L.top].rect = Union(@, rect)] ELSE L

Shrunk(L) ==
  LET top == L.stack[L.top]
  IN  IF top.update = 0 THEN top.rect
      ELSE L.node[top.update].rect \cap top.rect
\* Slip: what was clipped does not count as contents of the clip around it.
PopOuterMissed(L, n) ==
  [L EXCEPT !.top = @ - 1,
            !.node = IF L.top > StackSize \/ L.tiled > 0 \/ L.stack[L.top].update = 0
                     THEN @
                     ELSE [@ EXCEPT ![L.stack[L.top].update].rect = Shrunk(L)]]
Pop(L, n) ==
  IF L.top > StackSize
    THEN Cover([L EXCEPT !.top = @ - 1, !.node[n].rect = Cells], Cells)
  ELSE IF L.top = 0 THEN L
  ELSE IF L.tiled > 0
    THEN [L EXCEPT !.top = @ - 1, !.node[n].rect = Cells]
  ELSE LET update == L.stack[L.top].update
           node == IF update = 0 THEN L.node
                   ELSE [L.node EXCEPT ![update].rect = Shrunk(L)]
       IN  Cover([L EXCEPT !.top = @ - 1,
                           !.node = [node EXCEPT ![n].rect = Shrunk(L)]],
                 Shrunk(L))

BeginTile(L) ==
  [L EXCEPT !.tiled = @ + 1,
            !.stack = IF L.top \in 1..StackSize
                      THEN [@ EXCEPT ![L.top].rect = Cells] ELSE @]

Recorded(cmd, rect) ==
  LET n == Len(list.node) + 1
      L == [list EXCEPT !.node = Append(@, Node(cmd, rect, page.open))]
  IN  CASE cmd \in {"clip", "image"} -> Push(L, n)
        [] cmd \in {"endmask", "text", "more"} -> Push(L, 0)
        [] cmd = "tile" -> BeginTile(L)
        [] cmd = "endtile" -> [L EXCEPT !.tiled = @ - 1]
        [] cmd = "endgroup" -> L
        [] cmd = "pop" -> Pop(L, n)
        [] cmd \in {"fill", "mask", "group"} -> Cover(L, rect)

-----------------------------------------------------------------------------
(* device.c: what becomes of a device d, of which open is what the functions *)
(* behind the layer have been given                                        *)

\* Slip: brackets inside one that failed are not counted.
OpenUncounted(d, b) ==
  IF d.err > 0 THEN {d}
  ELSE {[d EXCEPT !.open = Append(@, b)]}
       \cup (IF MayFail THEN {[d EXCEPT !.err = 1]} ELSE {})
\* fz_clip_path and its like: an exception is kept for the end of the bracket
Open(d, b) ==
  IF d.err > 0 THEN {[d EXCEPT !.err = @ + 1]}
  ELSE {[d EXCEPT !.open = Append(@, b)]}
       \cup (IF MayFail THEN {[d EXCEPT !.err = 1]} ELSE {})
\* fz_pop_clip and its like; the exception thrown when err becomes 0 is caught
\* by the callers, in pdf_grestore and fz_run_display_list
Close(d) ==
  IF d.err > 0 THEN [d EXCEPT !.err = @ - 1]
  ELSE IF d.open = << >> THEN d
  ELSE [d EXCEPT !.open = Front(@)]
\* fz_end_mask
EndMask(d) ==
  IF d.err > 0 \/ d.open = << >> THEN d
  ELSE [d EXCEPT !.open[Len(d.open)] = [Last(d.open) EXCEPT !.kind = "maskclip"]]

-----------------------------------------------------------------------------
(* Recording: the interpreter calls the functions of the list device, with  *)
(* every bracket it opens closed.                                          *)

Recording == run.at = 0 /\ Len(list.node) < MaxNodes
Innermost(kinds) ==
  page.err = 0 /\ page.open # << >> /\ Last(page.open).kind \in kinds

RecordFill(rect) ==
  /\ Recording
  /\ list' = IF page.err > 0 THEN list ELSE Recorded("fill", rect)
  /\ UNCHANGED <<page, run, dev, drawn>>

\* the rectangle of a tile is not used
RecordOpen(kind, rect) ==
  /\ Recording /\ kind \in Kind \ {"more"}
  /\ kind = "tile" => rect = Cells
  /\ Len(page.open) + page.err < MaxDepth
  /\ page' \in Open(page, [kind |-> kind, rect |-> rect])
  /\ list' = IF page'.err > 0 THEN list ELSE Recorded(kind, rect)
  /\ UNCHANGED <<run, dev, drawn>>

\* pdf_flush_text: text that adds to the clip of the text before it
RecordMore ==
  /\ Recording /\ "more" \in Kind /\ Innermost({"text"})
  /\ list' = Recorded("more", Cells)
  /\ UNCHANGED <<page, run, dev, drawn>>

RecordEndMask ==
  /\ Recording /\ Innermost({"mask"})
  /\ list' = Recorded("endmask", {})
  /\ page' = EndMask(page)
  /\ UNCHANGED <<run, dev, drawn>>

RecordClose ==
  /\ run.at = 0
  /\ page.err > 0 \/ Innermost(Clips \cup {"group", "tile"})
  /\ list' = IF page.err > 0 THEN list
             ELSE Recorded(EndOf(Last(page.open).kind), {})
  /\ page' = Close(page)
  /\ UNCHANGED <<run, dev, drawn>>

Replay ==
  /\ run.at = 0 /\ page.open = << >> /\ page.err = 0
  /\ run' = [run EXCEPT !.at = 1]
  /\ UNCHANGED <<list, page, dev, drawn>>

-----------------------------------------------------------------------------
(* fz_run_display_list, one turn of its loop an action                     *)

Next1 == list.node[run.at]
Running == run.at \in 1..Len(list.node)
Empty ==
  /\ run.tiled = 0 /\ Next1.cmd \notin {"tile", "endtile"}
  /\ Next1.rect \cap Scissor = {}
\* what is culled; an end is empty and not culled when its begin was not
Skipped ==
  \/ run.clipped > 0
  \/ Empty /\ Next1.cmd \notin {"pop", "endgroup", "endmask"}

ClippedBy(cmd) ==
  IF cmd \in {"clip", "text", "image", "mask", "group"} THEN 1
  ELSE IF cmd \in {"pop", "endgroup"} THEN -1 ELSE 0

Skip ==
  /\ Running /\ Skipped
  /\ run' = [run EXCEPT !.at = @ + 1, !.clipped = @ + ClippedBy(Next1.cmd)]
  /\ UNCHANGED <<list, page, dev, drawn>>

Visible(cmds) == Running /\ ~Skipped /\ Next1.cmd \in cmds
Passed == [kind |-> Next1.cmd, rect |-> Next1.rect]
Step == run' = [run EXCEPT !.at = @ + 1]

Draw ==
  /\ Visible({"fill", "more"})
  /\ drawn' = drawn \cup {run.at}
  /\ Step /\ UNCHANGED <<list, page, dev>>

BeginBracket ==
  /\ Visible({"clip", "text", "image", "mask", "group"})
  /\ dev' \in IF Next1.cmd = "image" /\ IgnoreImage THEN {dev}
              ELSE Open(dev, Passed)
  /\ Step /\ UNCHANGED <<list, page, drawn>>

ReplayEndMask ==
  /\ Visible({"endmask"})
  /\ dev' = EndMask(dev)
  /\ Step /\ UNCHANGED <<list, page, drawn>>

EndBracket ==
  /\ Visible({"pop", "endgroup"})
  /\ dev' = Close(dev)
  /\ Step /\ UNCHANGED <<list, page, drawn>>

\* skip_to_end_tile: the node before the matching end, from which the loop
\* takes the next
EndOfTile(n) ==
  LET count(m, c) == Cardinality({k \in n..m : list.node[k].cmd = c})
  IN  Min({m \in n + 1..Len(list.node) : count(m, "tile") = count(m, "endtile")})

\* a device that has the tile cached, of an earlier replay, says so, and the
\* contents of the tile are skipped
ReplayTile ==
  /\ Visible({"tile"})
  /\ dev' \in Open(dev, Passed)
  /\ \E cached \in {FALSE, Caches /\ dev'.err = 0} :
       LET next == IF cached THEN EndOfTile(run.at) ELSE run.at + 1
       IN  /\ run' = [run EXCEPT !.at = next, !.tiled = @ + 1]
           /\ drawn' = drawn \cup run.at + 1..next - 1
  /\ UNCHANGED <<list, page>>

ReplayEndTile ==
  /\ Visible({"endtile"})
  /\ dev' = Close(dev)
  /\ run' = [run EXCEPT !.at = @ + 1, !.tiled = @ - 1]
  /\ UNCHANGED <<list, page, drawn>>

-----------------------------------------------------------------------------
(* pdfapp_interpret: the types on its stack of clips after n nodes.  (A pop *)
(* from an empty vector is undefined; here it stays empty.)                *)

\* Slip: clips by images are left out.
InterpretPathsOnly ==
  LET clips[n \in 0..Len(list.node)] ==
        IF n = 0 THEN << >>
        ELSE CASE list.node[n].cmd \in {"clip", "text", "more"} ->
                    Append(clips[n - 1], list.node[n].cmd)
               [] list.node[n].cmd = "pop" /\ clips[n - 1] # << >> ->
                    Front(clips[n - 1])
               [] OTHER -> clips[n - 1]
  IN  clips
Interpret ==
  LET clips[n \in 0..Len(list.node)] ==
        IF n = 0 THEN << >>
        ELSE CASE list.node[n].cmd \in {"clip", "text", "more", "image"} ->
                    Append(clips[n - 1], list.node[n].cmd)
               [] list.node[n].cmd = "pop" /\ clips[n - 1] # << >> ->
                    Front(clips[n - 1])
               [] OTHER -> clips[n - 1]
  IN  clips

-----------------------------------------------------------------------------
Next ==
  \/ \E rect \in FillRect : RecordFill(rect)
  \/ \E kind \in Kind, rect \in OpenRect : RecordOpen(kind, rect)
  \/ RecordMore \/ RecordEndMask \/ RecordClose \/ Replay
  \/ Skip \/ Draw \/ BeginBracket \/ ReplayEndMask \/ EndBracket
  \/ ReplayTile \/ ReplayEndTile

Spec == Init /\ [][Next]_vars

-----------------------------------------------------------------------------
(* Properties                                                              *)

Kinds(brackets) == [i \in DOMAIN brackets |-> brackets[i].kind]
Among(kinds, s) == Cardinality({i \in DOMAIN s : s[i] \in kinds})

\* The device a list is replayed to is given properly nested brackets: what it
\* has open are the outermost of those around the node, the ones after them
\* have failed (error_depth), and those after these are culled (clipped).
DevNested ==
  LET in == Kinds(IF Running THEN Next1.in ELSE page.open)
      open == Kinds(dev.open)
      begun == Len(open) + dev.err
      culled == SubSeq(in, begun + 1, Len(in))
  IN  run.at > 0 =>
        /\ begun <= Len(in)
        /\ open = SubSeq(in, 1, Len(open))
        /\ run.clipped = Len(culled) - Among({"tile"}, culled)
        /\ run.clipped = 0 => culled = << >>
        /\ run.tiled = Among({"tile"}, SubSeq(in, 1, begun))

\* Where node n can be seen: in its rectangle, and that of every bracket it is
\* in, as they were recorded, up to the first tile, whose contents repeat.
Reach(n) ==
  LET node == list.node[n]
      tiles == {i \in DOMAIN node.in : node.in[i].kind = "tile"}
      outside == {i \in DOMAIN node.in : \A j \in tiles : i < j}
  IN  {c \in Scissor : /\ \A i \in outside : c \in node.in[i].rect
                       /\ tiles = {} => c \in node.rect}

\* Culling, by the rectangles that fz_append_display_node has shrunk to the
\* contents, leaves nothing out that can be seen within the scissor, on a page
\* without text that adds to a clip: for that, list->top is incremented and never
\* decremented, so that later clips are shrunk to what is not in them.
CullSafe ==
  (\A m \in DOMAIN list.node : list.node[m].cmd # "more") =>
    \A n \in 1..run.at - 1 :
      list.node[n].cmd = "fill" /\ Reach(n) # {} => n \in drawn

\* device.c:294: fz_end_mask "converts from mask to clip", which a POP_CLIP
\* ends: pdfapp_interpret never pops from an empty stack.
InterpretPops ==
  \A n \in DOMAIN list.node :
    list.node[n].cmd = "pop" => Interpret[n - 1] # << >>

\* The stack of pdfapp_interpret holds, at each node, the clips the node is
\* inside of, on a page without soft masks and text that adds to a clip (of
\* which list-device.c:727 says "Accumulated text has no extra pops").
InterpretFollows ==
  \A n \in DOMAIN list.node :
    /\ list.node[n].cmd = "fill"
    /\ \A m \in 1..n : list.node[m].cmd \notin {"mask", "more"}
    => LET in == Kinds(list.node[n].in)
           clips(i) == {j \in DOMAIN in : j <= i /\ in[j] \in Clips}
       IN  /\ Len(Interpret[n - 1]) = Cardinality(clips(Len(in)))
           /\ \A i \in clips(Len(in)) :
                Interpret[n - 1][Cardinality(clips(i))] = in[i]
=============================================================================
