------------------------------ MODULE Interpret ------------------------------
(***************************************************************************)
(* source/pdf/pdf-interpret.c runs a page on a device through the calls of *)
(* source/fitz/device.c.  Content streams call each other: a form, the     *)
(* form of a soft mask and the cell of a pattern are streams of their own, *)
(* run with the graphics states of their caller below theirs.  What a call *)
(* has still to do is kept in a frame, and an exception passes the frames  *)
(* to the one that catches it.                                             *)
(***************************************************************************)
EXTENDS Integers, Sequences, FiniteSets, SequencesExt, FiniteSetsExt

(* A definition marked Slip is used nowhere: it is the definition that      *)
(* follows as a mistake in the code would have it.                         *)

CONSTANTS
  Forms,      \* XObjects of subtype Form
  Groups,     \* those that are transparency groups
  None,       \* the null pointer
  Tokens,     \* the operators that contents may use
  Faults,     \* "contents": a stream cannot be opened; "draw" and "open": the
              \* device fails to paint, to open a bracket; "later": data are
              \* not there yet (FZ_ERROR_TRYLATER)
  Cookies,    \* "none", "strict": without incomplete_ok, "lenient": with it
  Annots,     \* how many annotations the page has
  MaxTokens   \* a bound for TLC

ASSUME FormsAssumption == Groups \subseteq Forms /\ None \notin Forms
ASSUME RunsAssumption == /\ Cookies \subseteq {"none", "strict", "lenient"}
                         /\ Cookies # {} /\ Annots \in Nat /\ MaxTokens \in Nat

VARIABLES
  gs,      \* pdf_csi.gstate, up to gtop; empty while there is no pdf_csi
  csi,     \* of pdf_csi: gbot, gparent, clip and accumulate
  calls,   \* the C stack, innermost last
  dev,     \* of the device: the brackets that are open, error_depth, and
           \* whether one was closed as what it is not
  refs,    \* the references to each soft mask the interpreter has kept
  marked,  \* the forms that pdf_mark_obj has marked
  cookie,
  read,    \* how many operators have been run
  lost     \* has an exception passed a call that had a bracket to close, or was
           \* one left open in a group that is closed before it?
vars == <<gs, csi, calls, dev, refs, marked, cookie, read, lost>>

Here == calls[Len(calls)]
State == gs[Len(gs)]
Open(kind) == <<"open", kind>>
Close(kind) == <<"close", kind>>
Do(what) == <<what>>

\* what is next: the first step of the innermost call
Next1(step) == calls # << >> /\ Here.todo # << >> /\ Here.todo[1][1] = step
Goes(frame) == [calls EXCEPT ![Len(calls)] = frame]
Then(steps) == Goes([Here EXCEPT !.todo = steps \o Tail(@)])
Past == Then(<< >>)

\* a call: its steps, what it does when an exception comes to it, and, of the
\* caller's, what it puts back
Frame(fn, todo, onErr) ==
  [fn |-> fn, todo |-> todo, onErr |-> onErr, pend |-> "none",
   base |-> Len(gs), keep |-> Len(gs), gbot |-> csi.gbot,
   gparent |-> csi.gparent, soft |-> None, form |-> None]
Calls(frame) == Append(Past, frame)

NewState == [clips |-> 0, soft |-> None, blend |-> FALSE,
             fill |-> "colour", from |-> 0]
NewCsi == [gbot |-> 1, gparent |-> 1, clip |-> FALSE, accumulate |-> 1]

Init ==
  /\ gs = << >> /\ csi = NewCsi /\ read = 0 /\ lost = FALSE
  /\ dev = [open |-> << >>, err |-> 0, wrong |-> FALSE]
  /\ refs = [m \in Forms |-> 0] /\ marked = {}
  /\ cookie \in Cookies
  /\ calls = <<Frame("page", <<Do("page")>> \o [i \in 1..Annots |-> Do("annot")],
                     << >>)>>

-----------------------------------------------------------------------------
(* Exceptions                                                              *)

\* The brackets that a call closes in what is left of it.
Net(f, step) ==
  CASE step[1] = "close" -> 1
    [] step[1] = "open" -> -1
    [] step[1] = "unmask" -> IF f.soft = None THEN 0 ELSE 1
    [] step[1] = "end blend" -> IF gs[f.base].blend THEN 1 ELSE 0
    [] OTHER -> 0
\* the sum of the first n of ns
Total(n, ns) ==
  LET sum[k \in 0..n] == IF k = 0 THEN 0 ELSE sum[k - 1] + ns[k]
  IN  sum[n]
Closes(f) == Total(Len(f.todo), [j \in 1..Len(f.todo) |-> Net(f, f.todo[j])])
Owes(fs) == Total(Len(fs), [i \in 1..Len(fs) |-> Closes(fs[i])])

\* fz_catch swallows an exception or fz_always has something to do; only
\* pdf_run_stream and begin_softmask do not throw it again
Stops(f, e) ==
  CASE f.fn = "stream" -> e # "later" \/ cookie = "lenient"
    [] f.fn = "mask" -> e # "later"
    [] OTHER -> f.onErr # << >>
Caught(f, e) ==
  IF f.fn \in {"stream", "mask"} THEN [f EXCEPT !.todo = f.onErr]
  ELSE [f EXCEPT !.todo = f.onErr, !.onErr = << >>, !.pend = e]
Unwound(fs, e) ==
  LET stops == {i \in DOMAIN fs : Stops(fs[i], e)}
  IN  IF stops = {} THEN << >>
      ELSE [SubSeq(fs, 1, Max(stops)) EXCEPT ![Max(stops)] = Caught(@, e)]
\* thrown by the innermost of fs
Throw(fs, e) ==
  /\ calls' = Unwound(fs, e)
  /\ lost' = (lost \/ Owes(fs) # Owes(Unwound(fs, e)))

\* the end of a call, and the end of fz_catch that throws again
Return ==
  /\ calls # << >> /\ Here.todo = << >>
  /\ IF Here.pend = "none" THEN calls' = Front(calls) /\ UNCHANGED lost
     ELSE Throw(Front(calls), Here.pend)
  /\ UNCHANGED <<gs, csi, dev, refs, marked, cookie, read>>

\* the begin of fz_always: from here on, an exception goes to the caller;
\* gparent is put back
Always ==
  /\ Next1("always")
  /\ calls' = Goes([Here EXCEPT !.onErr = << >>, !.todo = Tail(@)])
  /\ csi' = [csi EXCEPT !.gparent = Here.gparent]
  /\ UNCHANGED <<gs, dev, refs, marked, cookie, read, lost>>

-----------------------------------------------------------------------------
(* The device (source/fitz/device.c)                                       *)

\* what fz_clip_path, fz_begin_group and the like may leave
Opened(kind) ==
  IF dev.err > 0 THEN {[dev EXCEPT !.err = @ + 1]}
  ELSE {[dev EXCEPT !.open = Append(@, kind)]}
       \cup (IF "open" \in Faults THEN {[dev EXCEPT !.err = 1]} ELSE {})

\* n calls of fz_pop_clip, fz_end_group or fz_end_tile; the one that takes
\* error_depth to zero throws
Closed(n, kind) ==
  LET skipped == Min({n, dev.err})
      rest == Len(dev.open) - (n - skipped)
  IN  [open |-> SubSeq(dev.open, 1, Max({rest, 0})),
       err |-> dev.err - skipped,
       wrong |-> dev.wrong \/ rest < 0
                 \/ \E i \in Max({rest, 0}) + 1..Len(dev.open) : dev.open[i] # kind]

OpenBracket ==
  /\ Next1("open")
  /\ dev' \in Opened(Here.todo[1][2])
  /\ calls' = Past
  /\ UNCHANGED <<gs, csi, refs, marked, cookie, read, lost>>

CloseBracket ==
  /\ Next1("close")
  /\ dev' = Closed(1, Here.todo[1][2])
  /\ IF dev.err = 1 THEN Throw(Past, "bad") ELSE calls' = Past /\ UNCHANGED lost
  /\ UNCHANGED <<gs, csi, refs, marked, cookie, read>>

\* fz_end_mask
EndMask ==
  /\ Next1("end mask")
  /\ dev' = IF dev.err > 0 THEN dev
            ELSE [dev EXCEPT !.open[Len(dev.open)] = "clip",
                             !.wrong = @ \/ Last(dev.open) # "mask"]
  /\ calls' = Past
  /\ UNCHANGED <<gs, csi, refs, marked, cookie, read, lost>>

\* fz_fill_path, fz_fill_image and the like
Draw ==
  /\ Next1("draw")
  /\ \/ calls' = Past /\ UNCHANGED lost
     \/ dev.err = 0 /\ "draw" \in Faults /\ Throw(Past, "bad")
  /\ UNCHANGED <<gs, csi, dev, refs, marked, cookie, read>>

-----------------------------------------------------------------------------
(* Graphics states                                                         *)

Kept(m, n) == IF m = None THEN refs ELSE [refs EXCEPT ![m] = @ + n]

\* Slip: the copy does not take the references of its own.
GsaveCopies ==
  gs' = Append(gs, State) /\ UNCHANGED refs
\* pdf_gsave
Gsave ==
  gs' = Append(gs, State) /\ refs' = Kept(State.soft, 1)

Drop(clips) ==
  /\ refs' = Kept(State.soft, -1)
  /\ gs' = Front(gs)
  /\ dev' = Closed(clips, "clip")
\* Slip: a stream can pop the states of its caller.
GrestoreAny ==
  IF Len(gs) <= 1 THEN UNCHANGED <<gs, refs, dev>>
  ELSE Drop(State.clips - gs[Len(gs) - 1].clips)
\* Slip: a clip of the state that is dropped stays open.
GrestoreFewer ==
  IF Len(gs) <= csi.gbot THEN UNCHANGED <<gs, refs, dev>>
  ELSE Drop(Max({0, State.clips - gs[Len(gs) - 1].clips - 1}))
\* pdf_grestore, which swallows what fz_pop_clip throws
Grestore ==
  IF Len(gs) <= csi.gbot THEN UNCHANGED <<gs, refs, dev>>
  ELSE Drop(State.clips - gs[Len(gs) - 1].clips)

GsaveStep ==
  /\ Next1("gsave") /\ Gsave /\ calls' = Past
  /\ UNCHANGED <<csi, dev, marked, cookie, read, lost>>
GrestoreStep ==
  /\ Next1("grestore") /\ Grestore /\ calls' = Past
  /\ UNCHANGED <<csi, marked, cookie, read, lost>>
\* while (oldtop < csi->gtop) pdf_grestore(csi)
GrestoreDown ==
  /\ Next1("down")
  /\ IF Len(gs) > Here.keep THEN Grestore /\ UNCHANGED calls
     ELSE calls' = Past /\ UNCHANGED <<gs, refs, dev>>
  /\ UNCHANGED <<csi, marked, cookie, read, lost>>

\* a path is clipped to
ClipStep ==
  /\ Next1("clip")
  /\ gs' = [gs EXCEPT ![Len(gs)].clips = @ + 1]
  /\ dev' \in Opened("clip")
  /\ csi' = [csi EXCEPT !.clip = FALSE]
  /\ calls' = Past
  /\ UNCHANGED <<refs, marked, cookie, read, lost>>
\* A text's clip is opened inside of the group the text is painted in, and
\* pdf_end_group closes the clip in the place of the group.
ClipText ==
  /\ Next1("clip text")
  /\ IF csi.accumulate < 2
     THEN /\ gs' = [gs EXCEPT ![Len(gs)].clips = @ + 1]
          /\ dev' \in Opened("clip")
          /\ calls' = Past
          /\ lost' = (lost \/ State.blend)
     ELSE /\ UNCHANGED <<gs, dev>>
          /\ \/ calls' = Past /\ UNCHANGED lost
             \/ dev.err = 0 /\ "draw" \in Faults /\ Throw(Past, "bad")
  /\ csi' = [csi EXCEPT !.accumulate = 2]
  /\ UNCHANGED <<refs, marked, cookie, read>>

-----------------------------------------------------------------------------
(* Soft masks and blending                                                 *)

\* begin_softmask
BeginSoftmask ==
  /\ Next1("softmask")
  /\ LET m == State.soft
         taken == [Here EXCEPT !.soft = m, !.todo = Tail(@)]
         mask == [Frame("mask", <<Open("mask"), Do("form"), Do("end mask")>>,
                        <<Do("end mask")>>) EXCEPT !.form = m]
     IN  IF m = None THEN calls' = Past /\ UNCHANGED gs
         ELSE /\ gs' = [gs EXCEPT ![Len(gs)].soft = None]
              /\ calls' = Append(Goes(taken), mask)
  /\ UNCHANGED <<csi, dev, refs, marked, cookie, read, lost>>

\* end_softmask
EndSoftmask ==
  /\ Next1("unmask")
  /\ LET m == Here.soft
         put == [Here EXCEPT !.soft = None, !.todo = Tail(@)]
     IN  IF m = None THEN calls' = Past /\ UNCHANGED <<gs, dev, lost>>
         ELSE /\ gs' = [gs EXCEPT ![Len(gs)].soft = m]
              /\ dev' = Closed(1, "clip")
              /\ IF dev.err = 1 THEN Throw(Goes(put), "bad")
                 ELSE calls' = Goes(put) /\ UNCHANGED lost
  /\ UNCHANGED <<csi, refs, marked, cookie, read>>

\* if (gstate->blendmode), of pdf_end_group
EndBlend ==
  /\ Next1("end blend")
  /\ calls' = Then(IF State.blend THEN <<Close("group")>> ELSE << >>)
  /\ UNCHANGED <<gs, csi, dev, refs, marked, cookie, read, lost>>

-----------------------------------------------------------------------------
(* Painting                                                                *)

\* the switch on gstate->fill.kind
Fill == CASE State.fill = "colour" -> <<Do("draw")>>
          [] State.fill = "shade" -> <<Open("clip"), Do("draw"), Close("clip")>>
          [] OTHER -> <<Open("clip"), Do("pattern"), Close("clip")>>
BlendGroup == IF State.blend THEN <<Open("group")>> ELSE << >>
\* pdf_begin_group and pdf_end_group
Grouped(steps) ==
  (IF State.soft = None THEN << >> ELSE <<Do("softmask")>>)
  \o BlendGroup \o steps \o <<Do("end blend")>>
  \o (IF State.soft = None THEN << >> ELSE <<Do("unmask")>>)

\* pdf_show_path without and with paint, pdf_show_shade or an image,
\* pdf_flush_text with a text mode that clips, and pdf_show_image with an image
\* mask, which a soft mask does not apply to
Painting(token) ==
  CASE token = "n" -> << >>
    [] token = "f" -> Grouped(Fill)
    [] token = "sh" -> Grouped(<<Do("draw")>>)
    [] token = "Tj" -> Grouped(Append(Fill, Do("clip text")))
    [] token = "image mask" ->
         BlendGroup \o <<Open("clip")>> \o Fill \o <<Close("clip"), Do("end blend")>>
Paint(token) ==
  LET clips == IF csi.clip /\ token \in {"n", "f"} THEN <<Do("clip")>> ELSE << >>
  IN  calls' = Append(calls, Frame(token, clips \o Painting(token), << >>))

-----------------------------------------------------------------------------
(* Patterns and forms                                                      *)

TileSteps == <<Open("tile"), Do("gsave"), Do("contents"), Do("grestore"),
               Do("down"), Close("tile")>>
CellSteps == <<Do("gsave"), Do("contents"), Do("grestore"), Do("down")>>
PatternEnd == <<Do("always"), Do("grestore")>>

\* pdf_show_pattern: pdf_gsave and pdf_copy_pattern_gstate, which does not
\* drop what it replaces; the soft mask of the copy is dropped again
ShowPattern ==
  /\ Next1("pattern")
  /\ gs' = Append(gs, [State EXCEPT !.soft = None, !.fill = "colour"])
  /\ refs' = Kept(State.soft, 1)
  /\ csi' = [csi EXCEPT !.gparent = Len(gs)]
  /\ \E steps \in {TileSteps, <<Do("cell")>>} :
       calls' = Calls([Frame("pattern", steps \o PatternEnd, <<Do("always")>>)
                       EXCEPT !.keep = Len(gs) + 1])
  /\ UNCHANGED <<dev, marked, cookie, read, lost>>

\* one repeat of the cell, where there is no tile
ShowCell ==
  /\ Next1("cell")
  /\ calls' = Calls(Frame("cell", CellSteps, <<Do("grestore"), Do("down")>>))
  /\ UNCHANGED <<gs, csi, dev, refs, marked, cookie, read, lost>>

\* from fz_always on
FormEnd(x) ==
  <<Do("always"), Do("down"), Do("leave form")>>
  \o (IF x \in Groups THEN <<Close("group"), Do("unmask")>> ELSE << >>)
FormSteps(x) ==
  (IF x \in Groups THEN <<Do("softmask"), Open("group"), Do("reset")>> ELSE << >>)
  \o <<Do("clip"), Do("contents")>> \o FormEnd(x)

\* Slip: the mark is not looked at.
RunUnmarked(x, cs) ==
  /\ marked' = marked \cup {x}
  /\ csi' = [csi EXCEPT !.gparent = Len(gs)]
  /\ Gsave
  /\ calls' = Append(cs, [Frame("form", FormSteps(x), FormEnd(x))
                          EXCEPT !.form = x, !.keep = Len(gs) + 1])
\* pdf_run_xobject
RunXobject(x, cs) ==
  IF x \in marked THEN calls' = cs /\ UNCHANGED <<gs, csi, refs, marked>>
  ELSE /\ marked' = marked \cup {x}
       /\ csi' = [csi EXCEPT !.gparent = Len(gs)]
       /\ Gsave
       /\ calls' = Append(cs, [Frame("form", FormSteps(x), FormEnd(x))
                               EXCEPT !.form = x, !.keep = Len(gs) + 1])
RunMask ==
  /\ Next1("form")
  /\ RunXobject(Here.form, Past)
  /\ UNCHANGED <<dev, cookie, read, lost>>
\* Slip: the state the form was run with stays.
LeaveFormOnly ==
  /\ Next1("leave form")
  /\ marked' = marked \ {Here.form}
  /\ calls' = Past
  /\ UNCHANGED <<gs, csi, dev, refs, cookie, read, lost>>
\* pdf_grestore and pdf_unmark_obj
LeaveForm ==
  /\ Next1("leave form") /\ Grestore
  /\ marked' = marked \ {Here.form}
  /\ calls' = Past
  /\ UNCHANGED <<csi, cookie, read, lost>>
\* gstate->blendmode = 0, of a transparency group
Reset ==
  /\ Next1("reset")
  /\ gs' = [gs EXCEPT ![Len(gs)].blend = FALSE]
  /\ calls' = Past
  /\ UNCHANGED <<csi, dev, refs, marked, cookie, read, lost>>

-----------------------------------------------------------------------------
(* Streams                                                                 *)

StreamSteps == <<Do("token"), Do("down"), Do("leave")>>

\* pdf_run_contents_object and the begin of pdf_run_contents_stream
Contents ==
  \/ /\ csi' = [csi EXCEPT !.gbot = Len(gs)]
     /\ calls' = Calls(Frame("stream", StreamSteps, StreamSteps))
     /\ UNCHANGED lost
  \/ "contents" \in Faults /\ Throw(Past, "bad") /\ UNCHANGED csi
  \/ "later" \in Faults /\ Throw(Past, "later") /\ UNCHANGED csi
RunContents ==
  /\ Next1("contents") /\ Contents
  /\ UNCHANGED <<gs, dev, refs, marked, cookie, read>>
\* Slip: gbot stays as it is.
LeaveDeep ==
  /\ Next1("leave")
  /\ calls' = Past
  /\ UNCHANGED <<gs, csi, dev, refs, marked, cookie, read, lost>>
\* the end of pdf_run_contents_stream
Leave ==
  /\ Next1("leave")
  /\ csi' = [csi EXCEPT !.gbot = Here.gbot]
  /\ calls' = Past
  /\ UNCHANGED <<gs, dev, refs, marked, cookie, read, lost>>

\* pdf_run_stream: the end of the contents, or an abort by the cookie
EndOfStream ==
  /\ Next1("token")
  /\ calls' = Past
  /\ UNCHANGED <<gs, csi, dev, refs, marked, cookie, read, lost>>

Reads == Next1("token") /\ read < MaxTokens /\ read' = read + 1 /\ UNCHANGED cookie
Token(token) == Reads /\ token \in Tokens

\* pdf_run_q, pdf_run_Q
Run_q ==
  /\ Token("q") /\ Gsave
  /\ UNCHANGED <<csi, calls, dev, lost, marked>>
Run_Q ==
  /\ Token("Q") /\ Grestore
  /\ UNCHANGED <<csi, calls, lost, marked>>
Run_W ==
  /\ Token("W") /\ ~csi.clip
  /\ csi' = [csi EXCEPT !.clip = TRUE]
  /\ UNCHANGED <<gs, calls, dev, refs, lost, marked>>
Run_ET ==
  /\ Token("ET") /\ csi.accumulate = 2
  /\ csi' = [csi EXCEPT !.accumulate = 1]
  /\ UNCHANGED <<gs, calls, dev, refs, lost, marked>>
\* pdf_run_extgstate: /SMask and /BM
SetSoftmask(m) ==
  /\ Token("SMask") /\ m # State.soft
  /\ gs' = [gs EXCEPT ![Len(gs)].soft = m]
  /\ refs' = [x \in Forms |-> refs[x] - (IF x = State.soft THEN 1 ELSE 0)
                                      + (IF x = m THEN 1 ELSE 0)]
  /\ UNCHANGED <<csi, calls, dev, lost, marked>>
SetBlend ==
  /\ Token("BM")
  /\ gs' = [gs EXCEPT ![Len(gs)].blend = ~@]
  /\ UNCHANGED <<csi, calls, dev, refs, lost, marked>>
\* pdf_set_color, pdf_set_shade and pdf_set_pattern
SetFill(kind) ==
  /\ Token("scn") /\ kind # State.fill
  /\ gs' = [gs EXCEPT ![Len(gs)].fill = kind,
                      ![Len(gs)].from = IF kind = "colour" THEN 0 ELSE csi.gparent]
  /\ UNCHANGED <<csi, calls, dev, refs, lost, marked>>
Run_Paint(token) ==
  /\ Token(token) /\ Paint(token)
  /\ UNCHANGED <<gs, csi, dev, refs, lost, marked>>
Run_Do(x) ==
  /\ Token("Do") /\ RunXobject(x, calls)
  /\ UNCHANGED <<dev, lost>>
\* a token, or an object it needs, has not been loaded
Later ==
  /\ Reads /\ "later" \in Faults /\ Throw(calls, "later")
  /\ UNCHANGED <<gs, csi, dev, refs, marked>>

-----------------------------------------------------------------------------
(* Pages and annotations                                                   *)

FreeSteps == <<Do("always"), Do("down"), Do("free")>>
PageSteps == <<Do("new"), Do("contents")>> \o FreeSteps
AnnotSteps == <<Do("new"), Do("appearance")>> \o FreeSteps

\* pdf_run_page_contents_with_usage
RunPage ==
  /\ Next1("page")
  /\ \E steps \in {PageSteps, <<Open("group")>> \o PageSteps \o <<Close("group")>>} :
       calls' = Calls([Frame("page", steps, FreeSteps) EXCEPT !.keep = 1])
  /\ UNCHANGED <<gs, csi, dev, refs, marked, cookie, read, lost>>
\* pdf_run_annot_with_usage
RunAnnot ==
  /\ Next1("annot")
  /\ calls' = Calls([Frame("annot", AnnotSteps, FreeSteps) EXCEPT !.keep = 1])
  /\ UNCHANGED <<gs, csi, dev, refs, marked, cookie, read, lost>>
Appearance ==
  /\ Next1("appearance")
  /\ \E x \in Forms : RunXobject(x, Past)
  /\ UNCHANGED <<dev, cookie, read, lost>>
\* pdf_new_csi, and pdf_gsave for "level 0 to be the 'parent' gstate level"
NewInterpreter ==
  /\ Next1("new")
  /\ gs' = <<NewState, NewState>> /\ csi' = NewCsi
  /\ calls' = Past
  /\ UNCHANGED <<dev, refs, marked, cookie, read, lost>>
\* pdf_free_csi, after its first loop
FreeInterpreter ==
  /\ Next1("free")
  /\ gs' = << >> /\ csi' = NewCsi
  /\ refs' = Kept(State.soft, -1)
  /\ dev' = Closed(State.clips, "clip")
  /\ calls' = Past
  /\ UNCHANGED <<marked, cookie, read, lost>>

Step ==
  \/ Return \/ Always \/ OpenBracket \/ CloseBracket \/ EndMask \/ Draw
  \/ GsaveStep \/ GrestoreStep \/ GrestoreDown \/ ClipStep \/ ClipText
  \/ BeginSoftmask \/ EndSoftmask \/ EndBlend
  \/ ShowPattern \/ ShowCell \/ RunMask \/ LeaveForm \/ Reset
  \/ RunContents \/ Leave \/ EndOfStream
  \/ RunPage \/ RunAnnot \/ Appearance \/ NewInterpreter \/ FreeInterpreter
Operator ==
  \/ Run_q \/ Run_Q \/ Run_W \/ Run_ET \/ SetBlend \/ Later
  \/ \E m \in Forms \cup {None} : SetSoftmask(m)
  \/ \E kind \in {"colour", "shade", "pattern"} : SetFill(kind)
  \/ \E token \in {"n", "f", "sh", "Tj", "image mask"} : Run_Paint(token)
  \/ \E x \in Forms : Run_Do(x)
Next == Step \/ Operator

Spec == Init /\ [][Next]_vars
\* the interpreter is one thread, and contents are finite
FairSpec == Spec /\ WF_vars(Next)

-----------------------------------------------------------------------------
\* The brackets that are open on the device, those that failed to open
\* included, are the clips of the current state and what the calls that are
\* under way have still to close, whatever fails to open and wherever content
\* ends; and each is closed as what it is.  (This goes for as long as no
\* exception passes a call that owes a bracket, and is what a display list or a
\* draw device relies on.)
Nested ==
  ~lost => /\ Len(dev.open) + dev.err
              = (IF gs = << >> THEN 0 ELSE State.clips) + Owes(calls)
           /\ ~dev.wrong

\* When a call is done and has thrown nothing, the graphics state is the one
\* its caller had saved, whatever the streams it ran have done and swallowed;
\* and the state that a pattern or a shading was set with (gstate_num) is one
\* of those below the state that paints with it.  So it is while nothing that
\* is missing passes a stream: pdf_run_contents_stream throws
\* FZ_ERROR_TRYLATER on (2940) before it has put gbot back.
StatesKept ==
  /\ calls # << >> /\ Here.todo = << >> /\ Here.pend = "none"
       => Len(gs) = Here.base
  /\ \A i \in DOMAIN gs : gs[i].from <= i
  /\ csi.gparent <= Max({1, Len(gs)})

\* A soft mask that a state or a call still needs has been kept for it.
MasksHeld ==
  \A m \in Forms :
    refs[m] >= Cardinality({i \in DOMAIN gs : gs[i].soft = m})
               + Cardinality({i \in DOMAIN calls : calls[i].soft = m})

\* A form is marked for as long as it is run, so that it is not run in itself.
MarkedWhileRun ==
  /\ \A i, j \in DOMAIN calls :
       calls[i].fn = "form" /\ calls[j].fn = "form" /\ i # j
         => calls[i].form # calls[j].form
  /\ calls = << >> => marked = {}

\* What a stream does to the states its caller has saved: nothing.
CallersKept ==
  [][\A i \in DOMAIN calls \cap DOMAIN calls' :
       calls[i].fn = "stream" /\ calls'[i].fn = "stream"
         => SubSeq(gs', 1, calls[i].base - 1) = SubSeq(gs, 1, calls[i].base - 1)]_vars

\* pdf-interpret.c:376 swallows exceptions since "if we throw from here the
\* clip stack would be messed up": when a page has been run, nothing is open.
AllClosed == calls = << >> => dev.open = << >> /\ dev.err = 0
\* docs/refcount.txt: what was kept is dropped.
MasksDropped == calls = << >> => \A m \in Forms : refs[m] = 0
\* docs/progressive.txt:118: without incomplete_ok an error "will result in a
\* rendering that aborts with an FZ_ERROR_TRYLATER error"; and else, too, a page
\* that is run comes to an end.
RunEnds == <>(calls = << >>)
=============================================================================
