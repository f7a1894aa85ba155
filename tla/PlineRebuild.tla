----------------------------- MODULE PlineRebuild -----------------------------
(***************************************************************************)
(* Short lines of a page are joined to polylines (PDFConverter/pdfapp.cpp, *)
(* PDFConverter/rebuildPline.cpp): the straight segments of one colour are *)
(* collected, sorted by width and cut into runs of one width; each run is  *)
(* turned into paths, segment after segment, each extended at both ends    *)
(* for as long as a segment that is not used meets it; the paths are drawn *)
(* and the segments erased.                                                *)
(***************************************************************************)
EXTENDS Integers, Sequences, FiniteSets, SequencesExt

(* A definition marked Slip is used nowhere: it is the definition that      *)
(* follows as a mistake in the code would have it.                         *)

CONSTANTS
  Points,  \* where segments end
  Widths,  \* the widths of lines
  MaxSegs  \* a bound for TLC

ASSUME PlineAssumption == Widths \subseteq Int /\ MaxSegs \in Nat

VARIABLES
  seg,    \* mapLineSeg of a colour: the segments, with both ends and a width
  stage,  \* "page" while it is read, "join", and "done"
  runs,   \* subArr, one after the other: the segments that are joined together
  at,     \* the run that is being joined, and the segment of it that is next
  vtx,    \* mapVtx: the segments that end at a point and are not used there
  drawn   \* vecPath, of all runs
vars == <<seg, stage, runs, at, vtx, drawn>>

Init ==
  /\ seg = << >> /\ stage = "page" /\ runs = << >> /\ drawn = << >>
  /\ at = [run |-> 0, seg |-> 1]
  /\ vtx = [p \in Points |-> << >>]

\* appendPath, of a path of two points
Collect(s, e, width) ==
  /\ stage = "page" /\ Len(seg) < MaxSegs
  /\ seg' = Append(seg, [s |-> s, e |-> e, width |-> width])
  /\ UNCHANGED <<stage, runs, at, vtx, drawn>>

-----------------------------------------------------------------------------
(* AppendPlines                                                            *)

\* where a run of one width begins, and where it ends
Begins(lines) ==
  {i \in DOMAIN lines : i = 1 \/ lines[i - 1].width # lines[i].width}
RunEnd(lines, i) ==
  CHOOSE j \in i..Len(lines) :
    /\ \A k \in i..j : lines[k].width = lines[i].width
    /\ j = Len(lines) \/ lines[j + 1].width # lines[i].width
\* subArr is [cBegItr, cEndItr), but of the last run [cBegItr, cEndItr]
RunFrom(lines, i) ==
  LET j == RunEnd(lines, i)
  IN  [k \in 1..(IF j = Len(lines) THEN j - i + 1 ELSE j - i) |-> i + k - 1]

AppendPlines ==
  /\ stage = "page"
  /\ LET lines == SortSeq(seg, LAMBDA a, b : a.width < b.width)
         first == SetToSortSeq(Begins(lines), <)
     IN  /\ seg' = lines
         /\ runs' = [r \in DOMAIN first |-> RunFrom(lines, first[r])]
  /\ stage' = "join"
  /\ UNCHANGED <<at, vtx, drawn>>

-----------------------------------------------------------------------------
(* ChangeToPolyLine                                                        *)

\* add2Path, of both ends of all segments of a run
EndsAt(run, p) ==
  LET ends(i) == (IF seg[i].s = p THEN <<i>> ELSE << >>)
                 \o (IF seg[i].e = p THEN <<i>> ELSE << >>)
  IN  FlattenSeq([k \in DOMAIN run |-> ends(run[k])])

BeginRun ==
  /\ stage = "join" /\ at.run < Len(runs)
  /\ at.run > 0 => at.seg > Len(runs[at.run])
  /\ at' = [run |-> at.run + 1, seg |-> 1]
  /\ vtx' = [p \in Points |-> EndsAt(runs[at.run + 1], p)]
  /\ UNCHANGED <<seg, stage, runs, drawn>>

Other(i, p) == IF seg[i].s = p THEN seg[i].e ELSE seg[i].s
Without(list, i) == RemoveAt(list, CHOOSE k \in DOMAIN list :
                       list[k] = i /\ \A j \in 1..(k - 1) : list[j] # i)

\* the end of a path that is extended, and the segment it is an end of
Tip(path, front) ==
  IF front THEN [p |-> Head(path.points), i |-> Head(path.index)]
  ELSE [p |-> Last(path.points), i |-> Last(path.index)]
Extended(path, front, p, i) ==
  IF front THEN [points |-> <<p>> \o path.points, index |-> <<i>> \o path.index]
  ELSE [points |-> Append(path.points, p), index |-> Append(path.index, i)]

\* Slip: what is taken stays listed where it was taken.
TakenStays(list) == list
\* the rest of a point's list once its first segment has been taken
Taken(list) == Tail(list)

\* Slip: the segment that led to a point is found there again.
LeftAsIs(list, i) == list
\* the list of a point where segment i has led to
Left(list, i) == Without(list, i)

FarPoint(i, p) == Other(i, p)

RECURSIVE expandPath(_, _, _)
expandPath(path, v, front) ==
  LET tip == Tip(path, front)
      left == Left(v[tip.p], tip.i)
  IN  IF ~Contains(v[tip.p], tip.i)
        THEN [path |-> path, vtx |-> v, ok |-> FALSE]
      ELSE IF left = << >>
        THEN [path |-> path, vtx |-> [v EXCEPT ![tip.p] = left], ok |-> TRUE]
      ELSE LET i == Head(left)
               more == expandPath(Extended(path, front, FarPoint(i, tip.p), i),
                                  [v EXCEPT ![tip.p] = Taken(left)], front)
           IN  [more EXCEPT !.ok = TRUE]

\* Slip: a path that can be extended at one end only is drawn as well.
DrawsEither(front, back) == front.ok \/ back.ok
Draws(front, back) == front.ok /\ back.ok

\* the loop's body: segment i begins a path, which may be drawn
Join ==
  /\ stage = "join" /\ at.run > 0 /\ at.seg <= Len(runs[at.run])
  /\ LET i == runs[at.run][at.seg]
         new == [points |-> <<seg[i].s, seg[i].e>>, index |-> <<i>>]
         front == expandPath(new, vtx, TRUE)
         back == IF front.ok THEN expandPath(front.path, front.vtx, FALSE) ELSE front
     IN  IF seg[i].s = seg[i].e
         THEN drawn' = Append(drawn, new) /\ UNCHANGED vtx
         ELSE /\ drawn' = IF Draws(front, back) THEN Append(drawn, back.path)
                          ELSE drawn
              /\ vtx' = back.vtx
  /\ at' = [at EXCEPT !.seg = @ + 1]
  /\ UNCHANGED <<seg, stage, runs>>

\* all segments are erased
Erase ==
  /\ stage = "join" /\ at.run = Len(runs)
  /\ at.run > 0 => at.seg > Len(runs[at.run])
  /\ stage' = "done"
  /\ UNCHANGED <<seg, runs, at, vtx, drawn>>

Next ==
  \/ \E s, e \in Points, w \in Widths : Collect(s, e, w)
  \/ AppendPlines \/ BeginRun \/ Join \/ Erase
Spec == Init /\ [][Next]_vars

-----------------------------------------------------------------------------
(* Properties                                                              *)

Uses(i) == {<<k, j>> \in (DOMAIN drawn) \X (1..MaxSegs + 2) :
              j \in DOMAIN drawn[k].index /\ drawn[k].index[j] = i}

\* Nothing is drawn that was not on the page: a polyline goes from point to
\* point along the segments it was joined from, and a segment is not on two of
\* them, nor twice on one that comes back to it.  (Segments of no length may.)
DrawnAsOnPage ==
  /\ \A k \in DOMAIN drawn :
       LET path == drawn[k]
       IN  /\ Len(path.points) = Len(path.index) + 1
           /\ \A j \in DOMAIN path.index :
                {path.points[j], path.points[j + 1]}
                  = {seg[path.index[j]].s, seg[path.index[j]].e}
  /\ \A i \in DOMAIN seg : seg[i].s # seg[i].e => Cardinality(Uses(i)) <= 1

Degree(S, p) == Cardinality({i \in S : seg[i].s = p})
                + Cardinality({i \in S : seg[i].e = p})
\* no segments of the run close a loop
Open(run) ==
  \A S \in (SUBSET ToSet(run)) \ {{}} : \E p \in Points : Degree(S, p) = 1
Joined(r) == at.run > r \/ stage = "done"
PathsOf(r) == {k \in DOMAIN drawn : drawn[k].index[1] \in ToSet(runs[r])}

\* Lines that close no loop are replaced completely, whatever the order they
\* came in and whichever segment began: each is on a polyline.
OpenLinesKept ==
  \A r \in DOMAIN runs : Joined(r) /\ Open(runs[r]) =>
    \A i \in ToSet(runs[r]) : Uses(i) # {}

\* No two polylines that could be one: at a point where an even number of such
\* lines meet none ends, at any other point one does.
FewestPaths ==
  \A r \in DOMAIN runs : Joined(r) /\ Open(runs[r]) =>
    \A p \in Points :
      Cardinality({k \in PathsOf(r) : Head(drawn[k].points) = p})
        + Cardinality({k \in PathsOf(r) : Last(drawn[k].points) = p})
      = Degree(ToSet(runs[r]), p) % 2

\* pdfapp.cpp:984: the small segments are temporary, and deleted once they have
\* been joined: what is erased is on some polyline.
ErasedAreJoined == stage = "done" => \A i \in DOMAIN seg : Uses(i) # {}
=============================================================================
