--------------------------- MODULE DisplayProofs ---------------------------
(* A device that a display list is replayed to is given properly nested     *)
(* brackets, and what is culled cannot be seen.                            *)
(*                                                                         *)
(* The list was recorded with every bracket closed, and this is an invariant *)
(* of recording: Follows relates the brackets around a node to those around *)
(* the next one.  What replaying has to keep, Matches, is a relation of the *)
(* brackets around the next node, the device and the two counters, and every *)
(* turn of the loop is one lemma about it.  Culling has an invariant of its *)
(* own, below: of the frames of list->stack while the list is recorded, and *)
(* of the node that began what is culled while it is replayed.             *)
EXTENDS DisplayList, FiniteSetTheorems, FunctionTheorems, SequenceTheorems,
        WellFoundedInduction, TLAPS

-----------------------------------------------------------------------------
(* The invariant                                                           *)

Begins == {"clip", "text", "image", "mask", "group", "tile"}
Closed == Clips \cup {"group", "tile"}
Bracket == [kind : Begins \cup {"maskclip"}, rect : SUBSET Cells]
Cmds == Begins \cup Ends \cup {"fill", "more", "endmask"}
NodeType == [cmd : Cmds, rect : SUBSET Cells, in : Seq(Bracket)]
StackType == [1..StackSize -> [update : Nat, rect : SUBSET Cells]]
ListType == [node : Seq(NodeType), top : Nat, tiled : Int, stack : StackType]
DevType == [open : Seq(Bracket), err : Nat]

Typed ==
  /\ list \in ListType
  /\ page \in DevType /\ dev \in DevType
  /\ run \in [at : Nat, clipped : Int, tiled : Int]

Alike(s, t, n) == \A i \in 1..n : s[i].kind = t[i].kind

\* A node of command cmd inside of s is followed by one inside of t.
Follows(cmd, s, t) ==
  \/ /\ cmd \in Begins /\ Len(t) = Len(s) + 1 /\ Alike(s, t, Len(s))
     /\ t[Len(t)].kind = cmd
  \/ /\ cmd \in {"fill", "more"} /\ Len(t) = Len(s) /\ Alike(s, t, Len(s))
  \/ /\ cmd = "endmask" /\ Len(s) > 0 /\ Len(t) = Len(s)
     /\ Alike(s, t, Len(s) - 1)
     /\ s[Len(s)].kind = "mask" /\ t[Len(s)].kind = "maskclip"
  \/ /\ cmd \in Ends /\ Len(s) > 0 /\ Len(t) = Len(s) - 1
     /\ Alike(s, t, Len(t))
     /\ s[Len(s)].kind \in Closed /\ cmd = EndOf(s[Len(s)].kind)

\* the brackets around node k, and after the last one
In(k) == IF k \in 1..Len(list.node) THEN list.node[k].in ELSE page.open

\* what has been recorded
Nesting ==
  /\ \A k \in 1..Len(list.node) : Follows(list.node[k].cmd, In(k), In(k + 1))
  /\ Len(In(1)) = 0

Tiles(s, a, b) == {i \in a..b : s[i].kind = "tile"}
NrTiles(s, a, b) == Cardinality(Tiles(s, a, b))
Begun(d) == Len(d.open) + d.err

\* The device and the counters of the loop, before a node inside of s.
Matches(s, d, clipped, tiled) ==
  /\ Begun(d) <= Len(s)
  /\ Alike(s, d.open, Len(d.open))
  /\ Begun(d) < Len(s) => s[Begun(d) + 1].kind # "tile"
  /\ clipped = Len(s) - Begun(d) - NrTiles(s, Begun(d) + 1, Len(s))
  /\ tiled = NrTiles(s, 1, Begun(d))

Replayed ==
  /\ run.at = 0 => dev.open = << >> /\ dev.err = 0 /\ run.clipped = 0 /\ run.tiled = 0
  /\ run.at > 0 => page.open = << >> /\ Matches(In(run.at), dev, run.clipped, run.tiled)

IInv == Typed /\ Nesting /\ Replayed

-----------------------------------------------------------------------------
(* Counting tiles                                                          *)

\* A set of numbers that is not empty has a least one.
LEMMA Least ==
  ASSUME NEW T \in SUBSET Nat, T # {}
  PROVE  \E m \in T : \A y \in T : m <= y
<1>1. PICK m \in T : \A y \in T : ~ (<<y, m>> \in OpToRel(<, Nat))
  BY NatLessThanWellFounded, WFMin
<1>2. \A y \in T : ~ (y < m)
  BY <1>1, Zenon DEF OpToRel
<1> QED BY <1>2

LEMMA TilesFinite ==
  ASSUME NEW s, NEW a \in Int, NEW b \in Int
  PROVE  /\ IsFiniteSet(Tiles(s, a, b))
         /\ NrTiles(s, a, b) \in Nat
         /\ NrTiles(s, a, b) <= IF a > b THEN 0 ELSE b - a + 1
<1>1. Tiles(s, a, b) \in SUBSET (a..b)
  BY DEF Tiles
<1>2. IsFiniteSet(a..b) /\ Cardinality(a..b) = IF a > b THEN 0 ELSE b - a + 1
  BY FS_Interval
<1>3. IsFiniteSet(Tiles(s, a, b)) /\ Cardinality(Tiles(s, a, b)) <= Cardinality(a..b)
  BY <1>1, <1>2, FS_Subset
<1>4. Cardinality(Tiles(s, a, b)) \in Nat
  BY <1>3, FS_CardinalityType
<1> QED BY <1>2, <1>3, <1>4 DEF NrTiles

\* The last place counts if it has a tile.
LEMMA TilesLast ==
  ASSUME NEW s, NEW a \in Int, NEW b \in Int, a <= b
  PROVE  NrTiles(s, a, b) =
           NrTiles(s, a, b - 1) + IF s[b].kind = "tile" THEN 1 ELSE 0
<1>1. b - 1 \in Int /\ IsFiniteSet(Tiles(s, a, b - 1)) /\ NrTiles(s, a, b - 1) \in Nat
  BY TilesFinite
<1>2. b \notin Tiles(s, a, b - 1)
  BY DEF Tiles
<1>3. CASE s[b].kind = "tile"
  <2>1. Tiles(s, a, b) = Tiles(s, a, b - 1) \cup {b}
    BY <1>3 DEF Tiles
  <2> QED BY <1>1, <1>2, <1>3, <2>1, FS_AddElement DEF NrTiles
<1>4. CASE s[b].kind # "tile"
  <2>1. Tiles(s, a, b) = Tiles(s, a, b - 1)
    BY <1>4 DEF Tiles
  <2> QED BY <1>1, <1>4, <2>1 DEF NrTiles
<1> QED BY <1>3, <1>4

\* The first place does not count if it has none.
LEMMA TilesFirst ==
  ASSUME NEW s, NEW a \in Int, NEW b \in Int, a <= b, s[a].kind # "tile"
  PROVE  NrTiles(s, a, b) = NrTiles(s, a + 1, b)
<1>1. Tiles(s, a, b) = Tiles(s, a + 1, b)
  BY DEF Tiles
<1> QED BY <1>1 DEF NrTiles

\* Brackets of the same kinds have as many tiles.
LEMMA TilesAlike ==
  ASSUME NEW s, NEW t, NEW a \in Int, NEW b \in Int, NEW n \in Int,
         1 <= a, b <= n, Alike(s, t, n)
  PROVE  NrTiles(s, a, b) = NrTiles(t, a, b)
<1>1. \A i \in a..b : s[i].kind = t[i].kind
  BY DEF Alike
<1>2. Tiles(s, a, b) = Tiles(t, a, b)
  BY <1>1, Zenon DEF Tiles
<1> QED BY <1>2 DEF NrTiles

\* Nothing is culled exactly when clipped is 0.
LEMMA ClippedSays ==
  ASSUME NEW s \in Seq(Bracket), NEW d \in DevType, NEW c \in Int, NEW n \in Int,
         Matches(s, d, c, n)
  PROVE  /\ Begun(d) \in Nat /\ Len(s) \in Nat
         /\ c >= 0
         /\ c = 0 <=> Begun(d) = Len(s)
<1>1. Begun(d) \in Nat /\ Len(s) \in Nat
  BY DEF DevType, Begun
<1>2. c = Len(s) - Begun(d) - NrTiles(s, Begun(d) + 1, Len(s)) /\ Begun(d) <= Len(s)
  BY DEF Matches
<1>3. CASE Begun(d) = Len(s)
  BY <1>1, <1>2, <1>3, TilesFinite
<1>4. CASE Begun(d) < Len(s)
  <2>1. s[Begun(d) + 1].kind # "tile"
    BY <1>4 DEF Matches
  <2>2. NrTiles(s, Begun(d) + 1, Len(s)) = NrTiles(s, Begun(d) + 1 + 1, Len(s))
    BY <1>1, <1>4, <2>1, TilesFirst
  <2>3. /\ NrTiles(s, Begun(d) + 1 + 1, Len(s)) \in Nat
        /\ NrTiles(s, Begun(d) + 1 + 1, Len(s)) <= Len(s) - Begun(d) - 1
    BY <1>1, <1>4, TilesFinite
  <2> QED BY <1>1, <1>2, <1>4, <2>2, <2>3
<1> QED BY <1>1, <1>2, <1>3, <1>4

-----------------------------------------------------------------------------
(* One turn of the loop                                                    *)

\* A change of a device.
LEMMA DevChanged ==
  ASSUME NEW d \in DevType
  PROVE  /\ \A o \in Seq(Bracket) :
              /\ [d EXCEPT !.open = o] \in DevType
              /\ [d EXCEPT !.open = o].open = o
              /\ [d EXCEPT !.open = o].err = d.err
         /\ \A k \in Nat :
              /\ [d EXCEPT !.err = k] \in DevType
              /\ [d EXCEPT !.err = k].open = d.open
              /\ [d EXCEPT !.err = k].err = k
BY DEF DevType

\* What holds of the kinds of one sequence holds of those of the other.
LEMMA AlikeThrough ==
  ASSUME NEW s, NEW t, NEW o, NEW n \in Nat, NEW m \in Nat, n <= m,
         Alike(s, o, n), Alike(s, t, m)
  PROVE  Alike(t, o, n)
BY DEF Alike

\* A node that is skipped changes clipped by what it opens or closes.
LEMMA SkipMatches ==
  ASSUME NEW s \in Seq(Bracket), NEW t \in Seq(Bracket), NEW d \in DevType,
         NEW c \in Int, NEW n \in Int, NEW cmd \in Cmds,
         Matches(s, d, c, n), Follows(cmd, s, t),
         c > 0 \/ cmd \in (Begins \ {"tile"}) \cup {"fill", "more"}
  PROVE  Matches(t, d, c + ClippedBy(cmd), n)
<1> DEFINE b == Begun(d)
<1> DEFINE l == Len(d.open)
<1>1. /\ b \in Nat /\ Len(s) \in Nat /\ Len(t) \in Nat /\ l \in Nat /\ l <= b
      /\ b <= Len(s)
      /\ c = Len(s) - b - NrTiles(s, b + 1, Len(s))
      /\ n = NrTiles(s, 1, b)
      /\ c > 0 => b < Len(s)
  <2>1. b \in Nat /\ Len(s) \in Nat /\ (c = 0 <=> b = Len(s))
    BY ClippedSays
  <2>2. Len(t) \in Nat /\ l \in Nat /\ l <= b
    BY DEF DevType, Begun
  <2> QED BY <2>1, <2>2 DEF Matches
<1>2. NrTiles(s, b + 1, Len(s)) \in Nat
  BY <1>1, TilesFinite
<1>3. Alike(s, d.open, l)
  BY DEF Matches
<1>4. b < Len(s) => s[b + 1].kind # "tile"
  BY DEF Matches
<1> HIDE DEF b, l
<1>5. ASSUME NEW m \in Nat, b <= m, Alike(s, t, m)
      PROVE  Alike(t, d.open, l) /\ n = NrTiles(t, 1, b)
  <2>1. Alike(t, d.open, l)
    BY <1>1, <1>3, <1>5, AlikeThrough
  <2>2. NrTiles(s, 1, b) = NrTiles(t, 1, b)
    BY <1>1, <1>5, TilesAlike
  <2> QED BY <1>1, <2>1, <2>2
<1>6. ASSUME b <= Len(t), Alike(t, d.open, l), n = NrTiles(t, 1, b),
             b < Len(t) => t[b + 1].kind # "tile",
             c + ClippedBy(cmd) = Len(t) - b - NrTiles(t, b + 1, Len(t))
      PROVE  Matches(t, d, c + ClippedBy(cmd), n)
  BY <1>6 DEF Matches, b, l
<1>7. CASE /\ cmd \in Begins /\ Len(t) = Len(s) + 1 /\ Alike(s, t, Len(s))
           /\ t[Len(t)].kind = cmd
  <2>1. Alike(t, d.open, l) /\ n = NrTiles(t, 1, b)
    BY <1>1, <1>5, <1>7
  <2>2. NrTiles(t, b + 1, Len(t) - 1) = NrTiles(s, b + 1, Len(s))
    BY <1>1, <1>7, TilesAlike
  <2>3. NrTiles(t, b + 1, Len(t)) =
          NrTiles(t, b + 1, Len(t) - 1) + IF cmd = "tile" THEN 1 ELSE 0
    BY <1>1, <1>7, TilesLast
  <2>4. b < Len(t) => t[b + 1].kind # "tile"
    BY <1>1, <1>4, <1>7 DEF Alike
  <2>5. ClippedBy(cmd) = IF cmd = "tile" THEN 0 ELSE 1
    BY <1>7 DEF ClippedBy, Begins
  <2> QED BY <1>1, <1>2, <1>6, <1>7, <2>1, <2>2, <2>3, <2>4, <2>5
<1>8. CASE cmd \in {"fill", "more"} /\ Len(t) = Len(s) /\ Alike(s, t, Len(s))
  <2>1. Alike(t, d.open, l) /\ n = NrTiles(t, 1, b)
    BY <1>1, <1>5, <1>8
  <2>2. NrTiles(t, b + 1, Len(t)) = NrTiles(s, b + 1, Len(s))
    BY <1>1, <1>8, TilesAlike
  <2>3. b < Len(t) => t[b + 1].kind # "tile"
    BY <1>1, <1>4, <1>8 DEF Alike
  <2>4. ClippedBy(cmd) = 0
    BY <1>8 DEF ClippedBy
  <2> QED BY <1>1, <1>2, <1>6, <1>8, <2>1, <2>2, <2>3, <2>4
<1>9. CASE /\ cmd = "endmask" /\ Len(s) > 0 /\ Len(t) = Len(s)
           /\ Alike(s, t, Len(s) - 1)
           /\ s[Len(s)].kind = "mask" /\ t[Len(s)].kind = "maskclip"
  <2>0. b < Len(s)
    BY <1>1, <1>9 DEF Begins
  <2>1. Alike(t, d.open, l) /\ n = NrTiles(t, 1, b)
    BY <1>1, <1>5, <1>9, <2>0
  <2>2. NrTiles(t, b + 1, Len(t) - 1) = NrTiles(s, b + 1, Len(s) - 1)
    BY <1>1, <1>9, TilesAlike
  <2>3. NrTiles(t, b + 1, Len(t)) = NrTiles(s, b + 1, Len(s))
    <3>1. NrTiles(t, b + 1, Len(t)) = NrTiles(t, b + 1, Len(t) - 1)
                                      + IF t[Len(t)].kind = "tile" THEN 1 ELSE 0
      BY <1>1, <1>9, <2>0, TilesLast
    <3>2. NrTiles(s, b + 1, Len(s)) = NrTiles(s, b + 1, Len(s) - 1)
                                      + IF s[Len(s)].kind = "tile" THEN 1 ELSE 0
      BY <1>1, <1>9, <2>0, TilesLast
    <3> QED BY <1>9, <2>2, <3>1, <3>2
  <2>4. b < Len(t) => t[b + 1].kind # "tile"
    BY <1>1, <1>4, <1>9 DEF Alike
  <2>5. ClippedBy(cmd) = 0
    BY <1>9 DEF ClippedBy
  <2> QED BY <1>1, <1>2, <1>6, <1>9, <2>1, <2>2, <2>3, <2>4, <2>5
<1>10. CASE /\ cmd \in Ends /\ Len(s) > 0 /\ Len(t) = Len(s) - 1
            /\ Alike(s, t, Len(t))
            /\ s[Len(s)].kind \in Closed /\ cmd = EndOf(s[Len(s)].kind)
  <2>0. b < Len(s)
    BY <1>1, <1>10 DEF Begins, Ends
  <2>1. Alike(t, d.open, l) /\ n = NrTiles(t, 1, b)
    BY <1>1, <1>5, <1>10, <2>0
  <2>2. NrTiles(t, b + 1, Len(t)) = NrTiles(s, b + 1, Len(s) - 1)
    BY <1>1, <1>10, TilesAlike
  <2>3. NrTiles(s, b + 1, Len(s)) = NrTiles(s, b + 1, Len(s) - 1)
                                    + IF s[Len(s)].kind = "tile" THEN 1 ELSE 0
    <3>1. b + 1 \in Int /\ Len(s) \in Int /\ b + 1 <= Len(s)
      BY <1>1, <2>0
    <3> QED BY <3>1, TilesLast
  <2>4. b < Len(t) => t[b + 1].kind # "tile"
    <3>1. b < Len(t) => b + 1 \in 1..Len(t)
      BY <1>1
    <3> QED BY <1>4, <1>10, <2>0, <3>1 DEF Alike
  <2>5. ClippedBy(cmd) = IF s[Len(s)].kind = "tile" THEN 0 ELSE -1
    BY <1>10 DEF ClippedBy, EndOf, Clips, Closed, Ends
  <2>6. NrTiles(t, b + 1, Len(t)) \in Nat
    BY <1>1, TilesFinite
  <2>7. c + ClippedBy(cmd) = Len(t) - b - NrTiles(t, b + 1, Len(t))
    BY <1>1, <1>10, <2>2, <2>3, <2>5, <2>6
  <2>8. b <= Len(t)
    BY <1>1, <1>10, <2>0
  <2> QED BY <1>6, <2>1, <2>4, <2>7, <2>8
<1> QED BY <1>7, <1>8, <1>9, <1>10 DEF Follows

\* Without anything culled, the device has begun all that is around the node.
LEMMA VisibleMatches ==
  ASSUME NEW s \in Seq(Bracket), NEW d \in DevType, NEW n \in Int
  PROVE  Matches(s, d, 0, n) <=>
           Begun(d) = Len(s) /\ Alike(s, d.open, Len(d.open)) /\ n = NrTiles(s, 1, Len(s))
<1>1. ASSUME Matches(s, d, 0, n)
      PROVE  Begun(d) = Len(s) /\ Alike(s, d.open, Len(d.open)) /\ n = NrTiles(s, 1, Len(s))
  BY <1>1, ClippedSays DEF Matches
<1>2. ASSUME Begun(d) = Len(s), Alike(s, d.open, Len(d.open)), n = NrTiles(s, 1, Len(s))
      PROVE  Matches(s, d, 0, n)
  <2>1. Len(s) \in Nat
    OBVIOUS
  <2>2. NrTiles(s, Len(s) + 1, Len(s)) = 0
    BY <2>1, TilesFinite
  <2> QED BY <1>2, <2>1, <2>2 DEF Matches
<1> QED BY <1>1, <1>2

\* What draws leaves everything as it is.
LEMMA DrawMatches ==
  ASSUME NEW s \in Seq(Bracket), NEW t \in Seq(Bracket), NEW d \in DevType,
         NEW n \in Int, Matches(s, d, 0, n), NEW cmd \in {"fill", "more"},
         Follows(cmd, s, t)
  PROVE  Matches(t, d, 0, n)
<1>1. Len(t) = Len(s) /\ Alike(s, t, Len(s))
  BY DEF Follows, Begins, Ends
<1>2. Begun(d) = Len(s) /\ Alike(s, d.open, Len(d.open)) /\ n = NrTiles(s, 1, Len(s))
  BY VisibleMatches
<1>3. Len(d.open) \in Nat /\ Len(s) \in Nat /\ Len(d.open) <= Len(s)
  BY <1>2 DEF Begun, DevType
<1>4. Alike(t, d.open, Len(d.open))
  BY <1>1, <1>2, <1>3, AlikeThrough
<1>5. NrTiles(s, 1, Len(s)) = NrTiles(t, 1, Len(s))
  BY <1>1, <1>3, TilesAlike
<1> QED BY <1>1, <1>2, <1>4, <1>5, VisibleMatches

\* What opens a bracket opens one, or fails, or is inside one that failed.
LEMMA BeginMatches ==
  ASSUME NEW s \in Seq(Bracket), NEW t \in Seq(Bracket), NEW d \in DevType,
         NEW n \in Int, Matches(s, d, 0, n), NEW cmd \in Begins,
         Follows(cmd, s, t), NEW r \in SUBSET Cells,
         NEW e \in Open(d, [kind |-> cmd, rect |-> r])
  PROVE  e \in DevType /\ Matches(t, e, 0, n + IF cmd = "tile" THEN 1 ELSE 0)
<1> DEFINE new == [kind |-> cmd, rect |-> r]
<1>1. Len(t) = Len(s) + 1 /\ Alike(s, t, Len(s)) /\ t[Len(t)].kind = cmd
  BY DEF Follows, Begins, Ends
<1>2. Begun(d) = Len(s) /\ Alike(s, d.open, Len(d.open)) /\ n = NrTiles(s, 1, Len(s))
  BY VisibleMatches
<1>3. /\ Len(d.open) \in Nat /\ d.err \in Nat /\ Len(s) \in Nat /\ Len(t) \in Nat
      /\ Len(d.open) + d.err = Len(s) /\ d.open \in Seq(Bracket)
  BY <1>2 DEF Begun, DevType
<1>4. Alike(t, d.open, Len(d.open))
  BY <1>1, <1>2, <1>3, AlikeThrough
<1>5. NrTiles(t, 1, Len(t)) = n + IF cmd = "tile" THEN 1 ELSE 0
  <2>1. NrTiles(s, 1, Len(s)) = NrTiles(t, 1, Len(s))
    BY <1>1, <1>3, TilesAlike
  <2>2. NrTiles(t, 1, Len(t)) = NrTiles(t, 1, Len(t) - 1) + IF cmd = "tile" THEN 1 ELSE 0
    BY <1>1, <1>3, TilesLast
  <2> QED BY <1>1, <1>2, <1>3, <2>1, <2>2
<1>6. ASSUME e \in DevType, Begun(e) = Len(t), Alike(t, e.open, Len(e.open))
      PROVE  e \in DevType /\ Matches(t, e, 0, n + IF cmd = "tile" THEN 1 ELSE 0)
  BY <1>5, <1>6, VisibleMatches
<1>7. ASSUME e.open = d.open, e.err = d.err + 1, e \in DevType
      PROVE  e \in DevType /\ Matches(t, e, 0, n + IF cmd = "tile" THEN 1 ELSE 0)
  <2>1. Begun(e) = Len(t)
    <3>1. Begun(e) = Len(d.open) + (d.err + 1)
      BY <1>7, Zenon DEF Begun
    <3>2. Len(t) = Len(s) + 1
      BY <1>1
    <3> QED BY <1>3, <3>1, <3>2
  <2>2. Alike(t, e.open, Len(e.open))
    BY <1>4, <1>7
  <2> QED BY <1>6, <1>7, <2>1, <2>2
<1>8. CASE d.err = 0 /\ e = [d EXCEPT !.open = Append(d.open, new)]
  <2>1. new \in Bracket
    BY DEF Bracket
  <2>2. /\ e.open = Append(d.open, new) /\ e.err = 0
        /\ e.open \in Seq(Bracket) /\ e \in DevType
    <3>1. Append(d.open, new) \in Seq(Bracket)
      BY <1>3, <2>1
    <3> HIDE DEF new
    <3> QED BY <1>8, <3>1, DevChanged
  <2>3. /\ Len(e.open) = Len(d.open) + 1
        /\ \A i \in 1..Len(d.open) : e.open[i] = d.open[i]
        /\ e.open[Len(d.open) + 1] = new
    BY <1>3, <2>1, <2>2
  <2>4. Len(d.open) + 1 = Len(t)
    BY <1>1, <1>3, <1>8
  <2>5. Alike(t, e.open, Len(e.open))
    <3>1. \A i \in 1..Len(d.open) + 1 : i \in 1..Len(d.open) \/ i = Len(d.open) + 1
      BY <1>3
    <3>2. new.kind = t[Len(t)].kind
      BY <1>1
    <3>3. \A i \in 1..Len(d.open) : t[i].kind = e.open[i].kind
      BY <1>4, <2>3 DEF Alike
    <3> HIDE DEF new
    <3> QED BY <2>3, <2>4, <3>1, <3>2, <3>3 DEF Alike
  <2>6. Begun(e) = Len(t)
    BY <1>3, <2>2, <2>3, <2>4 DEF Begun
  <2> QED BY <1>6, <2>2, <2>5, <2>6
<1>9. CASE d.err > 0 /\ e = [d EXCEPT !.err = d.err + 1]
  <2>1. d.err + 1 \in Nat
    BY <1>3
  <2>2. e.open = d.open /\ e.err = d.err + 1 /\ e \in DevType
    BY <1>9, <2>1, DevChanged
  <2> QED BY <1>7, <2>2
<1>10. CASE d.err = 0 /\ e = [d EXCEPT !.err = 1]
  <2>1. e.open = d.open /\ e.err = 1 /\ e \in DevType
    BY <1>10, DevChanged
  <2> QED BY <1>7, <1>10, <2>1
<1> QED BY <1>3, <1>8, <1>9, <1>10 DEF Open

\* fz_end_mask closes no bracket.
LEMMA MaskMatches ==
  ASSUME NEW s \in Seq(Bracket), NEW t \in Seq(Bracket), NEW d \in DevType,
         NEW n \in Int, Matches(s, d, 0, n), Follows("endmask", s, t)
  PROVE  EndMask(d) \in DevType /\ Matches(t, EndMask(d), 0, n)
<1> DEFINE e == EndMask(d)
<1>1. /\ Len(s) > 0 /\ Len(t) = Len(s) /\ Alike(s, t, Len(s) - 1)
      /\ s[Len(s)].kind = "mask" /\ t[Len(s)].kind = "maskclip"
  BY DEF Follows, Begins, Ends
<1>2. Begun(d) = Len(s) /\ Alike(s, d.open, Len(d.open)) /\ n = NrTiles(s, 1, Len(s))
  BY VisibleMatches
<1>3. /\ Len(d.open) \in Nat /\ d.err \in Nat /\ Len(s) \in Nat
      /\ Len(d.open) + d.err = Len(s) /\ d.open \in Seq(Bracket)
  BY <1>2 DEF Begun, DevType
<1>4. NrTiles(t, 1, Len(t)) = n
  <2>1. NrTiles(s, 1, Len(s) - 1) = NrTiles(t, 1, Len(s) - 1)
    BY <1>1, <1>3, TilesAlike
  <2>2. NrTiles(t, 1, Len(t)) = NrTiles(t, 1, Len(t) - 1)
                                + IF t[Len(t)].kind = "tile" THEN 1 ELSE 0
    BY <1>1, <1>3, TilesLast
  <2>3. NrTiles(s, 1, Len(s)) = NrTiles(s, 1, Len(s) - 1)
                                + IF s[Len(s)].kind = "tile" THEN 1 ELSE 0
    BY <1>1, <1>3, TilesLast
  <2> QED BY <1>1, <1>2, <2>1, <2>2, <2>3
<1>5. CASE d.err > 0 \/ d.open = << >>
  <2>1. e = d /\ Len(d.open) < Len(s)
    BY <1>1, <1>2, <1>3, <1>5 DEF EndMask, Begun
  <2>2. Alike(t, d.open, Len(d.open))
    BY <1>1, <1>2, <1>3, <2>1, AlikeThrough
  <2>3. Matches(t, d, 0, n)
    BY <1>1, <1>2, <1>4, <2>2, VisibleMatches
  <2> QED BY <2>1, <2>3
<1>6. CASE ~ (d.err > 0 \/ d.open = << >>)
  <2> DEFINE l == Len(d.open)
  <2>1. l = Len(s) /\ d.err = 0
    BY <1>3, <1>6
  <2>2. e = [d EXCEPT !.open = [d.open EXCEPT ![l] = [Last(d.open) EXCEPT !.kind = "maskclip"]]]
    BY <1>6 DEF EndMask
  <2>3. Last(d.open) = d.open[l] /\ d.open[l] \in Bracket
    BY <1>1, <1>3, <2>1 DEF Last
  <2>4. [Last(d.open) EXCEPT !.kind = "maskclip"] \in Bracket
    BY <2>3 DEF Bracket
  <2>5. /\ e.open = [d.open EXCEPT ![l] = [Last(d.open) EXCEPT !.kind = "maskclip"]]
        /\ e.err = 0
    BY <2>1, <2>2 DEF DevType
  <2>6. /\ e.open \in Seq(Bracket) /\ Len(e.open) = l
        /\ \A i \in 1..l - 1 : e.open[i] = d.open[i]
        /\ e.open[l] = [Last(d.open) EXCEPT !.kind = "maskclip"]
    BY <1>1, <1>3, <2>1, <2>4, <2>5
  <2>7. e.open[l].kind = "maskclip"
    BY <2>3, <2>6 DEF Bracket
  <2>8. e \in DevType
    BY <2>2, <2>5, <2>6 DEF DevType
  <2>9. Alike(t, e.open, Len(e.open))
    <3> SUFFICES ASSUME NEW i \in 1..Len(t) PROVE t[i].kind = e.open[i].kind
      BY <1>1, <2>1, <2>6 DEF Alike
    <3>1. CASE i = l
      BY <1>1, <2>1, <2>7, <3>1
    <3>2. CASE i # l
      <4>1. i \in 1..l - 1 /\ i \in 1..l /\ i \in 1..Len(s) - 1
        BY <1>1, <1>3, <2>1, <3>2
      <4>2. e.open[i] = d.open[i]
        BY <2>6, <4>1
      <4>3. s[i].kind = d.open[i].kind /\ s[i].kind = t[i].kind
        BY <1>1, <1>2, <4>1, Zenon DEF Alike
      <4> QED BY <4>2, <4>3
    <3> QED BY <3>1, <3>2
  <2>10. Begun(e) = Len(t)
    BY <1>1, <1>3, <2>1, <2>5, <2>6 DEF Begun
  <2> QED BY <1>4, <2>8, <2>9, <2>10, VisibleMatches
<1> QED BY <1>5, <1>6

\* What closes a bracket closes the innermost one, be it that it failed.
LEMMA EndMatches ==
  ASSUME NEW s \in Seq(Bracket), NEW t \in Seq(Bracket), NEW d \in DevType,
         NEW n \in Int, Matches(s, d, 0, n), NEW cmd \in Ends, Follows(cmd, s, t)
  PROVE  /\ Close(d) \in DevType
         /\ Matches(t, Close(d), 0, n - IF cmd = "endtile" THEN 1 ELSE 0)
<1> DEFINE e == Close(d)
<1>1. /\ Len(s) > 0 /\ Len(t) = Len(s) - 1 /\ Alike(s, t, Len(t))
      /\ s[Len(s)].kind \in Closed /\ cmd = EndOf(s[Len(s)].kind)
  BY DEF Follows, Begins, Ends
<1>2. Begun(d) = Len(s) /\ Alike(s, d.open, Len(d.open)) /\ n = NrTiles(s, 1, Len(s))
  BY VisibleMatches
<1>3. /\ Len(d.open) \in Nat /\ d.err \in Nat /\ Len(s) \in Nat /\ Len(t) \in Nat
      /\ Len(d.open) + d.err = Len(s) /\ d.open \in Seq(Bracket)
  BY <1>2 DEF Begun, DevType
<1>4. NrTiles(t, 1, Len(t)) = n - IF cmd = "endtile" THEN 1 ELSE 0
  <2>1. NrTiles(s, 1, Len(t)) = NrTiles(t, 1, Len(t))
    BY <1>1, <1>3, TilesAlike
  <2>2. NrTiles(s, 1, Len(s)) = NrTiles(s, 1, Len(s) - 1)
                                + IF s[Len(s)].kind = "tile" THEN 1 ELSE 0
    BY <1>1, <1>3, TilesLast
  <2>3. cmd = "endtile" <=> s[Len(s)].kind = "tile"
    BY <1>1 DEF EndOf, Closed, Clips
  <2>4. NrTiles(s, 1, Len(t)) \in Nat
    BY <1>3, TilesFinite
  <2> QED BY <1>1, <1>2, <2>1, <2>2, <2>3, <2>4
<1>5. ASSUME e \in DevType, Begun(e) = Len(t), Alike(t, e.open, Len(e.open))
      PROVE  e \in DevType /\ Matches(t, e, 0, n - IF cmd = "endtile" THEN 1 ELSE 0)
  BY <1>4, <1>5, VisibleMatches
<1>6. CASE d.err > 0
  <2>1. e = [d EXCEPT !.err = d.err - 1]
    BY <1>6 DEF Close
  <2>2. e.open = d.open /\ e.err = d.err - 1 /\ e \in DevType
    <3>1. d.err - 1 \in Nat
      BY <1>3, <1>6
    <3> HIDE DEF e
    <3> QED BY <2>1, <3>1, DevChanged
  <2>3. Alike(t, d.open, Len(d.open))
    BY <1>1, <1>2, <1>3, <1>6, AlikeThrough
  <2>4. Begun(e) = Len(t)
    <3>1. Begun(e) = Len(d.open) + (d.err - 1)
      BY <2>2, Zenon DEF Begun
    <3>2. Len(t) = Len(s) - 1
      BY <1>1
    <3>3. Len(d.open) \in Nat /\ d.err \in Nat /\ Len(d.open) + d.err = Len(s)
      BY <1>3
    <3>4. Len(d.open) + (d.err - 1) = Len(s) - 1
      BY <3>3
    <3> HIDE DEF e
    <3> QED BY <3>1, <3>2, <3>4
  <2> QED BY <1>5, <2>2, <2>3, <2>4
<1>7. CASE d.err = 0
  <2>1. e = [d EXCEPT !.open = Front(d.open)] /\ d.open # << >>
    BY <1>1, <1>3, <1>7 DEF Close
  <2>2. e.open = Front(d.open) /\ e.err = 0
    BY <1>7, <2>1 DEF DevType
  <2>3. /\ Front(d.open) \in Seq(Bracket) /\ Len(Front(d.open)) = Len(d.open) - 1
        /\ \A i \in 1..Len(d.open) - 1 : Front(d.open)[i] = d.open[i]
    BY <1>1, <1>3, <1>7, <2>1, SubSeqProperties DEF Front
  <2>4. e \in DevType
    BY <2>1, <2>2, <2>3 DEF DevType
  <2>5. Alike(t, e.open, Len(e.open))
    BY <1>1, <1>2, <1>3, <1>7, <2>2, <2>3 DEF Alike
  <2>6. Begun(e) = Len(t)
    BY <1>1, <1>3, <1>7, <2>2, <2>3 DEF Begun
  <2> QED BY <1>5, <2>4, <2>5, <2>6
<1> QED BY <1>3, <1>6, <1>7

-----------------------------------------------------------------------------
(* The end of a tile                                                       *)

All(s) == NrTiles(s, 1, Len(s))

\* A node adds a tile to those around the next one, or takes one away.
LEMMA FollowsTiles ==
  ASSUME NEW s \in Seq(Bracket), NEW t \in Seq(Bracket), NEW cmd \in Cmds,
         Follows(cmd, s, t)
  PROVE  /\ All(s) \in Nat /\ All(t) \in Nat
         /\ All(t) = All(s) + (IF cmd = "tile" THEN 1 ELSE 0)
                            - (IF cmd = "endtile" THEN 1 ELSE 0)
<1> DEFINE d == [open |-> s, err |-> 0]
<1>1. /\ d \in DevType /\ Len(s) \in Nat /\ Len(t) \in Nat
      /\ d.open = s /\ d.err = 0
  BY DEF DevType
<1>2. Begun(d) = Len(s) /\ Alike(s, d.open, Len(d.open))
  BY <1>1 DEF Begun, Alike
<1>3. All(s) \in Nat /\ All(t) \in Nat
  BY <1>1, TilesFinite DEF All
<1>4. Matches(s, d, 0, All(s))
  BY <1>1, <1>2, <1>3, VisibleMatches DEF All
<1> HIDE DEF d
<1>5. \A e \in DevType, n \in Int : Matches(t, e, 0, n) => n = All(t)
  BY VisibleMatches DEF All
<1>6. CASE cmd \in Begins
  <2>1. PICK e \in Open(d, [kind |-> cmd, rect |-> {}]) : TRUE
    BY DEF Open
  <2>2. {} \in SUBSET Cells
    OBVIOUS
  <2>3. e \in DevType /\ Matches(t, e, 0, All(s) + IF cmd = "tile" THEN 1 ELSE 0)
    BY <1>1, <1>3, <1>4, <1>6, <2>2, BeginMatches
  <2>4. All(t) = All(s) + IF cmd = "tile" THEN 1 ELSE 0
    BY <1>3, <1>5, <2>3
  <2> QED BY <1>3, <1>6, <2>4 DEF Begins
<1>7. CASE cmd \in {"fill", "more"}
  <2>1. Matches(t, d, 0, All(s))
    BY <1>1, <1>3, <1>4, <1>7, DrawMatches
  <2> QED BY <1>1, <1>3, <1>5, <1>7, <2>1
<1>8. CASE cmd = "endmask"
  <2>1. EndMask(d) \in DevType /\ Matches(t, EndMask(d), 0, All(s))
    BY <1>1, <1>3, <1>4, <1>8, MaskMatches
  <2> QED BY <1>3, <1>5, <1>8, <2>1
<1>9. CASE cmd \in Ends
  <2>1. /\ Close(d) \in DevType
        /\ Matches(t, Close(d), 0, All(s) - IF cmd = "endtile" THEN 1 ELSE 0)
    BY <1>1, <1>3, <1>4, <1>9, EndMatches
  <2>2. All(t) = All(s) - IF cmd = "endtile" THEN 1 ELSE 0
    BY <1>3, <1>5, <2>1
  <2> QED BY <1>3, <1>9, <2>2 DEF Ends
<1> QED BY <1>6, <1>7, <1>8, <1>9 DEF Cmds

\* More places have no fewer tiles.
LEMMA TilesGrow ==
  ASSUME NEW s, NEW a \in Int, NEW b \in Int, a <= b
  PROVE  NrTiles(s, 1, a) <= NrTiles(s, 1, b)
<1>1. IsFiniteSet(Tiles(s, 1, b))
  BY TilesFinite
<1>2. Tiles(s, 1, a) \in SUBSET Tiles(s, 1, b)
  BY DEF Tiles
<1> QED BY <1>1, <1>2, FS_Subset DEF NrTiles

\* t is inside the tile that was begun inside of s.
Inside(s, t) ==
  /\ Len(t) > Len(s) /\ Alike(s, t, Len(s)) /\ t[Len(s) + 1].kind = "tile"

LEMMA InsideCounts ==
  ASSUME NEW s \in Seq(Bracket), NEW t \in Seq(Bracket), Inside(s, t)
  PROVE  All(s) \in Nat /\ All(t) \in Nat /\ All(t) > All(s)
<1>1. Len(s) \in Nat /\ Len(t) \in Nat /\ Len(s) + 1 <= Len(t)
  BY DEF Inside
<1>2. NrTiles(s, 1, Len(s)) = NrTiles(t, 1, Len(s))
  BY <1>1, TilesAlike DEF Inside
<1>3. NrTiles(t, 1, Len(s) + 1) = NrTiles(t, 1, Len(s) + 1 - 1) + 1
  BY <1>1, TilesLast DEF Inside
<1>4. NrTiles(t, 1, Len(s) + 1) <= NrTiles(t, 1, Len(t))
  BY <1>1, TilesGrow
<1>5. All(s) \in Nat /\ All(t) \in Nat /\ NrTiles(t, 1, Len(s) + 1) \in Nat
  BY <1>1, TilesFinite DEF All
<1>6. Len(s) + 1 - 1 = Len(s)
  BY <1>1
<1> QED BY <1>2, <1>3, <1>4, <1>5, <1>6 DEF All

\* A node inside of a tile is followed by another one, unless it ends it.
LEMMA StaysInside ==
  ASSUME NEW i \in Seq(Bracket), NEW s \in Seq(Bracket), NEW t \in Seq(Bracket),
         NEW cmd, Inside(i, s), Follows(cmd, s, t)
  PROVE  \/ Inside(i, t)
         \/ cmd = "endtile" /\ Len(s) = Len(i) + 1 /\ Len(t) = Len(i) /\ Alike(i, t, Len(i))
<1>1. /\ Len(i) \in Nat /\ Len(s) \in Nat /\ Len(t) \in Nat
      /\ Len(s) > Len(i) /\ Alike(i, s, Len(i)) /\ s[Len(i) + 1].kind = "tile"
  BY DEF Inside
<1>2. ASSUME Alike(s, t, Len(i) + 1), Len(t) > Len(i)
      PROVE  Inside(i, t)
  <2>1. Alike(i, t, Len(i))
    BY <1>1, <1>2 DEF Alike
  <2>2. s[Len(i) + 1].kind = t[Len(i) + 1].kind
    BY <1>1, <1>2 DEF Alike
  <2> QED BY <1>1, <1>2, <2>1, <2>2 DEF Inside
<1>3. \A n \in Nat : n >= Len(i) + 1 /\ Alike(s, t, n) => Alike(s, t, Len(i) + 1)
  BY <1>1 DEF Alike
<1>4. CASE cmd \in Begins /\ Len(t) = Len(s) + 1 /\ Alike(s, t, Len(s))
  BY <1>1, <1>2, <1>3, <1>4
<1>5. CASE Len(t) = Len(s) /\ Alike(s, t, Len(s))
  BY <1>1, <1>2, <1>3, <1>5
<1>6. CASE Len(t) = Len(s) /\ Alike(s, t, Len(s) - 1) /\ s[Len(s)].kind = "mask"
  <2>1. Len(s) - 1 \in Nat /\ Len(s) - 1 >= Len(i) + 1
    BY <1>1, <1>6
  <2> QED BY <1>1, <1>2, <1>3, <1>6, <2>1
<1>7. CASE /\ Len(t) = Len(s) - 1 /\ Alike(s, t, Len(t))
           /\ cmd = EndOf(s[Len(s)].kind)
  <2>1. CASE Len(t) > Len(i)
    BY <1>1, <1>2, <1>3, <1>7, <2>1
  <2>2. CASE ~ (Len(t) > Len(i))
    <3>1. Len(s) = Len(i) + 1 /\ Len(t) = Len(i)
      BY <1>1, <1>7, <2>2
    <3>2. cmd = "endtile"
      BY <1>1, <1>7, <3>1 DEF EndOf, Clips
    <3>3. Alike(i, t, Len(i))
      BY <1>1, <1>7, <3>1 DEF Alike
    <3> QED BY <3>1, <3>2, <3>3
  <2> QED BY <2>1, <2>2
<1> QED BY <1>4, <1>5, <1>6, <1>7 DEF Follows

\* the nodes from n to m of a command
NrCmd(n, m, cmd) == Cardinality({k \in n..m : list.node[k].cmd = cmd})

LEMMA NrCmdLast ==
  ASSUME NEW n \in Int, NEW m \in Int, NEW cmd
  PROVE  /\ NrCmd(n, m, cmd) \in Nat
         /\ n <= m => NrCmd(n, m, cmd) = NrCmd(n, m - 1, cmd)
                                         + IF list.node[m].cmd = cmd THEN 1 ELSE 0
<1> DEFINE S(j) == {k \in n..j : list.node[k].cmd = cmd}
<1>1. \A j \in Int : IsFiniteSet(S(j)) /\ Cardinality(S(j)) \in Nat
  <2> TAKE j \in Int
  <2>1. S(j) \in SUBSET (n..j) /\ IsFiniteSet(n..j)
    BY FS_Interval
  <2>2. IsFiniteSet(S(j))
    BY <2>1, FS_Subset
  <2> QED BY <2>2, FS_CardinalityType
<1>2. ASSUME n <= m
      PROVE  NrCmd(n, m, cmd) = NrCmd(n, m - 1, cmd)
                                + IF list.node[m].cmd = cmd THEN 1 ELSE 0
  <2>1. m \notin S(m - 1) /\ m - 1 \in Int
    OBVIOUS
  <2>2. CASE list.node[m].cmd = cmd
    <3>1. S(m) = S(m - 1) \cup {m}
      BY <1>2, <2>2
    <3>2. Cardinality(S(m - 1) \cup {m}) = Cardinality(S(m - 1)) + 1
      BY <1>1, <2>1, FS_AddElement
    <3> QED BY <2>2, <3>1, <3>2 DEF NrCmd
  <2>3. CASE list.node[m].cmd # cmd
    <3>1. S(m) = S(m - 1)
      BY <1>2, <2>3
    <3>2. Cardinality(S(m - 1)) \in Nat
      BY <1>1, <2>1
    <3>3. NrCmd(n, m, cmd) = Cardinality(S(m - 1)) /\ NrCmd(n, m - 1, cmd) = Cardinality(S(m - 1))
      BY <3>1 DEF NrCmd
    <3> HIDE DEF S
    <3> QED BY <2>3, <3>2, <3>3
  <2> QED BY <2>2, <2>3
<1> QED BY <1>1, <1>2 DEF NrCmd

\* the brackets around a node
LEMMA InType ==
  ASSUME Typed, NEW k \in Int
  PROVE  /\ In(k) \in Seq(Bracket) /\ Len(list.node) \in Nat
         /\ k \in 1..Len(list.node) => list.node[k].cmd \in Cmds /\ list.node[k].rect \in SUBSET Cells
<1>1. list.node \in Seq(NodeType) /\ page.open \in Seq(Bracket)
  BY DEF Typed, ListType, DevType
<1>2. k \in 1..Len(list.node) => list.node[k] \in NodeType
  BY <1>1
<1> QED BY <1>1, <1>2 DEF NodeType, In

\* Tiles and ends of tiles are counted by skip_to_end_tile as they nest.
LEMMA CmdsCountTiles ==
  ASSUME Typed, Nesting, NEW n \in 1..Len(list.node), NEW m \in n..Len(list.node)
  PROVE  NrCmd(n, m, "tile") - NrCmd(n, m, "endtile") = All(In(m + 1)) - All(In(n))
<1> DEFINE Diff(j) == NrCmd(n, j, "tile") - NrCmd(n, j, "endtile")
<1> DEFINE Bad == {j \in Nat : j \in n - 1..Len(list.node)
                               /\ Diff(j) # All(In(j + 1)) - All(In(n))}
<1>0. Len(list.node) \in Nat /\ n \in Nat
  BY InType
<1>1. \A j \in n..Len(list.node) :
        /\ Diff(j) = Diff(j - 1) + (IF list.node[j].cmd = "tile" THEN 1 ELSE 0)
                                 - (IF list.node[j].cmd = "endtile" THEN 1 ELSE 0)
        /\ Diff(j - 1) \in Int
  <2> TAKE j \in n..Len(list.node)
  <2>1. /\ NrCmd(n, j - 1, "tile") \in Nat /\ NrCmd(n, j - 1, "endtile") \in Nat
    BY <1>0, NrCmdLast
  <2>2. NrCmd(n, j, "tile") = NrCmd(n, j - 1, "tile")
                              + IF list.node[j].cmd = "tile" THEN 1 ELSE 0
    BY <1>0, NrCmdLast
  <2>3. NrCmd(n, j, "endtile") = NrCmd(n, j - 1, "endtile")
                                 + IF list.node[j].cmd = "endtile" THEN 1 ELSE 0
    BY <1>0, NrCmdLast
  <2>4. CASE list.node[j].cmd = "tile"
    BY <2>1, <2>2, <2>3, <2>4
  <2>5. CASE list.node[j].cmd = "endtile"
    BY <2>1, <2>2, <2>3, <2>5
  <2>6. CASE list.node[j].cmd \notin {"tile", "endtile"}
    BY <2>1, <2>2, <2>3, <2>6
  <2> QED BY <2>4, <2>5, <2>6
<1>2. \A j \in n..Len(list.node) :
        /\ All(In(j)) \in Nat /\ All(In(j + 1)) \in Nat
        /\ All(In(j + 1)) = All(In(j)) + (IF list.node[j].cmd = "tile" THEN 1 ELSE 0)
                                       - (IF list.node[j].cmd = "endtile" THEN 1 ELSE 0)
  <2> TAKE j \in n..Len(list.node)
  <2>1. j \in Int /\ j \in 1..Len(list.node) /\ j + 1 \in Int
    BY <1>0
  <2>2. Follows(list.node[j].cmd, In(j), In(j + 1))
    BY <2>1 DEF Nesting
  <2>3. In(j) \in Seq(Bracket) /\ In(j + 1) \in Seq(Bracket) /\ list.node[j].cmd \in Cmds
    BY <2>1, InType
  <2> QED BY <2>2, <2>3, FollowsTiles
<1>3. Diff(n - 1) = 0
  <2>1. \A cmd : NrCmd(n, n - 1, cmd) = 0
    <3> TAKE cmd
    <3>1. {k \in n..n - 1 : list.node[k].cmd = cmd} = {}
      BY <1>0
    <3> QED BY <3>1, FS_EmptySet, Zenon DEF NrCmd
  <2>2. NrCmd(n, n - 1, "tile") = 0 /\ NrCmd(n, n - 1, "endtile") = 0
    BY <2>1
  <2> QED BY <2>2
<1>4. Bad = {}
  <2> SUFFICES ASSUME Bad # {} PROVE FALSE
    OBVIOUS
  <2>1. PICK j \in Bad : \A i \in Bad : j <= i
    BY Least
  <2>2. n - 1 \notin Bad
    <3>1. n - 1 + 1 = n /\ All(In(n)) \in Nat
      BY <1>0, <1>2
    <3> QED BY <1>3, <3>1
  <2>3. j \in n..Len(list.node)
    BY <1>0, <2>2
  <2>4. j - 1 \notin Bad /\ j - 1 \in Nat /\ j - 1 \in n - 1..Len(list.node)
    BY <1>0, <2>1, <2>3
  <2>5. Diff(j - 1) = All(In(j - 1 + 1)) - All(In(n))
    BY <2>4
  <2>6. j - 1 + 1 = j /\ All(In(n)) \in Nat
    BY <1>0, <1>2, <2>3
  <2>7. Diff(j) = All(In(j + 1)) - All(In(n))
    <3>1. /\ Diff(j) = Diff(j - 1) + (IF list.node[j].cmd = "tile" THEN 1 ELSE 0)
                                   - (IF list.node[j].cmd = "endtile" THEN 1 ELSE 0)
          /\ All(In(j + 1)) = All(In(j)) + (IF list.node[j].cmd = "tile" THEN 1 ELSE 0)
                                         - (IF list.node[j].cmd = "endtile" THEN 1 ELSE 0)
          /\ All(In(j)) \in Nat
      BY <1>1, <1>2, <2>3
    <3>2. Diff(j - 1) = All(In(j)) - All(In(n))
      BY <2>5, <2>6
    <3> HIDE DEF Diff, Bad
    <3> QED BY <2>6, <3>1, <3>2
  <2> QED BY <2>1, <2>7
<1>5. m \in Nat /\ m \in n - 1..Len(list.node)
  BY <1>0
<1> QED BY <1>4, <1>5

\* What skip_to_end_tile finds is inside of the tile and of nothing else in it.
LEMMA TileEnds ==
  ASSUME Typed, Nesting, page.open = << >>,
         NEW n \in 1..Len(list.node), list.node[n].cmd = "tile"
  PROVE  /\ EndOfTile(n) \in 1..Len(list.node)
         /\ Follows("tile", In(n), In(EndOfTile(n)))
<1> DEFINE N == Len(list.node)
<1> DEFINE i == In(n)
<1> DEFINE E == {m \in n + 1..N : NrCmd(n, m, "tile") = NrCmd(n, m, "endtile")}
<1> DEFINE U == {k \in n + 1..N : Len(In(k + 1)) <= Len(i)}
<1>0. N \in Nat /\ n \in Nat /\ n >= 1 /\ n <= N
  BY InType
<1>1. \A k \in Int : In(k) \in Seq(Bracket) /\ Len(In(k)) \in Nat
  <2> TAKE k \in Int
  <2>1. In(k) \in Seq(Bracket)
    BY InType
  <2> QED BY <2>1
<1>2. \A k \in 1..N : Follows(list.node[k].cmd, In(k), In(k + 1))
  BY DEF Nesting
<1>3. EndOfTile(n) = CHOOSE m \in E : \A y \in E : m <= y
  BY DEF EndOfTile, NrCmd, Min
<1>4. Inside(i, In(n + 1)) /\ Len(In(n + 1)) = Len(i) + 1
  <2>1. Follows("tile", i, In(n + 1))
    BY <1>2
  <2>2. Len(In(n + 1)) = Len(i) + 1 /\ Alike(i, In(n + 1), Len(i))
        /\ In(n + 1)[Len(In(n + 1))].kind = "tile"
    BY <2>1 DEF Follows, Ends
  <2>3. Len(i) \in Nat
    BY <1>0, <1>1
  <2> QED BY <2>2, <2>3 DEF Inside
<1>5. PICK u \in U : \A k \in U : u <= k
  <2>1. In(N + 1) = << >>
    BY <1>0 DEF In
  <2>2. Len(In(N + 1)) = 0 /\ Len(i) \in Nat
    BY <1>0, <1>1, <2>1
  <2>3. n # N
    BY <1>0, <1>4, <2>2
  <2>4. N \in U /\ U \in SUBSET Nat
    BY <1>0, <2>2, <2>3
  <2> HIDE DEF U
  <2> QED BY <2>4, Least
<1>6. \A k \in n + 1..u : Inside(i, In(k))
  <2> DEFINE Bad == {k \in n + 1..u : ~ Inside(i, In(k))}
  <2> SUFFICES ASSUME Bad # {} PROVE FALSE
    OBVIOUS
  <2>1. Bad \in SUBSET Nat
    BY <1>0, <1>5
  <2>2. PICK k \in Bad : \A j \in Bad : k <= j
    <3> HIDE DEF Bad
    <3> QED BY <2>1, Least
  <2>3. k \in n + 1..u /\ k # n + 1 /\ u \in n + 1..N
    BY <1>4, <1>5, <2>2
  <2>4. /\ k - 1 \in n + 1..u /\ k - 1 \in n + 1..N /\ k - 1 \in 1..N
        /\ k - 1 \in Int /\ k \in Int /\ k - 1 + 1 = k
    BY <1>0, <2>3
  <2>5. k - 1 \notin Bad /\ k - 1 \notin U
    BY <1>5, <2>2, <2>3, <2>4
  <2>6. Inside(i, In(k - 1)) /\ Len(In(k)) > Len(i)
    <3>1. ~ (Len(In(k - 1 + 1)) <= Len(i)) /\ Inside(i, In(k - 1))
      BY <2>4, <2>5
    <3>2. Len(In(k)) \in Nat /\ Len(i) \in Nat
      BY <1>0, <1>1, <2>4
    <3> QED BY <2>4, <3>1, <3>2
  <2>7. Follows(list.node[k - 1].cmd, In(k - 1), In(k))
    BY <1>2, <2>4
  <2>8. Inside(i, In(k))
    <3>1. In(k - 1) \in Seq(Bracket) /\ In(k) \in Seq(Bracket) /\ i \in Seq(Bracket)
          /\ Len(i) \in Nat
      BY <1>0, <1>1, <2>4
    <3> HIDE DEF i
    <3> QED BY <2>6, <2>7, <3>1, StaysInside
  <2> QED BY <2>2, <2>8
<1>7. /\ u \in n + 1..N /\ u \in 1..N /\ u \in n + 1..u /\ u \in Int /\ u + 1 \in Int
      /\ Len(In(u + 1)) <= Len(i)
  BY <1>0, <1>5
<1>8. Len(In(u)) = Len(i) + 1 /\ Len(In(u + 1)) = Len(i) /\ Alike(i, In(u + 1), Len(i))
  <2>1. Inside(i, In(u)) /\ Follows(list.node[u].cmd, In(u), In(u + 1))
    BY <1>2, <1>6, <1>7
  <2>2. /\ In(u) \in Seq(Bracket) /\ In(u + 1) \in Seq(Bracket) /\ i \in Seq(Bracket)
        /\ Len(i) \in Nat /\ Len(In(u + 1)) \in Nat
    BY <1>0, <1>1, <1>7
  <2>3. ~ Inside(i, In(u + 1))
    BY <1>7, <2>2 DEF Inside
  <2> HIDE DEF i
  <2> QED BY <2>1, <2>2, <2>3, StaysInside
<1>9. \A m \in n + 1..N : m \in E <=> All(In(m + 1)) = All(i)
  <2> TAKE m \in n + 1..N
  <2>1. m \in n..N /\ m \in Int /\ m + 1 \in Int /\ n \in Int
    BY <1>0
  <2>2. NrCmd(n, m, "tile") - NrCmd(n, m, "endtile") = All(In(m + 1)) - All(i)
    BY <2>1, CmdsCountTiles
  <2>3. NrCmd(n, m, "tile") \in Nat /\ NrCmd(n, m, "endtile") \in Nat
    BY <2>1, NrCmdLast
  <2>4. All(In(m + 1)) \in Nat /\ All(i) \in Nat
    <3>1. Len(In(m + 1)) \in Int /\ Len(i) \in Int
      BY <1>1, <2>1
    <3> QED BY <3>1, TilesFinite DEF All
  <2> HIDE DEF i
  <2> QED BY <2>2, <2>3, <2>4
<1>10. u \in E
  <2>1. NrTiles(i, 1, Len(i)) = NrTiles(In(u + 1), 1, Len(i))
    <3>1. Len(i) \in Int
      BY <1>0, <1>1
    <3> HIDE DEF i
    <3> QED BY <1>8, <3>1, TilesAlike
  <2>2. All(In(u + 1)) = All(i)
    BY <1>8, <2>1 DEF All
  <2> QED BY <1>7, <1>9, <2>2
<1>11. \A m \in E : u <= m
  <2> SUFFICES ASSUME NEW m \in E, m < u PROVE FALSE
    BY <1>0, <1>7
  <2>1. m \in n + 1..N /\ m + 1 \in n + 1..u /\ m + 1 \in Int
    BY <1>0, <1>7
  <2>2. All(In(m + 1)) = All(i)
    BY <1>9, <2>1
  <2>3. In(m + 1) \in Seq(Bracket) /\ i \in Seq(Bracket) /\ Inside(i, In(m + 1))
    <3>1. In(m + 1) \in Seq(Bracket) /\ i \in Seq(Bracket)
      BY <1>0, <1>1, <2>1
    <3>2. Inside(i, In(m + 1))
      BY <1>6, <2>1
    <3> QED BY <3>1, <3>2
  <2> HIDE DEF i
  <2> QED BY <2>2, <2>3, InsideCounts
<1>12. EndOfTile(n) = u
  <2>1. E \in SUBSET Int
    BY <1>0
  <2> HIDE DEF E
  <2>2. PICK e \in E : e = EndOfTile(n) /\ \A y \in E : e <= y
    BY <1>3, <1>10, <1>11
  <2> QED BY <1>10, <1>11, <2>1, <2>2
<1>13. Follows("tile", i, In(u))
  <2>1. Inside(i, In(u))
    BY <1>6, <1>7
  <2> QED BY <1>8, <2>1 DEF Follows, Inside, Begins
<1> QED BY <1>7, <1>12, <1>13

-----------------------------------------------------------------------------
(* Recording                                                               *)

\* L has the nodes of M, with rectangles of their own.
SameNodes(L, M) ==
  /\ L \in ListType
  /\ Len(L.node) = Len(M.node)
  /\ \A k \in 1..Len(M.node) :
       L.node[k].cmd = M.node[k].cmd /\ L.node[k].in = M.node[k].in

LEMMA UnionType ==
  ASSUME NEW r, NEW s
  PROVE  Union(r, s) \in SUBSET Cells
BY DEF Union

\* A rectangle shrinks; the node stays what it is.
WithRect(node, n, r) == [node EXCEPT ![n].rect = r]

LEMMA RectChanged ==
  ASSUME NEW node \in Seq(NodeType), NEW n, NEW r \in SUBSET Cells
  PROVE  /\ WithRect(node, n, r) \in Seq(NodeType)
         /\ Len(WithRect(node, n, r)) = Len(node)
         /\ \A k \in 1..Len(node) :
              /\ WithRect(node, n, r)[k].cmd = node[k].cmd
              /\ WithRect(node, n, r)[k].in = node[k].in
<1> DEFINE new == WithRect(node, n, r)
<1>1. Len(node) \in Nat /\ DOMAIN node = 1..Len(node)
  OBVIOUS
<1>2. new = [k \in 1..Len(node) |-> IF k = n THEN [node[k] EXCEPT !.rect = r] ELSE node[k]]
  BY <1>1 DEF WithRect
<1>3. \A k \in 1..Len(node) :
        /\ [node[k] EXCEPT !.rect = r] \in NodeType
        /\ [node[k] EXCEPT !.rect = r].cmd = node[k].cmd
        /\ [node[k] EXCEPT !.rect = r].in = node[k].in
  <2> TAKE k \in 1..Len(node)
  <2>1. node[k] \in NodeType
    OBVIOUS
  <2> QED BY <2>1 DEF NodeType
<1> HIDE DEF new
<1>4. \A k \in 1..Len(node) :
        /\ new[k] \in NodeType
        /\ new[k].cmd = node[k].cmd /\ new[k].in = node[k].in
  BY <1>2, <1>3
<1>5. DOMAIN new = 1..Len(node)
  BY <1>2
<1>6. new \in Seq(NodeType) /\ Len(new) = Len(node)
  <2>1. new = [k \in 1..Len(node) |-> new[k]]
    BY <1>2, <1>5
  <2>2. new \in [1..Len(node) -> NodeType]
    BY <1>4, <2>1
  <2> QED BY <1>1, <1>5, <2>2
<1> QED BY <1>4, <1>6 DEF new

\* a change of the stack, of a counter, or of a rectangle
LEMMA StackChanged ==
  ASSUME NEW L \in ListType, NEW stack \in StackType, NEW top \in Nat, NEW tiled \in Int
  PROVE  /\ SameNodes(L, L)
         /\ SameNodes([L EXCEPT !.stack = stack], L)
         /\ SameNodes([L EXCEPT !.top = top], L)
         /\ SameNodes([L EXCEPT !.tiled = tiled], L)
         /\ SameNodes([L EXCEPT !.stack = stack, !.top = top], L)
         /\ SameNodes([L EXCEPT !.tiled = tiled, !.stack = stack], L)
BY DEF ListType, SameNodes

LEMMA NodesChanged ==
  ASSUME NEW L \in ListType, NEW top \in Nat, NEW node \in Seq(NodeType),
         Len(node) = Len(L.node),
         \A k \in 1..Len(L.node) :
           node[k].cmd = L.node[k].cmd /\ node[k].in = L.node[k].in
  PROVE  SameNodes([L EXCEPT !.top = top, !.node = node], L)
BY DEF ListType, SameNodes

LEMMA SameTwice ==
  ASSUME NEW L, NEW M, NEW O, SameNodes(L, M), SameNodes(M, O)
  PROVE  SameNodes(L, O)
BY DEF SameNodes

LEMMA PushSame ==
  ASSUME NEW L \in ListType, NEW n \in Nat
  PROVE  SameNodes(Push(L, n), L)
<1>0. StackSize \in Nat /\ L.top \in Nat /\ L.stack \in StackType /\ L.tiled \in Int
  BY ListAssumption DEF ListType
<1>1. IF L.top < StackSize
      THEN [L.stack EXCEPT ![L.top + 1] = [update |-> n, rect |-> {}]] \in StackType
      ELSE L.stack \in StackType
  BY <1>0 DEF StackType
<1>2. L.top + 1 \in Nat
  BY <1>0
<1> DEFINE stack == IF L.top < StackSize
                    THEN [L.stack EXCEPT ![L.top + 1] = [update |-> n, rect |-> {}]]
                    ELSE L.stack
<1>3. stack \in StackType
  BY <1>1
<1>4. Push(L, n) = [L EXCEPT !.stack = stack, !.top = L.top + 1]
  BY DEF Push
<1> HIDE DEF stack
<1> QED BY <1>0, <1>2, <1>3, <1>4, StackChanged

LEMMA CoverSame ==
  ASSUME NEW L \in ListType, NEW rect \in SUBSET Cells
  PROVE  SameNodes(Cover(L, rect), L) /\ Cover(L, rect) \in ListType
<1>0. StackSize \in Nat /\ L.top \in Nat /\ L.stack \in StackType /\ L.tiled \in Int
  BY ListAssumption DEF ListType
<1>1. CASE L.top \in 1..StackSize /\ L.tiled = 0
  <2> DEFINE stack == [L.stack EXCEPT ![L.top].rect = Union(L.stack[L.top].rect, rect)]
  <2>1. stack \in StackType
    BY <1>0, <1>1, UnionType DEF StackType
  <2>2. Cover(L, rect) = [L EXCEPT !.stack = stack]
    BY <1>1 DEF Cover
  <2> HIDE DEF stack
  <2>3. SameNodes([L EXCEPT !.stack = stack], L)
    BY <1>0, <2>1, StackChanged
  <2> QED BY <2>2, <2>3, Zenon DEF SameNodes
<1>2. CASE ~ (L.top \in 1..StackSize /\ L.tiled = 0)
  BY <1>0, <1>2, StackChanged DEF Cover, SameNodes
<1> QED BY <1>1, <1>2

LEMMA PopSame ==
  ASSUME NEW L \in ListType, NEW n \in Nat
  PROVE  SameNodes(Pop(L, n), L)
<1>0. /\ StackSize \in Nat /\ L.top \in Nat /\ L.stack \in StackType /\ L.tiled \in Int
      /\ L.node \in Seq(NodeType) /\ Cells \in SUBSET Cells
  BY ListAssumption DEF ListType
<1>1. ASSUME NEW top \in Nat, NEW r \in SUBSET Cells
      PROVE  SameNodes([L EXCEPT !.top = top, !.node[n].rect = r], L)
  <2> DEFINE node == WithRect(L.node, n, r)
  <2>1. /\ node \in Seq(NodeType) /\ Len(node) = Len(L.node)
        /\ \A k \in 1..Len(L.node) :
             node[k].cmd = L.node[k].cmd /\ node[k].in = L.node[k].in
    BY <1>0, RectChanged
  <2>2. [L EXCEPT !.top = top, !.node[n].rect = r] = [L EXCEPT !.top = top, !.node = node]
    BY DEF ListType, WithRect
  <2> HIDE DEF node
  <2> QED BY <2>1, <2>2, NodesChanged
<1>2. CASE L.top > StackSize
  <2> DEFINE M == [L EXCEPT !.top = L.top - 1, !.node[n].rect = Cells]
  <2>1. L.top - 1 \in Nat
    BY <1>0, <1>2
  <2>2. SameNodes(M, L) /\ M \in ListType
    BY <1>0, <1>1, <2>1 DEF SameNodes
  <2>3. Pop(L, n) = Cover(M, Cells)
    BY <1>2 DEF Pop
  <2> HIDE DEF M
  <2> QED BY <1>0, <2>2, <2>3, CoverSame, SameTwice
<1>3. CASE ~ (L.top > StackSize) /\ L.top = 0
  <2>1. Pop(L, n) = L
    BY <1>3 DEF Pop
  <2> QED BY <1>0, <2>1, StackChanged
<1>4. CASE ~ (L.top > StackSize) /\ L.top # 0 /\ L.tiled > 0
  <2>1. Pop(L, n) = [L EXCEPT !.top = L.top - 1, !.node[n].rect = Cells]
    BY <1>4 DEF Pop
  <2>2. L.top - 1 \in Nat
    BY <1>0, <1>4
  <2> QED BY <1>0, <1>1, <2>1, <2>2
<1>5. CASE ~ (L.top > StackSize) /\ L.top # 0 /\ ~ (L.tiled > 0)
  <2> DEFINE u == L.stack[L.top].update
  <2> DEFINE r == Shrunk(L)
  <2> DEFINE node == IF u = 0 THEN L.node ELSE WithRect(L.node, u, r)
  <2> DEFINE last == WithRect(node, n, r)
  <2> DEFINE M == [L EXCEPT !.top = L.top - 1, !.node = last]
  <2>1. L.top \in 1..StackSize /\ L.top - 1 \in Nat
    BY <1>0, <1>5
  <2>2. L.stack[L.top].rect \in SUBSET Cells
    BY <1>0, <2>1 DEF StackType
  <2>3. r \in SUBSET Cells
    BY <2>2 DEF Shrunk
  <2>4. Pop(L, n) = Cover(M, r)
    BY <1>5 DEF Pop, WithRect
  <2> HIDE DEF r, u
  <2>5. /\ node \in Seq(NodeType) /\ Len(node) = Len(L.node)
        /\ \A k \in 1..Len(L.node) :
             node[k].cmd = L.node[k].cmd /\ node[k].in = L.node[k].in
    <3>1. CASE u = 0
      BY <1>0, <3>1
    <3>2. CASE u # 0
      BY <1>0, <2>3, <3>2, RectChanged
    <3> QED BY <3>1, <3>2
  <2> HIDE DEF node
  <2>6. /\ last \in Seq(NodeType) /\ Len(last) = Len(L.node)
        /\ \A k \in 1..Len(L.node) :
             last[k].cmd = L.node[k].cmd /\ last[k].in = L.node[k].in
    BY <2>3, <2>5, RectChanged
  <2> HIDE DEF last
  <2>7. SameNodes(M, L)
    BY <2>1, <2>6, NodesChanged
  <2>8. M \in ListType
    BY <2>7 DEF SameNodes
  <2> HIDE DEF M
  <2> QED BY <2>3, <2>4, <2>7, <2>8, CoverSame, SameTwice
<1> QED BY <1>2, <1>3, <1>4, <1>5

LEMMA BeginTileSame ==
  ASSUME NEW L \in ListType
  PROVE  SameNodes(BeginTile(L), L)
<1>0. StackSize \in Nat /\ L.top \in Nat /\ L.stack \in StackType /\ L.tiled \in Int
  BY ListAssumption DEF ListType
<1> DEFINE stack == IF L.top \in 1..StackSize
                    THEN [L.stack EXCEPT ![L.top].rect = Cells] ELSE L.stack
<1>1. stack \in StackType
  BY <1>0 DEF StackType
<1>2. L.tiled + 1 \in Int
  BY <1>0
<1>3. BeginTile(L) = [L EXCEPT !.tiled = L.tiled + 1, !.stack = stack]
  BY DEF BeginTile
<1> HIDE DEF stack
<1> QED BY <1>0, <1>1, <1>2, <1>3, StackChanged

\* fz_append_display_node adds one node, inside of what is open.
LEMMA RecordsOne ==
  ASSUME Typed, NEW cmd \in Cmds, NEW rect \in SUBSET Cells
  PROVE  /\ Recorded(cmd, rect) \in ListType
         /\ Len(Recorded(cmd, rect).node) = Len(list.node) + 1
         /\ \A k \in 1..Len(list.node) :
              /\ Recorded(cmd, rect).node[k].cmd = list.node[k].cmd
              /\ Recorded(cmd, rect).node[k].in = list.node[k].in
         /\ Recorded(cmd, rect).node[Len(list.node) + 1].cmd = cmd
         /\ Recorded(cmd, rect).node[Len(list.node) + 1].in = page.open
<1> DEFINE n == Len(list.node) + 1
<1> DEFINE new == Node(cmd, rect, page.open)
<1> DEFINE L == [list EXCEPT !.node = Append(list.node, new)]
<1> DEFINE R == Recorded(cmd, rect)
<1>1. /\ list \in ListType /\ list.node \in Seq(NodeType) /\ page.open \in Seq(Bracket)
      /\ list.tiled \in Int /\ n \in Nat /\ Len(list.node) \in Nat
  BY DEF Typed, ListType, DevType
<1>2. new \in NodeType /\ new.cmd = cmd /\ new.in = page.open
  BY <1>1 DEF NodeType, Node
<1>3. /\ Append(list.node, new) \in Seq(NodeType)
      /\ Len(Append(list.node, new)) = n
      /\ \A k \in 1..Len(list.node) : Append(list.node, new)[k] = list.node[k]
      /\ Append(list.node, new)[n] = new
  <2> HIDE DEF new
  <2> QED BY <1>1, <1>2
<1>4. L \in ListType /\ L.node = Append(list.node, new) /\ L.tiled = list.tiled
  <2> HIDE DEF new
  <2> QED BY <1>1, <1>3 DEF ListType
<1>5. R = CASE cmd \in {"clip", "image"} -> Push(L, n)
            [] cmd \in {"endmask", "text", "more"} -> Push(L, 0)
            [] cmd = "tile" -> BeginTile(L)
            [] cmd = "endtile" -> [L EXCEPT !.tiled = L.tiled - 1]
            [] cmd = "endgroup" -> L
            [] cmd = "pop" -> Pop(L, n)
            [] cmd \in {"fill", "mask", "group"} -> Cover(L, rect)
  BY Zenon DEF Recorded
<1> HIDE DEF L, R, new, n
<1>6. SameNodes(R, L)
  <2>0. L.tiled - 1 \in Int /\ L.tiled \in Int
    BY <1>1, <1>4
  <2>1. CASE cmd \in {"clip", "image"}
    BY <1>1, <1>4, <1>5, <2>1, PushSame
  <2>2. CASE cmd \in {"endmask", "text", "more"}
    BY <1>4, <1>5, <2>2, PushSame
  <2>3. CASE cmd = "tile"
    BY <1>4, <1>5, <2>3, BeginTileSame
  <2>4. CASE cmd = "endtile"
    <3>1. L.stack \in StackType /\ L.top \in Nat
      BY <1>4 DEF ListType
    <3> QED BY <1>4, <1>5, <2>0, <2>4, <3>1, StackChanged
  <2>5. CASE cmd = "endgroup"
    BY <1>4, <1>5, <2>5 DEF SameNodes
  <2>6. CASE cmd = "pop"
    BY <1>1, <1>4, <1>5, <2>6, PopSame
  <2>7. CASE cmd \in {"fill", "mask", "group"}
    BY <1>4, <1>5, <2>7, CoverSame
  <2> QED BY <2>1, <2>2, <2>3, <2>4, <2>5, <2>6, <2>7 DEF Cmds, Begins, Ends
<1>7. /\ R \in ListType /\ Len(R.node) = n
      /\ \A k \in 1..n : R.node[k].cmd = L.node[k].cmd /\ R.node[k].in = L.node[k].in
  BY <1>3, <1>4, <1>6, Zenon DEF SameNodes
<1>8. \A k \in 1..Len(list.node) :
        R.node[k].cmd = list.node[k].cmd /\ R.node[k].in = list.node[k].in
  <2> TAKE k \in 1..Len(list.node)
  <2>1. k \in 1..n
    BY <1>1 DEF n
  <2> QED BY <1>3, <1>4, <1>7, <2>1
<1>9. R.node[n].cmd = cmd /\ R.node[n].in = page.open
  <2>1. n \in 1..n
    BY <1>1 DEF n
  <2> QED BY <1>2, <1>3, <1>4, <1>7, <2>1
<1> QED BY <1>7, <1>8, <1>9 DEF R, n

\* A node that is recorded inside of what is open, and what is open afterwards.
LEMMA NodeRecorded ==
  ASSUME IInv, run.at = 0, UNCHANGED <<run, dev>>,
         NEW cmd \in Cmds, NEW rect \in SUBSET Cells, list' = Recorded(cmd, rect),
         page' \in DevType, Follows(cmd, page.open, page'.open)
  PROVE  IInv'
<1> DEFINE N == Len(list.node)
<1>1. Typed /\ Nesting /\ Replayed /\ N \in Nat
  BY InType DEF IInv
<1>2. /\ list' \in ListType /\ Len(list'.node) = N + 1
      /\ \A k \in 1..N : list'.node[k].cmd = list.node[k].cmd /\ list'.node[k].in = list.node[k].in
      /\ list'.node[N + 1].cmd = cmd /\ list'.node[N + 1].in = page.open
  BY <1>1, RecordsOne
<1>3. Typed'
  BY <1>1, <1>2 DEF Typed
<1>4. \A k \in 1..N + 1 : In(k)' = In(k)
  BY <1>1, <1>2 DEF In
<1>5. \A k \in Nat : k = N + 1 => In(k)' = page.open /\ In(k + 1)' = page'.open
  <2> SUFFICES ASSUME NEW k \in Nat, k = N + 1
               PROVE  In(k)' = page.open /\ In(k + 1)' = page'.open
    OBVIOUS
  <2>1. k \in 1..Len(list'.node) /\ k + 1 \notin 1..Len(list'.node)
    BY <1>1, <1>2
  <2>2. list'.node[k].in = page.open
    BY <1>2
  <2> QED BY <2>1, <2>2, Zenon DEF In
<1>6. \A k \in 1..N : list'.node[k].cmd = list.node[k].cmd
                      /\ In(k)' = In(k) /\ In(k + 1)' = In(k + 1)
  BY <1>1, <1>2, <1>4
<1>7. \A k \in 1..N + 1 : Follows(list'.node[k].cmd, In(k)', In(k + 1)')
  <2> TAKE k \in 1..N + 1
  <2>1. CASE k \in 1..N
    BY <1>1, <1>6, <2>1 DEF Nesting
  <2>2. CASE k = N + 1
    BY <1>1, <1>2, <1>5, <2>2
  <2> QED BY <1>1, <2>1, <2>2
<1>8. Len(In(1)') = 0
  <2>1. 1 \in 1..N + 1
    BY <1>1
  <2> QED BY <1>1, <1>4, <2>1 DEF Nesting
<1>9. Nesting'
  BY <1>2, <1>7, <1>8 DEF Nesting
<1>10. Replayed'
  BY <1>1 DEF Replayed
<1> QED BY <1>3, <1>9, <1>10 DEF IInv

\* A bracket that failed is not recorded, nor what is inside of it.
LEMMA NothingRecorded ==
  ASSUME IInv, run.at = 0, UNCHANGED <<list, run, dev>>,
         page' \in DevType, page'.open = page.open
  PROVE  IInv'
<1>1. Typed'
  BY DEF IInv, Typed
<1>2. \A k : In(k)' = In(k)
  BY DEF In
<1>3. Nesting'
  BY <1>2 DEF IInv, Nesting
<1>4. Replayed'
  BY DEF IInv, Replayed
<1> QED BY <1>1, <1>3, <1>4 DEF IInv

LEMMA InitHolds ==
  ASSUME Init
  PROVE  IInv
<1>1. StackSize \in Nat
  BY ListAssumption
<1>2. Typed
  BY <1>1 DEF Init, Typed, ListType, StackType, DevType
<1>3. Len(list.node) = 0 /\ In(1) = << >>
  BY DEF Init, In
<1>4. Nesting
  BY <1>3 DEF Nesting
<1>5. Replayed
  BY DEF Init, Replayed
<1> QED BY <1>2, <1>4, <1>5 DEF IInv

\* the brackets keep their rectangles
SamePlaces ==
  \A i \in 1..Len(page.open) : i \in 1..Len(page'.open) =>
    page'.open[i].rect = page.open[i].rect

\* A node is recorded, and does to the brackets what it should.
Adds(cmd, rect) ==
  /\ list' = Recorded(cmd, rect) /\ page' \in DevType
  /\ Follows(cmd, page.open, page'.open) /\ SamePlaces
  /\ cmd \in Begins => page'.open[Len(page'.open)].rect = rect

\* Each action that records adds a node, or nothing.
Records ==
  /\ run.at = 0 /\ UNCHANGED <<run, dev>> /\ page' \in DevType
  /\ \/ list' = list /\ page'.open = page.open
     \/ \E cmd \in Cmds, rect \in SUBSET Cells : Adds(cmd, rect)

LEMMA RecordsKeep ==
  ASSUME IInv, Records
  PROVE  IInv'
BY NodeRecorded, NothingRecorded DEF Records, Adds

LEMMA FillRecords ==
  ASSUME Typed, NEW rect \in FillRect, RecordFill(rect)
  PROVE  Records
<1>1. /\ run.at = 0 /\ page' = page /\ run' = run /\ dev' = dev
      /\ list' = IF page.err > 0 THEN list ELSE Recorded("fill", rect)
  BY DEF RecordFill, Recording
<1>2. page' \in DevType /\ page.open \in Seq(Bracket) /\ rect \in SUBSET Cells
  BY <1>1, ListAssumption DEF Typed, DevType
<1>3. CASE page.err > 0
  BY <1>1, <1>2, <1>3 DEF Records
<1>4. CASE ~ (page.err > 0)
  <2>1. Follows("fill", page.open, page'.open) /\ "fill" \in Cmds \ Begins
    BY <1>1 DEF Follows, Alike, Cmds, Begins
  <2>2. Adds("fill", rect)
    BY <1>1, <1>2, <1>4, <2>1 DEF Adds, SamePlaces
  <2> QED BY <1>1, <1>2, <2>1, <2>2 DEF Records
<1> QED BY <1>3, <1>4

LEMMA MoreRecords ==
  ASSUME Typed, RecordMore
  PROVE  Records
<1>1. /\ run.at = 0 /\ page' = page /\ run' = run /\ dev' = dev
      /\ list' = Recorded("more", Cells) /\ Cells \in SUBSET Cells
  BY DEF RecordMore, Recording
<1>2. page' \in DevType
  BY <1>1 DEF Typed
<1>3. Follows("more", page.open, page'.open) /\ "more" \in Cmds \ Begins
  BY <1>1 DEF Follows, Alike, Cmds, Begins
<1>4. Adds("more", Cells)
  BY <1>1, <1>2, <1>3 DEF Adds, SamePlaces
<1> QED BY <1>1, <1>2, <1>3, <1>4 DEF Records

\* A device that opens a bracket has one more open, or has it among the failed.
LEMMA OpenBrackets ==
  ASSUME NEW d \in DevType, NEW cmd \in Begins, NEW r \in SUBSET Cells,
         NEW e \in Open(d, [kind |-> cmd, rect |-> r])
  PROVE  /\ e \in DevType
         /\ e.err > 0 => e.open = d.open
         /\ ~ (e.err > 0) =>
              /\ Follows(cmd, d.open, e.open)
              /\ \A i \in 1..Len(d.open) : e.open[i] = d.open[i]
              /\ e.open[Len(e.open)].rect = r
<1> DEFINE new == [kind |-> cmd, rect |-> r]
<1>1. new \in Bracket /\ d.err \in Nat /\ d.open \in Seq(Bracket)
  BY DEF Bracket, DevType
<1>2. CASE d.err > 0
  <2>1. e = [d EXCEPT !.err = d.err + 1] /\ d.err + 1 \in Nat
    BY <1>1, <1>2 DEF Open
  <2>2. e \in DevType /\ e.open = d.open /\ e.err = d.err + 1
    BY <2>1, DevChanged
  <2> QED BY <1>1, <2>2
<1>3. CASE ~ (d.err > 0) /\ e = [d EXCEPT !.err = 1]
  <2>1. e \in DevType /\ e.open = d.open /\ e.err = 1
    BY <1>3, DevChanged
  <2> QED BY <2>1
<1>4. CASE ~ (d.err > 0) /\ e = [d EXCEPT !.open = Append(d.open, new)]
  <2>0. new.kind = cmd /\ new.rect = r
    OBVIOUS
  <2> HIDE DEF new
  <2>1. /\ Append(d.open, new) \in Seq(Bracket)
        /\ Len(Append(d.open, new)) = Len(d.open) + 1
        /\ \A i \in 1..Len(d.open) : Append(d.open, new)[i] = d.open[i]
        /\ Append(d.open, new)[Len(d.open) + 1] = new
        /\ Len(d.open) \in Nat
    BY <1>1
  <2>2. e \in DevType /\ e.open = Append(d.open, new) /\ e.err = d.err
    BY <1>4, <2>1, DevChanged
  <2>3. Follows(cmd, d.open, e.open)
    BY <2>0, <2>1, <2>2 DEF Follows, Alike
  <2> QED BY <1>1, <1>4, <2>0, <2>1, <2>2, <2>3
<1> QED BY <1>2, <1>3, <1>4 DEF Open

LEMMA OpenRecords ==
  ASSUME Typed, NEW kind \in Kind, NEW rect \in OpenRect, RecordOpen(kind, rect)
  PROVE  Records
<1>1. /\ run.at = 0 /\ run' = run /\ dev' = dev /\ kind \in Begins
      /\ page' \in Open(page, [kind |-> kind, rect |-> rect])
      /\ list' = IF page'.err > 0 THEN list ELSE Recorded(kind, rect)
  BY ListAssumption DEF RecordOpen, Recording, Begins
<1>2. page \in DevType /\ rect \in SUBSET Cells /\ kind \in Cmds
  BY <1>1, ListAssumption DEF Typed, Cmds
<1>3. /\ page' \in DevType
      /\ page'.err > 0 => page'.open = page.open
      /\ ~ (page'.err > 0) =>
           /\ Follows(kind, page.open, page'.open)
           /\ \A i \in 1..Len(page.open) : page'.open[i] = page.open[i]
           /\ page'.open[Len(page'.open)].rect = rect
  BY <1>1, <1>2, OpenBrackets
<1>4. CASE page'.err > 0
  BY <1>1, <1>3, <1>4 DEF Records
<1>5. CASE ~ (page'.err > 0)
  <2>1. Adds(kind, rect)
    BY <1>1, <1>3, <1>5 DEF Adds, SamePlaces
  <2> QED BY <1>1, <1>2, <1>3, <2>1 DEF Records
<1> QED BY <1>4, <1>5

LEMMA EndMaskRecords ==
  ASSUME Typed, RecordEndMask
  PROVE  Records
<1> DEFINE open == page.open
<1> DEFINE last == [Last(open) EXCEPT !.kind = "maskclip"]
<1>1. /\ run.at = 0 /\ run' = run /\ dev' = dev
      /\ page.err = 0 /\ open # << >> /\ Last(open).kind = "mask"
      /\ page' = [page EXCEPT !.open[Len(open)] = last]
      /\ list' = Recorded("endmask", {})
  BY DEF RecordEndMask, Recording, Innermost, EndMask
<1>2. page \in DevType /\ open \in Seq(Bracket) /\ Len(open) \in Nat /\ Len(open) > 0
  BY <1>1 DEF Typed, DevType
<1>3. Last(open) = open[Len(open)] /\ Last(open) \in Bracket
  BY <1>2 DEF Last
<1>4. last \in Bracket /\ last.kind = "maskclip" /\ last.rect = open[Len(open)].rect
  BY <1>3 DEF Bracket
<1> HIDE DEF last
<1> DEFINE new == [open EXCEPT ![Len(open)] = last]
<1>5. /\ new \in Seq(Bracket) /\ Len(new) = Len(open)
      /\ \A i \in 1..Len(open) - 1 : new[i] = open[i]
      /\ new[Len(open)] = last
  BY <1>2, <1>4
<1>6. page' = [page EXCEPT !.open = new]
  BY <1>1, <1>2 DEF DevType
<1> HIDE DEF new
<1>7. page' \in DevType /\ page'.open = new
  BY <1>2, <1>5, <1>6, DevChanged
<1>8. Follows("endmask", page.open, page'.open)
  BY <1>1, <1>2, <1>3, <1>4, <1>5, <1>7 DEF Follows, Alike
<1>9. "endmask" \in Cmds \ Begins /\ {} \in SUBSET Cells
  BY DEF Cmds, Begins
<1>10. SamePlaces
  BY <1>2, <1>4, <1>5, <1>7 DEF SamePlaces
<1>11. Adds("endmask", {})
  BY <1>1, <1>7, <1>8, <1>9, <1>10 DEF Adds
<1> QED BY <1>1, <1>7, <1>9, <1>11 DEF Records

LEMMA CloseRecords ==
  ASSUME Typed, RecordClose
  PROVE  Records
<1>1. /\ run.at = 0 /\ run' = run /\ dev' = dev
      /\ page.err > 0 \/ Innermost(Closed)
      /\ list' = IF page.err > 0 THEN list ELSE Recorded(EndOf(Last(page.open).kind), {})
      /\ page' = Close(page)
  BY DEF RecordClose, Closed
<1>2. page \in DevType /\ page.open \in Seq(Bracket) /\ page.err \in Nat
  BY DEF Typed, DevType
<1>3. CASE page.err > 0
  <2>1. page' = [page EXCEPT !.err = page.err - 1] /\ page.err - 1 \in Nat
    BY <1>1, <1>2, <1>3 DEF Close
  <2>2. page' \in DevType /\ page'.open = page.open
    BY <1>2, <2>1, DevChanged
  <2> QED BY <1>1, <1>3, <2>2 DEF Records
<1>4. CASE ~ (page.err > 0)
  <2> DEFINE open == page.open
  <2> DEFINE cmd == EndOf(Last(open).kind)
  <2>1. open # << >> /\ Last(open).kind \in Closed
    BY <1>1, <1>4 DEF Innermost
  <2>2. page' = [page EXCEPT !.open = Front(open)]
    BY <1>1, <1>4, <2>1 DEF Close
  <2>3. /\ Front(open) \in Seq(Bracket) /\ Len(Front(open)) = Len(open) - 1
        /\ \A i \in 1..Len(open) - 1 : Front(open)[i] = open[i]
        /\ Last(open) = open[Len(open)] /\ Len(open) \in Nat /\ Len(open) > 0
    BY <1>2, <2>1, SubSeqProperties DEF Front, Last
  <2>4. page' \in DevType /\ page'.open = Front(open)
    BY <1>2, <2>2, <2>3, DevChanged
  <2>5. cmd \in Ends
    BY DEF EndOf, Ends
  <2>6. Follows(cmd, open, page'.open)
    BY <2>1, <2>3, <2>4, <2>5 DEF Follows, Alike
  <2>7. cmd \in Cmds \ Begins /\ {} \in SUBSET Cells
    BY <2>5 DEF Cmds, Begins, Ends
  <2>8. SamePlaces
    BY <2>3, <2>4 DEF SamePlaces
  <2>9. Adds(cmd, {})
    BY <1>1, <1>4, <2>4, <2>6, <2>7, <2>8 DEF Adds
  <2> QED BY <1>1, <2>4, <2>7, <2>9 DEF Records
<1> QED BY <1>3, <1>4

-----------------------------------------------------------------------------
(* Replaying                                                               *)

\* The list stays; what a turn has to show is Matches at the next node.
LEMMA Goes ==
  ASSUME IInv, run.at > 0, UNCHANGED <<list, page>>,
         run' \in [at : Nat, clipped : Int, tiled : Int], run'.at > 0,
         dev' \in DevType, Matches(In(run'.at), dev', run'.clipped, run'.tiled)
  PROVE  IInv'
<1>1. Typed'
  BY DEF IInv, Typed
<1>2. \A k : In(k)' = In(k)
  BY DEF In
<1>3. Nesting'
  BY <1>2 DEF IInv, Nesting
<1>4. In(run.at)' = In(run'.at)
  BY DEF In
<1>5. Replayed'
  BY <1>4 DEF IInv, Replayed
<1> QED BY <1>1, <1>3, <1>5 DEF IInv

\* where the loop is
LEMMA Here ==
  ASSUME IInv, Running
  PROVE  /\ run.at \in Nat /\ run.at > 0 /\ run.clipped \in Int /\ run.tiled \in Int
         /\ run.at + 1 \in Nat /\ run.at + 1 > 0
         /\ In(run.at) \in Seq(Bracket) /\ In(run.at + 1) \in Seq(Bracket)
         /\ dev \in DevType /\ page.open = << >>
         /\ Next1.cmd \in Cmds /\ Next1.rect \in SUBSET Cells
         /\ Follows(Next1.cmd, In(run.at), In(run.at + 1))
         /\ Matches(In(run.at), dev, run.clipped, run.tiled)
         /\ run.clipped >= 0
         /\ ~ Skipped => run.clipped = 0
<1>1. Typed /\ Nesting /\ Replayed
  BY DEF IInv
<1>2. /\ run.at \in Nat /\ run.at \in 1..Len(list.node) /\ run.at > 0
      /\ run.clipped \in Int /\ run.tiled \in Int /\ dev \in DevType
      /\ run.at \in Int /\ run.at + 1 \in Int /\ run.at + 1 \in Nat /\ run.at + 1 > 0
  BY <1>1 DEF Typed, Running
<1>3. In(run.at) \in Seq(Bracket) /\ In(run.at + 1) \in Seq(Bracket)
  BY <1>1, <1>2, InType
<1>4. Next1.cmd \in Cmds /\ Next1.rect \in SUBSET Cells
  BY <1>1, <1>2, InType DEF Next1
<1>5. Follows(Next1.cmd, In(run.at), In(run.at + 1))
  BY <1>1, <1>2 DEF Nesting, Next1
<1>6. page.open = << >> /\ Matches(In(run.at), dev, run.clipped, run.tiled)
  BY <1>1, <1>2 DEF Replayed
<1>7. run.clipped >= 0
  BY <1>2, <1>3, <1>6, ClippedSays
<1>8. ~ Skipped => run.clipped = 0
  BY <1>2, <1>7 DEF Skipped
<1> QED BY <1>2, <1>3, <1>4, <1>5, <1>6, <1>7, <1>8

\* the next node, with counters of its own
LEMMA RunTo ==
  ASSUME Typed, NEW at \in Nat, NEW c \in Int, NEW n \in Int
  PROVE  /\ [run EXCEPT !.at = at, !.clipped = c] \in [at : Nat, clipped : Int, tiled : Int]
         /\ [run EXCEPT !.at = at, !.clipped = c].at = at
         /\ [run EXCEPT !.at = at, !.clipped = c].clipped = c
         /\ [run EXCEPT !.at = at, !.clipped = c].tiled = run.tiled
         /\ [run EXCEPT !.at = at, !.tiled = n] \in [at : Nat, clipped : Int, tiled : Int]
         /\ [run EXCEPT !.at = at, !.tiled = n].at = at
         /\ [run EXCEPT !.at = at, !.tiled = n].clipped = run.clipped
         /\ [run EXCEPT !.at = at, !.tiled = n].tiled = n
         /\ [run EXCEPT !.at = at] \in [at : Nat, clipped : Int, tiled : Int]
         /\ [run EXCEPT !.at = at].at = at
         /\ [run EXCEPT !.at = at].clipped = run.clipped
         /\ [run EXCEPT !.at = at].tiled = run.tiled
BY DEF Typed

LEMMA ReplayKeeps ==
  ASSUME IInv, Replay
  PROVE  IInv'
<1>1. Typed /\ Nesting /\ Replayed
  BY DEF IInv
<1>2. /\ run.at = 0 /\ page.open = << >> /\ run' = [run EXCEPT !.at = 1]
      /\ list' = list /\ page' = page /\ dev' = dev
  BY DEF Replay
<1>3. /\ run' \in [at : Nat, clipped : Int, tiled : Int]
      /\ run'.at = 1 /\ run'.clipped = 0 /\ run'.tiled = 0
      /\ dev.open = << >> /\ dev.err = 0 /\ dev \in DevType
  BY <1>1, <1>2, RunTo DEF Replayed, Typed
<1>4. In(1) \in Seq(Bracket) /\ Len(In(1)) = 0
  BY <1>1, InType DEF Nesting
<1>5. Matches(In(1), dev, 0, 0)
  <2>1. Begun(dev) = 0 /\ Len(dev.open) = 0
    BY <1>3 DEF Begun
  <2>2. NrTiles(In(1), 1, 0) = 0
    BY TilesFinite
  <2>3. Alike(In(1), dev.open, Len(dev.open))
    BY <2>1 DEF Alike
  <2> QED BY <1>3, <1>4, <2>1, <2>2, <2>3, VisibleMatches
<1>6. Typed'
  BY <1>1, <1>2, <1>3 DEF Typed
<1>7. \A k : In(k)' = In(k)
  BY <1>2 DEF In
<1>8. Nesting'
  BY <1>1, <1>2, <1>7 DEF Nesting
<1>9. In(run.at)' = In(1)
  BY <1>2, <1>3 DEF In
<1>10. Replayed'
  BY <1>2, <1>3, <1>5, <1>9 DEF Replayed
<1> QED BY <1>6, <1>8, <1>10 DEF IInv

LEMMA SkipKeeps ==
  ASSUME IInv, Skip
  PROVE  IInv'
<1>1. /\ Running /\ Skipped /\ list' = list /\ page' = page /\ dev' = dev
      /\ run' = [run EXCEPT !.at = run.at + 1,
                            !.clipped = run.clipped + ClippedBy(Next1.cmd)]
  BY DEF Skip
<1>2. /\ run.at \in Nat /\ run.at > 0 /\ run.clipped \in Int /\ run.tiled \in Int
      /\ run.at + 1 \in Nat /\ run.at + 1 > 0
      /\ In(run.at) \in Seq(Bracket) /\ In(run.at + 1) \in Seq(Bracket)
      /\ dev \in DevType /\ Next1.cmd \in Cmds
      /\ Follows(Next1.cmd, In(run.at), In(run.at + 1))
      /\ Matches(In(run.at), dev, run.clipped, run.tiled)
  BY <1>1, Here
<1>3. run.clipped > 0 \/ Next1.cmd \in (Begins \ {"tile"}) \cup {"fill", "more"}
  BY <1>1, <1>2 DEF Skipped, Empty, Cmds, Ends
<1>4. Matches(In(run.at + 1), dev, run.clipped + ClippedBy(Next1.cmd), run.tiled)
  BY <1>2, <1>3, SkipMatches
<1>5. run.clipped + ClippedBy(Next1.cmd) \in Int
  BY <1>2 DEF ClippedBy
<1>6. /\ run' \in [at : Nat, clipped : Int, tiled : Int] /\ run'.at = run.at + 1
      /\ run'.clipped = run.clipped + ClippedBy(Next1.cmd) /\ run'.tiled = run.tiled
  BY <1>1, <1>2, <1>5, RunTo DEF IInv
<1> QED BY <1>1, <1>2, <1>4, <1>6, Goes

\* a turn that passes a node on, without a change of the counters
LEMMA Passes ==
  ASSUME IInv, NEW cmds, Visible(cmds), Step, UNCHANGED <<list, page>>,
         dev' \in DevType, Matches(In(run.at + 1), dev', 0, run.tiled)
  PROVE  IInv'
<1>1. /\ Running /\ ~ Skipped /\ run' = [run EXCEPT !.at = run.at + 1]
  BY DEF Visible, Step
<1>2. /\ run.at > 0 /\ run.at + 1 \in Nat /\ run.at + 1 > 0
      /\ run.clipped = 0 /\ run.tiled \in Int
  BY <1>1, Here
<1>3. /\ run' \in [at : Nat, clipped : Int, tiled : Int] /\ run'.at = run.at + 1
      /\ run'.clipped = 0 /\ run'.tiled = run.tiled
  BY <1>1, <1>2, RunTo DEF IInv
<1> QED BY <1>2, <1>3, Goes

LEMMA DrawKeeps ==
  ASSUME IInv, Draw
  PROVE  IInv'
<1>1. /\ Visible({"fill", "more"}) /\ Running /\ ~ Skipped /\ Step
      /\ Next1.cmd \in {"fill", "more"} /\ list' = list /\ page' = page /\ dev' = dev
  BY DEF Draw, Visible
<1>2. /\ In(run.at) \in Seq(Bracket) /\ In(run.at + 1) \in Seq(Bracket)
      /\ dev \in DevType /\ run.tiled \in Int /\ run.clipped = 0
      /\ Follows(Next1.cmd, In(run.at), In(run.at + 1))
      /\ Matches(In(run.at), dev, run.clipped, run.tiled)
  BY <1>1, Here
<1>3. Matches(In(run.at + 1), dev, 0, run.tiled)
  BY <1>1, <1>2, DrawMatches
<1> QED BY <1>1, <1>2, <1>3, Passes

LEMMA BeginKeeps ==
  ASSUME IInv, BeginBracket, ~ IgnoreImage
  PROVE  IInv'
<1> DEFINE cmds == {"clip", "text", "image", "mask", "group"}
<1>1. /\ Visible(cmds) /\ Running /\ ~ Skipped /\ Step /\ Next1.cmd \in cmds
      /\ list' = list /\ page' = page
      /\ dev' \in Open(dev, [kind |-> Next1.cmd, rect |-> Next1.rect])
  BY DEF BeginBracket, Visible, Passed
<1>2. /\ In(run.at) \in Seq(Bracket) /\ In(run.at + 1) \in Seq(Bracket)
      /\ dev \in DevType /\ run.tiled \in Int /\ run.clipped = 0
      /\ Next1.rect \in SUBSET Cells
      /\ Follows(Next1.cmd, In(run.at), In(run.at + 1))
      /\ Matches(In(run.at), dev, run.clipped, run.tiled)
  BY <1>1, Here
<1>3. Next1.cmd \in Begins /\ Next1.cmd # "tile"
  BY <1>1 DEF Begins
<1>4. /\ dev' \in DevType
      /\ Matches(In(run.at + 1), dev', 0, run.tiled + IF Next1.cmd = "tile" THEN 1 ELSE 0)
  BY <1>1, <1>2, <1>3, BeginMatches
<1>5. run.tiled + (IF Next1.cmd = "tile" THEN 1 ELSE 0) = run.tiled
  BY <1>2, <1>3
<1>6. Matches(In(run.at + 1), dev', 0, run.tiled)
  BY <1>4, <1>5
<1> QED BY <1>1, <1>4, <1>6, Passes

LEMMA MaskKeeps ==
  ASSUME IInv, ReplayEndMask
  PROVE  IInv'
<1>1. /\ Visible({"endmask"}) /\ Running /\ ~ Skipped /\ Step /\ Next1.cmd = "endmask"
      /\ list' = list /\ page' = page /\ dev' = EndMask(dev)
  BY DEF ReplayEndMask, Visible
<1>2. /\ In(run.at) \in Seq(Bracket) /\ In(run.at + 1) \in Seq(Bracket)
      /\ dev \in DevType /\ run.tiled \in Int /\ run.clipped = 0
      /\ Follows(Next1.cmd, In(run.at), In(run.at + 1))
      /\ Matches(In(run.at), dev, run.clipped, run.tiled)
  BY <1>1, Here
<1>3. dev' \in DevType /\ Matches(In(run.at + 1), dev', 0, run.tiled)
  BY <1>1, <1>2, MaskMatches
<1> QED BY <1>1, <1>3, Passes

LEMMA EndKeeps ==
  ASSUME IInv, EndBracket
  PROVE  IInv'
<1>1. /\ Visible({"pop", "endgroup"}) /\ Running /\ ~ Skipped /\ Step
      /\ Next1.cmd \in {"pop", "endgroup"}
      /\ list' = list /\ page' = page /\ dev' = Close(dev)
  BY DEF EndBracket, Visible
<1>2. /\ In(run.at) \in Seq(Bracket) /\ In(run.at + 1) \in Seq(Bracket)
      /\ dev \in DevType /\ run.tiled \in Int /\ run.clipped = 0
      /\ Follows(Next1.cmd, In(run.at), In(run.at + 1))
      /\ Matches(In(run.at), dev, run.clipped, run.tiled)
  BY <1>1, Here
<1>3. Next1.cmd \in Ends /\ Next1.cmd # "endtile"
  BY <1>1 DEF Ends
<1>4. /\ dev' \in DevType
      /\ Matches(In(run.at + 1), dev', 0, run.tiled - IF Next1.cmd = "endtile" THEN 1 ELSE 0)
  BY <1>1, <1>2, <1>3, EndMatches
<1>5. run.tiled - (IF Next1.cmd = "endtile" THEN 1 ELSE 0) = run.tiled
  BY <1>2, <1>3
<1>6. Matches(In(run.at + 1), dev', 0, run.tiled)
  BY <1>4, <1>5
<1> QED BY <1>1, <1>4, <1>6, Passes

LEMMA TileKeeps ==
  ASSUME IInv, ReplayTile
  PROVE  IInv'
<1>1. /\ Running /\ ~ Skipped /\ Next1.cmd = "tile" /\ list' = list /\ page' = page
      /\ dev' \in Open(dev, [kind |-> Next1.cmd, rect |-> Next1.rect])
  BY DEF ReplayTile, Visible, Passed
<1>2. /\ In(run.at) \in Seq(Bracket) /\ In(run.at + 1) \in Seq(Bracket)
      /\ dev \in DevType /\ run.tiled \in Int /\ run.clipped = 0 /\ run.at > 0
      /\ run.at + 1 \in Nat /\ run.at + 1 > 0
      /\ Next1.rect \in SUBSET Cells /\ page.open = << >>
      /\ Follows("tile", In(run.at), In(run.at + 1))
      /\ Matches(In(run.at), dev, 0, run.tiled)
  BY <1>1, Here
<1>3. /\ EndOfTile(run.at) \in Nat /\ EndOfTile(run.at) > 0
      /\ In(EndOfTile(run.at)) \in Seq(Bracket)
      /\ Follows("tile", In(run.at), In(EndOfTile(run.at)))
  <2>1. /\ run.at \in 1..Len(list.node) /\ list.node[run.at].cmd = "tile"
        /\ Typed /\ Nesting
    BY <1>1 DEF Running, Next1, IInv
  <2>2. /\ EndOfTile(run.at) \in 1..Len(list.node)
        /\ Follows("tile", In(run.at), In(EndOfTile(run.at)))
    BY <1>2, <2>1, TileEnds
  <2>3. Len(list.node) \in Nat
    BY <2>1, InType
  <2>4. EndOfTile(run.at) \in Int /\ EndOfTile(run.at) \in Nat /\ EndOfTile(run.at) > 0
    BY <2>2, <2>3
  <2> QED BY <2>1, <2>2, <2>4, InType
<1>4. PICK next \in {run.at + 1, EndOfTile(run.at)} :
        run' = [run EXCEPT !.at = next, !.tiled = run.tiled + 1]
  BY DEF ReplayTile
<1>5. /\ next \in Nat /\ next > 0 /\ In(next) \in Seq(Bracket)
      /\ Follows("tile", In(run.at), In(next)) /\ run.tiled + 1 \in Int
  BY <1>2, <1>3, <1>4
<1>6. dev' \in DevType /\ Matches(In(next), dev', 0, run.tiled + IF "tile" = "tile" THEN 1 ELSE 0)
  <2>1. "tile" \in Begins
    BY DEF Begins
  <2> QED BY <1>1, <1>2, <1>5, <2>1, BeginMatches
<1>7. /\ run' \in [at : Nat, clipped : Int, tiled : Int] /\ run'.at = next
      /\ run'.clipped = 0 /\ run'.tiled = run.tiled + 1
  BY <1>2, <1>4, <1>5, RunTo DEF IInv
<1> QED BY <1>1, <1>2, <1>5, <1>6, <1>7, Goes

LEMMA EndTileKeeps ==
  ASSUME IInv, ReplayEndTile
  PROVE  IInv'
<1>1. /\ Running /\ ~ Skipped /\ Next1.cmd = "endtile" /\ list' = list /\ page' = page
      /\ dev' = Close(dev)
      /\ run' = [run EXCEPT !.at = run.at + 1, !.tiled = run.tiled - 1]
  BY DEF ReplayEndTile, Visible
<1>2. /\ In(run.at) \in Seq(Bracket) /\ In(run.at + 1) \in Seq(Bracket)
      /\ dev \in DevType /\ run.tiled \in Int /\ run.clipped = 0 /\ run.at > 0
      /\ run.at + 1 \in Nat /\ run.at + 1 > 0 /\ run.tiled - 1 \in Int
      /\ Follows("endtile", In(run.at), In(run.at + 1))
      /\ Matches(In(run.at), dev, 0, run.tiled)
  BY <1>1, Here
<1>3. /\ dev' \in DevType
      /\ Matches(In(run.at + 1), dev', 0, run.tiled - IF "endtile" = "endtile" THEN 1 ELSE 0)
  <2>1. "endtile" \in Ends
    BY DEF Ends
  <2> QED BY <1>1, <1>2, <2>1, EndMatches
<1>4. /\ run' \in [at : Nat, clipped : Int, tiled : Int] /\ run'.at = run.at + 1
      /\ run'.clipped = 0 /\ run'.tiled = run.tiled - 1
  BY <1>1, <1>2, RunTo DEF IInv
<1> QED BY <1>1, <1>2, <1>3, <1>4, Goes

\* The invariant holds always, whatever is recorded and whatever fails, unless
\* the device ignores images (section 6 of the README has what happens then).
THEOREM Inductive ==
  ASSUME ~ IgnoreImage
  PROVE  Spec => []IInv
<1>1. Init => IInv
  BY InitHolds
<1>2. IInv /\ [Next]_vars => IInv'
  <2> SUFFICES ASSUME IInv, [Next]_vars PROVE IInv'
    OBVIOUS
  <2>1. CASE UNCHANGED vars
    <3>1. \A k : In(k)' = In(k)
      BY <2>1 DEF vars, In
    <3>2. In(run.at)' = In(run.at)
      BY <2>1 DEF vars, In
    <3> QED BY <2>1, <3>1, <3>2 DEF vars, IInv, Typed, Nesting, Replayed
  <2>2. CASE \E rect \in FillRect : RecordFill(rect)
    BY <2>2, FillRecords, RecordsKeep DEF IInv
  <2>3. CASE \E kind \in Kind, rect \in OpenRect : RecordOpen(kind, rect)
    BY <2>3, OpenRecords, RecordsKeep DEF IInv
  <2>4. CASE RecordMore \/ RecordEndMask \/ RecordClose \/ Replay
    <3>1. RecordMore \/ RecordEndMask \/ RecordClose => Records
      BY MoreRecords, EndMaskRecords, CloseRecords DEF IInv
    <3> QED BY <2>4, <3>1, RecordsKeep, ReplayKeeps
  <2>5. CASE Skip \/ Draw \/ BeginBracket \/ ReplayEndMask \/ EndBracket
    BY <2>5, SkipKeeps, DrawKeeps, BeginKeeps, MaskKeeps, EndKeeps
  <2>6. CASE ReplayTile \/ ReplayEndTile
    BY <2>6, TileKeeps, EndTileKeeps
  <2> QED BY <2>1, <2>2, <2>3, <2>4, <2>5, <2>6 DEF Next
<1> QED BY <1>1, <1>2, PTL DEF Spec

-----------------------------------------------------------------------------
(* What is promised                                                        *)

\* Tiles are counted in a part of the brackets as in the whole.
LEMMA AmongTiles ==
  ASSUME NEW s \in Seq(Bracket), NEW a \in Nat, NEW b \in Nat, 1 <= a, b <= Len(s)
  PROVE  Among({"tile"}, SubSeq(Kinds(s), a, b)) = NrTiles(s, a, b)
<1> DEFINE part == SubSeq(Kinds(s), a, b)
<1> DEFINE S == Tiles(s, a, b)
<1> DEFINE T == {i \in DOMAIN part : part[i] \in {"tile"}}
<1> DEFINE shift == [i \in S |-> i - a + 1]
<1> HIDE DEF part
<1>1. \A i \in a..b : Kinds(s)[i] = s[i].kind /\ Kinds(s)[i] \in {s[j].kind : j \in a..b}
  BY DEF Kinds
<1>2. DOMAIN part = 1..b - a + 1 /\ \A i \in 1..b - a + 1 : part[i] = s[i + a - 1].kind
  <2> DEFINE K == {s[j].kind : j \in a..b}
  <2>1. \A i \in a..b : Kinds(s)[i] \in K
    BY <1>1
  <2> HIDE DEF K
  <2>2. /\ part \in Seq(K)
        /\ Len(part) = IF a <= b THEN b - a + 1 ELSE 0
        /\ \A i \in 1..b - a + 1 : part[i] = Kinds(s)[a + i - 1]
    BY <2>1, SubSeqProperties DEF part
  <2>3. DOMAIN part = 1..b - a + 1
    BY <2>2
  <2>4. \A i \in 1..b - a + 1 : a + i - 1 \in a..b /\ a + i - 1 = i + a - 1
    OBVIOUS
  <2> QED BY <1>1, <2>2, <2>3, <2>4
<1>3. \A i \in S : i - a + 1 \in T
  BY <1>2 DEF Tiles
<1>4. \A j \in T : j + a - 1 \in S /\ j + a - 1 - a + 1 = j
  BY <1>2 DEF Tiles
<1>5. S \in SUBSET Int /\ T \in SUBSET Int
  BY <1>2 DEF Tiles
<1> HIDE DEF S, T
<1>6. shift \in Bijection(S, T)
  <2>1. shift \in [S -> T]
    BY <1>3
  <2>2. \A i, j \in S : shift[i] = shift[j] => i = j
    BY <1>5
  <2>3. \A j \in T : \E i \in S : shift[i] = j
    <3> TAKE j \in T
    <3> DEFINE i == j + a - 1
    <3>1. i \in S /\ i - a + 1 = j
      BY <1>4, <1>5
    <3> HIDE DEF i
    <3>2. shift[i] = j
      BY <3>1
    <3> QED BY <3>1, <3>2
  <2> QED BY <2>1, <2>2, <2>3, Fun_IsBij
<1>7. IsFiniteSet(S)
  BY TilesFinite DEF S
<1>8. Cardinality(T) = Cardinality(S)
  BY <1>6, <1>7, FS_Bijection DEF ExistsBijection
<1> QED BY <1>8 DEF Among, NrTiles, S, T, part

LEMMA KindsType ==
  ASSUME NEW s \in Seq(Bracket)
  PROVE  /\ Kinds(s) \in Seq(Begins \cup {"maskclip"}) /\ Len(Kinds(s)) = Len(s)
         /\ DOMAIN Kinds(s) = 1..Len(s)
         /\ \A i \in 1..Len(s) : Kinds(s)[i] = s[i].kind
<1>1. /\ Len(s) \in Nat /\ DOMAIN s = 1..Len(s)
      /\ \A i \in 1..Len(s) : s[i].kind \in Begins \cup {"maskclip"}
  <2>1. \A i \in 1..Len(s) : s[i] \in Bracket
    OBVIOUS
  <2>2. \A b \in Bracket : b.kind \in Begins \cup {"maskclip"}
    BY DEF Bracket
  <2> QED BY <2>1, <2>2
<1>2. Kinds(s) = [i \in 1..Len(s) |-> s[i].kind]
  BY <1>1 DEF Kinds
<1> QED BY <1>1, <1>2

\* What is begun is the outermost brackets around the node.
LEMMA OpenOutermost ==
  ASSUME NEW s \in Seq(Bracket), NEW o \in Seq(Bracket), Len(o) <= Len(s),
         Alike(s, o, Len(o))
  PROVE  Kinds(o) = SubSeq(Kinds(s), 1, Len(o))
<1> DEFINE K == Begins \cup {"maskclip"}
<1> DEFINE part == SubSeq(Kinds(s), 1, Len(o))
<1> HIDE DEF K
<1>1. /\ Kinds(s) \in Seq(K) /\ Len(Kinds(s)) = Len(s) /\ Len(s) \in Nat /\ Len(o) \in Nat
      /\ \A i \in 1..Len(s) : Kinds(s)[i] = s[i].kind
  BY KindsType DEF K
<1>2. /\ Kinds(o) \in Seq(K) /\ Len(Kinds(o)) = Len(o)
      /\ \A i \in 1..Len(o) : Kinds(o)[i] = o[i].kind
  BY KindsType DEF K
<1>3. \A i \in 1..Len(o) : i \in 1..Len(s) /\ Kinds(s)[i] \in K
  BY <1>1
<1>4. /\ part \in Seq(K) /\ Len(part) = Len(o)
      /\ \A i \in 1..Len(o) : part[i] = Kinds(s)[i]
  <2>1. /\ part \in Seq(K)
        /\ Len(part) = IF 1 <= Len(o) THEN Len(o) - 1 + 1 ELSE 0
        /\ \A i \in 1..Len(o) - 1 + 1 : part[i] = Kinds(s)[1 + i - 1]
    BY <1>1, <1>3, SubSeqProperties
  <2>2. Len(o) - 1 + 1 = Len(o) /\ \A i \in 1..Len(o) : 1 + i - 1 = i
    BY <1>1
  <2> HIDE DEF part
  <2> QED BY <1>1, <2>1, <2>2
<1> HIDE DEF part
<1>5. \A i \in 1..Len(o) : part[i] = Kinds(o)[i]
  BY <1>1, <1>2, <1>3, <1>4 DEF Alike
<1>6. part = Kinds(o)
  BY <1>1, <1>2, <1>4, <1>5, SeqEqual
<1> QED BY <1>6 DEF part

\* The device that a list is replayed to is given properly nested brackets:
\* those that are open are the outermost around the node, the next ones have
\* failed, and the rest is culled (fz_run_display_list and device.c).
THEOREM DeviceNested ==
  ASSUME ~ IgnoreImage
  PROVE  Spec => []DevNested
<1>1. IInv => DevNested
  <2> SUFFICES ASSUME IInv, run.at > 0 PROVE DevNested
    BY DEF DevNested
  <2> DEFINE s == In(run.at)
  <2> DEFINE b == Len(Kinds(dev.open)) + dev.err
  <2> DEFINE culled == SubSeq(Kinds(s), b + 1, Len(Kinds(s)))
  <2>1. /\ Typed /\ Matches(s, dev, run.clipped, run.tiled) /\ run.at \in Int
        /\ dev \in DevType /\ dev.open \in Seq(Bracket) /\ dev.err \in Nat
        /\ run.clipped \in Int /\ run.tiled \in Int
    BY DEF IInv, Typed, Replayed, DevType
  <2>2. s \in Seq(Bracket) /\ Len(s) \in Nat /\ Len(list.node) \in Nat
    <3>1. In(run.at) \in Seq(Bracket) /\ Len(list.node) \in Nat
      BY <2>1, InType
    <3> QED BY <3>1
  <2>3. Kinds(IF Running THEN Next1.in ELSE page.open) = Kinds(s)
    BY DEF In, Running, Next1
  <2> HIDE DEF s
  <2>4. Len(Kinds(s)) = Len(s) /\ Len(Kinds(dev.open)) = Len(dev.open)
    BY <2>1, <2>2, KindsType
  <2>5. b = Begun(dev) /\ b \in Nat /\ Len(dev.open) \in Nat /\ Len(dev.open) <= b
    BY <2>1, <2>4 DEF Begun
  <2>6. /\ b <= Len(s) /\ Alike(s, dev.open, Len(dev.open))
        /\ run.clipped = Len(s) - b - NrTiles(s, b + 1, Len(s))
        /\ run.tiled = NrTiles(s, 1, b)
        /\ run.clipped = 0 <=> b = Len(s)
    BY <2>1, <2>2, <2>5, ClippedSays DEF Matches
  <2>7. Kinds(dev.open) = SubSeq(Kinds(s), 1, Len(Kinds(dev.open)))
    BY <2>1, <2>2, <2>4, <2>5, <2>6, OpenOutermost
  <2>8. /\ Among({"tile"}, culled) = NrTiles(s, b + 1, Len(s))
        /\ Among({"tile"}, SubSeq(Kinds(s), 1, b)) = run.tiled
    <3>1. b + 1 \in Nat /\ 1 <= b + 1 /\ 1 \in Nat
      BY <2>5
    <3> HIDE DEF b
    <3> QED BY <2>2, <2>4, <2>5, <2>6, <3>1, AmongTiles
  <2>9. Len(culled) = Len(s) - b
    <3> DEFINE K == Begins \cup {"maskclip"}
    <3>1. Kinds(s) \in Seq(K) /\ b + 1 \in Int /\ Len(s) \in Int
      BY <2>2, <2>5, KindsType
    <3> HIDE DEF K, b
    <3>2. \A i \in b + 1..Len(s) : Kinds(s)[i] \in K
      BY <2>2, <2>4, <2>5, <3>1
    <3>3. Len(SubSeq(Kinds(s), b + 1, Len(s))) =
            IF b + 1 <= Len(s) THEN Len(s) - (b + 1) + 1 ELSE 0
      BY <3>1, <3>2, SubSeqProperties
    <3> QED BY <2>2, <2>4, <2>5, <2>6, <3>3
  <2>10. run.clipped = 0 => culled = << >>
    <3> HIDE DEF b
    <3>1. b + 1 \in Int /\ Len(s) \in Int /\ (run.clipped = 0 => Len(s) < b + 1)
      BY <2>2, <2>5, <2>6
    <3> QED BY <2>4, <3>1, SubSeqEmpty
  <2>11. b <= Len(Kinds(s)) /\ run.clipped = Len(culled) - Among({"tile"}, culled)
    <3> HIDE DEF b, culled
    <3> QED BY <2>4, <2>6, <2>8, <2>9
  <2> QED BY <2>3, <2>7, <2>8, <2>10, <2>11, Zenon DEF DevNested
<1>2. Spec => []IInv
  BY Inductive
<1> QED BY <1>1, <1>2, PTL

-----------------------------------------------------------------------------
(* Culling.  While there is no text that adds to a clip, the frames of      *)
(* list->stack are the clips that are open.                                 *)

\* There is no text that adds to a clip.
Plain == \A m \in DOMAIN list.node : list.node[m].cmd # "more"

Shut(s, a, b) == {i \in a..b : s[i].kind \in Clips}
NrClips(s, b) == Cardinality(Shut(s, 1, b))
NoTile(s, b) == \A i \in 1..b : s[i].kind # "tile"

\* c can be seen of node n
Sees(n, c) ==
  LET node == list.node[n]
      tiles == {i \in DOMAIN node.in : node.in[i].kind = "tile"}
      outside == {i \in DOMAIN node.in : \A j \in tiles : i < j}
  IN  /\ c \in Cells
      /\ \A i \in outside : c \in node.in[i].rect
      /\ tiles = {} => c \in node.rect
IsFill(n) == n \in 1..Len(list.node) /\ list.node[n].cmd = "fill"

\* the nodes from k on are inside of p brackets at least
Within(k, p) == \A j \in k..Len(list.node) + 1 : Len(In(j)) >= p
\* n is inside of the bracket that node b opens
Encloses(b, n) == b < n /\ \A j \in b + 1..n : Len(In(j)) > Len(In(b))
\* node b opens the bracket p of those that are open
Opens(b, p) ==
  /\ b \in 1..Len(list.node) /\ list.node[b].cmd \in Begins
  /\ Len(In(b)) = p - 1 /\ Within(b + 1, p)

\* n is among the contents of the clip p, so far as it is not in a clip inside of it
Holds(n, p) ==
  /\ p \in 1..Len(page.open) /\ Within(n, p) /\ NoTile(page.open, p)
  /\ In(n)[p].kind \in Clips

Closest(n, p) == Holds(n, p) /\ \A q \in p + 1..Len(page.open) : ~ Holds(n, q)
\* node b opens a bracket that is no tile and in none
Shows(b) == list.node[b].cmd \in Begins \ {"tile"} /\ NoTile(In(b), Len(In(b)))

Tally ==
  /\ list.top = NrClips(page.open, Len(page.open))
  /\ list.tiled = NrTiles(page.open, 1, Len(page.open))
Steady ==
  \A n \in 1..Len(list.node) + 1, p \in 1..Len(page.open) :
    Within(n, p) =>
      /\ \A i \in 1..p - 1 : In(n)[i].kind = page.open[i].kind
      /\ \/ In(n)[p].kind = page.open[p].kind
         \/ In(n)[p].kind = "mask" /\ page.open[p].kind = "maskclip"
Whole ==
  \A b \in 1..Len(list.node), p \in 1..Len(page.open) :
    Opens(b, p) => page.open[p].rect \subseteq list.node[b].rect
Updates ==
  \A p \in 1..Len(page.open) :
    LET f == NrClips(page.open, p)
        u == list.stack[f].update
    IN  page.open[p].kind \in Clips /\ f <= StackSize /\ u # 0
          => Opens(u, p) /\ page.open[p].kind \in {"clip", "image"}
Repeats ==
  \A p \in 1..Len(page.open) :
    LET f == NrClips(page.open, p)
    IN  page.open[p].kind = "tile" /\ NoTile(page.open, p - 1) /\ f \in 1..StackSize
          => list.stack[f].rect = Cells
Covers ==
  \A n \in 1..Len(list.node), p \in 1..Len(page.open), c \in Cells :
    LET f == NrClips(page.open, p)
    IN  IsFill(n) /\ Sees(n, c) /\ Closest(n, p) /\ f <= StackSize
          => c \in list.stack[f].rect
Enough ==
  \A b, n \in 1..Len(list.node), c \in Cells :
    Shows(b) /\ Encloses(b, n) /\ IsFill(n) /\ Sees(n, c) => c \in list.node[b].rect
Shrinks == Tally /\ Steady /\ Whole /\ Updates /\ Repeats /\ Covers /\ Enough

\* the clips that are open
LEMMA ClipsFinite ==
  ASSUME NEW s, NEW b \in Int
  PROVE  IsFiniteSet(Shut(s, 1, b)) /\ NrClips(s, b) \in Nat
<1>1. Shut(s, 1, b) \in SUBSET (1..b)
  BY DEF Shut
<1>2. IsFiniteSet(1..b)
  BY FS_Interval
<1>3. IsFiniteSet(Shut(s, 1, b))
  BY <1>1, <1>2, FS_Subset
<1> QED BY <1>3, FS_CardinalityType DEF NrClips

LEMMA ClipsLast ==
  ASSUME NEW s, NEW b \in Int, b >= 1
  PROVE  NrClips(s, b) = NrClips(s, b - 1) + IF s[b].kind \in Clips THEN 1 ELSE 0
<1>1. b - 1 \in Int /\ IsFiniteSet(Shut(s, 1, b - 1)) /\ NrClips(s, b - 1) \in Nat
  BY ClipsFinite
<1>2. b \notin Shut(s, 1, b - 1)
  BY DEF Shut
<1>3. CASE s[b].kind \in Clips
  <2>1. Shut(s, 1, b) = Shut(s, 1, b - 1) \cup {b}
    BY <1>3 DEF Shut
  <2> QED BY <1>1, <1>2, <1>3, <2>1, FS_AddElement DEF NrClips
<1>4. CASE s[b].kind \notin Clips
  <2>1. Shut(s, 1, b) = Shut(s, 1, b - 1)
    BY <1>4 DEF Shut
  <2> QED BY <1>1, <1>4, <2>1 DEF NrClips
<1> QED BY <1>3, <1>4

LEMMA ClipsGrow ==
  ASSUME NEW s, NEW a \in Int, NEW b \in Int, a <= b
  PROVE  NrClips(s, a) <= NrClips(s, b)
<1>1. Shut(s, 1, a) \in SUBSET Shut(s, 1, b)
  BY DEF Shut
<1>2. IsFiniteSet(Shut(s, 1, b))
  BY ClipsFinite
<1> QED BY <1>1, <1>2, FS_Subset DEF NrClips

\* A clip is counted from its place on.
LEMMA ClipsUpTo ==
  ASSUME NEW s, NEW a \in Int, NEW b \in Int, 1 <= b, a < b, s[b].kind \in Clips
  PROVE  NrClips(s, a) < NrClips(s, b)
<1>1. NrClips(s, b) = NrClips(s, b - 1) + 1
  BY ClipsLast
<1>2. NrClips(s, a) <= NrClips(s, b - 1)
  BY ClipsGrow
<1>3. NrClips(s, a) \in Nat /\ NrClips(s, b - 1) \in Nat
  BY ClipsFinite
<1> QED BY <1>1, <1>2, <1>3

LEMMA ClipsAlike ==
  ASSUME NEW s, NEW t, NEW b \in Int, NEW n \in Int, b <= n, Alike(s, t, n)
  PROVE  NrClips(s, b) = NrClips(t, b)
<1>1. \A i \in 1..b : s[i].kind = t[i].kind
  BY DEF Alike
<1>2. Shut(s, 1, b) = Shut(t, 1, b)
  BY <1>1, Zenon DEF Shut
<1> QED BY <1>2 DEF NrClips

\* Where there is no clip between, there are as many.
LEMMA ClipsBetween ==
  ASSUME NEW s, NEW a \in Int, NEW b \in Int, a <= b,
         \A i \in a + 1..b : s[i].kind \notin Clips
  PROVE  NrClips(s, a) = NrClips(s, b)
<1>1. Shut(s, 1, a) = Shut(s, 1, b)
  BY DEF Shut
<1> QED BY <1>1 DEF NrClips

LEMMA NoTileIs ==
  ASSUME NEW s, NEW b \in Int
  PROVE  NrTiles(s, 1, b) = 0 <=> NoTile(s, b)
<1>1. IsFiniteSet(Tiles(s, 1, b))
  BY TilesFinite
<1>2. Cardinality(Tiles(s, 1, b)) = 0 <=> Tiles(s, 1, b) = {}
  BY <1>1, FS_EmptySet
<1>3. Tiles(s, 1, b) = {} <=> NoTile(s, b)
  BY DEF Tiles, NoTile
<1> QED BY <1>2, <1>3 DEF NrTiles

LEMMA UnionHas ==
  ASSUME NEW r, NEW s, NEW c \in Cells, c \in r \cup s
  PROVE  c \in Union(r, s)
<1>1. c \in Int
  BY ListAssumption
<1> QED BY <1>1 DEF Union

\* What fz_append_display_node does to the stack and the rectangles.
LEMMA PushIs ==
  ASSUME NEW L \in ListType, NEW u \in Nat, NEW R, R = Push(L, u)
  PROVE  /\ R.node = L.node /\ R.top = L.top + 1 /\ R.tiled = L.tiled
         /\ \A f \in 1..StackSize : f # L.top + 1 => R.stack[f] = L.stack[f]
         /\ L.top + 1 \in 1..StackSize => R.stack[L.top + 1].update = u
<1>1. StackSize \in Nat /\ L.top \in Nat /\ L.stack \in StackType /\ L.top + 1 \in Nat
  BY ListAssumption DEF ListType
<1> DEFINE stack == IF L.top < StackSize
                    THEN [L.stack EXCEPT ![L.top + 1] = [update |-> u, rect |-> {}]]
                    ELSE L.stack
<1>2. /\ \A f \in 1..StackSize : f # L.top + 1 => stack[f] = L.stack[f]
      /\ L.top + 1 \in 1..StackSize => stack[L.top + 1].update = u
  BY <1>1 DEF StackType
<1>3. R = [L EXCEPT !.stack = stack, !.top = L.top + 1]
  BY DEF Push
<1> HIDE DEF stack
<1>4. R.node = L.node /\ R.top = L.top + 1 /\ R.tiled = L.tiled /\ R.stack = stack
  BY <1>1, <1>3 DEF ListType
<1> QED BY <1>2, <1>4

LEMMA CoverIs ==
  ASSUME NEW L \in ListType, NEW r, NEW R, R = Cover(L, r)
  PROVE  /\ R.node = L.node /\ R.top = L.top /\ R.tiled = L.tiled
         /\ \A f \in 1..StackSize :
              /\ R.stack[f].update = L.stack[f].update
              /\ R.stack[f].rect = IF f = L.top /\ L.tiled = 0
                                   THEN Union(L.stack[f].rect, r) ELSE L.stack[f].rect
<1>1. StackSize \in Nat /\ L.top \in Nat /\ L.stack \in StackType
  BY ListAssumption DEF ListType
<1>2. CASE L.top \in 1..StackSize /\ L.tiled = 0
  <2> DEFINE stack == [L.stack EXCEPT ![L.top].rect = Union(L.stack[L.top].rect, r)]
  <2>1. \A f \in 1..StackSize :
          /\ stack[f].update = L.stack[f].update
          /\ stack[f].rect = IF f = L.top THEN Union(L.stack[f].rect, r) ELSE L.stack[f].rect
    BY <1>1, <1>2 DEF StackType
  <2>2. R = [L EXCEPT !.stack = stack]
    BY <1>2 DEF Cover
  <2> HIDE DEF stack
  <2>3. R.node = L.node /\ R.top = L.top /\ R.tiled = L.tiled /\ R.stack = stack
    BY <2>2 DEF ListType
  <2> QED BY <1>2, <2>1, <2>3
<1>3. CASE ~ (L.top \in 1..StackSize /\ L.tiled = 0)
  BY <1>1, <1>3 DEF Cover
<1> QED BY <1>2, <1>3

LEMMA BeginTileIs ==
  ASSUME NEW L \in ListType, NEW R, R = BeginTile(L)
  PROVE  /\ R.node = L.node /\ R.top = L.top /\ R.tiled = L.tiled + 1
         /\ \A f \in 1..StackSize :
              /\ R.stack[f].update = L.stack[f].update
              /\ R.stack[f].rect = IF f = L.top THEN Cells ELSE L.stack[f].rect
<1>1. StackSize \in Nat /\ L.top \in Nat /\ L.stack \in StackType
  BY ListAssumption DEF ListType
<1> DEFINE stack == IF L.top \in 1..StackSize
                    THEN [L.stack EXCEPT ![L.top].rect = Cells] ELSE L.stack
<1>2. \A f \in 1..StackSize :
        /\ stack[f].update = L.stack[f].update
        /\ stack[f].rect = IF f = L.top THEN Cells ELSE L.stack[f].rect
  BY <1>1 DEF StackType
<1>3. R = [L EXCEPT !.tiled = L.tiled + 1, !.stack = stack]
  BY DEF BeginTile
<1> HIDE DEF stack
<1>4. R.node = L.node /\ R.top = L.top /\ R.tiled = L.tiled + 1 /\ R.stack = stack
  BY <1>1, <1>3 DEF ListType
<1> QED BY <1>2, <1>4

\* A clip is closed outside of every tile, and its frame is on the stack.
Shrinking(L) == L.top \in 1..StackSize /\ L.tiled = 0
\* what it is shrunk to, and what counts as contents of the clip around it
Content(L) == IF L.top > StackSize THEN Cells ELSE Shrunk(L)

LEMMA RectElsewhere ==
  ASSUME NEW node \in Seq(NodeType), NEW n, NEW r
  PROVE  \A k \in 1..Len(node) : k # n => WithRect(node, n, r)[k] = node[k]
BY DEF WithRect

LEMMA PopIs ==
  ASSUME NEW L \in ListType, L.tiled \in Nat, L.top > 0, NEW n \in Nat,
         NEW R, R = Pop(L, n)
  PROVE  /\ R.top = L.top - 1 /\ R.tiled = L.tiled
         /\ \A f \in 1..StackSize :
              /\ R.stack[f].update = L.stack[f].update
              /\ R.stack[f].rect = IF f = L.top - 1 /\ L.tiled = 0
                                   THEN Union(L.stack[f].rect, Content(L))
                                   ELSE L.stack[f].rect
         /\ \A k \in 1..Len(L.node) : k # n =>
              R.node[k].rect = IF Shrinking(L) /\ k = L.stack[L.top].update
                               THEN Shrunk(L) ELSE L.node[k].rect
<1>0. /\ StackSize \in Nat /\ L.top \in Nat /\ L.stack \in StackType
      /\ L.node \in Seq(NodeType) /\ L.top - 1 \in Nat /\ Cells \in SUBSET Cells
      /\ Len(L.node) \in Nat
  BY ListAssumption DEF ListType
<1>1. ASSUME NEW M \in ListType, M.stack = L.stack, M.top = L.top - 1, M.tiled = L.tiled,
             NEW r, R = Cover(M, r), L.tiled = 0 => r = Content(L)
      PROVE  /\ R.node = M.node /\ R.top = L.top - 1 /\ R.tiled = L.tiled
             /\ \A f \in 1..StackSize :
                  /\ R.stack[f].update = L.stack[f].update
                  /\ R.stack[f].rect = IF f = L.top - 1 /\ L.tiled = 0
                                       THEN Union(L.stack[f].rect, Content(L))
                                       ELSE L.stack[f].rect
  BY <1>1, CoverIs
<1>2. CASE L.top > StackSize
  <2> DEFINE node == WithRect(L.node, n, Cells)
             M == [L EXCEPT !.top = L.top - 1, !.node = node]
  <2>1. R = Cover(M, Cells)
    BY <1>2 DEF Pop, WithRect
  <2>2. node \in Seq(NodeType) /\ \A k \in 1..Len(L.node) : k # n => node[k] = L.node[k]
    <3>1. node \in Seq(NodeType)
      BY <1>0, RectChanged
    <3>2. \A k \in 1..Len(L.node) : k # n => node[k] = L.node[k]
      BY <1>0, RectElsewhere
    <3> QED BY <3>1, <3>2
  <2> HIDE DEF node
  <2>3. /\ M \in ListType /\ M.stack = L.stack /\ M.top = L.top - 1 /\ M.tiled = L.tiled
        /\ M.node = node
    BY <1>0, <2>2 DEF ListType
  <2> HIDE DEF M
  <2>4. Content(L) = Cells /\ ~ Shrinking(L)
    BY <1>0, <1>2 DEF Content, Shrinking
  <2> QED BY <1>1, <2>1, <2>2, <2>3, <2>4
<1>3. CASE ~ (L.top > StackSize) /\ L.tiled > 0
  <2> DEFINE node == WithRect(L.node, n, Cells)
  <2>1. R = [L EXCEPT !.top = L.top - 1, !.node = node]
    BY <1>0, <1>3 DEF Pop, WithRect
  <2>2. \A k \in 1..Len(L.node) : k # n => node[k] = L.node[k]
    BY <1>0 DEF WithRect
  <2> HIDE DEF node
  <2>3. R.stack = L.stack /\ R.top = L.top - 1 /\ R.tiled = L.tiled /\ R.node = node
    BY <2>1 DEF ListType
  <2> QED BY <1>3, <2>2, <2>3 DEF Shrinking
<1>4. CASE ~ (L.top > StackSize) /\ ~ (L.tiled > 0)
  <2> DEFINE u == L.stack[L.top].update
             r == Shrunk(L)
             node == IF u = 0 THEN L.node ELSE WithRect(L.node, u, r)
             last == WithRect(node, n, r)
             M == [L EXCEPT !.top = L.top - 1, !.node = last]
  <2>1. L.top \in 1..StackSize /\ L.tiled = 0 /\ Shrinking(L) /\ Content(L) = r
    BY <1>0, <1>4 DEF Shrinking, Content
  <2>2. L.stack[L.top].rect \in SUBSET Cells
    BY <1>0, <2>1 DEF StackType
  <2>3. r \in SUBSET Cells
    BY <2>2 DEF Shrunk
  <2>4. R = Cover(M, r)
    BY <1>0, <1>4 DEF Pop, WithRect
  <2> HIDE DEF r, u
  <2>5. /\ node \in Seq(NodeType) /\ Len(node) = Len(L.node)
        /\ \A k \in 1..Len(L.node) : node[k].rect = IF k = u THEN r ELSE L.node[k].rect
    <3>1. CASE u = 0
      BY <1>0, <3>1
    <3>2. CASE u # 0
      <4>1. node = WithRect(L.node, u, r)
        BY <3>2
      <4>2. /\ WithRect(L.node, u, r) \in Seq(NodeType)
            /\ Len(WithRect(L.node, u, r)) = Len(L.node)
        BY <1>0, <2>3, RectChanged
      <4>3. \A k \in 1..Len(L.node) :
              WithRect(L.node, u, r)[k].rect = IF k = u THEN r ELSE L.node[k].rect
        <5> TAKE k \in 1..Len(L.node)
        <5>1. L.node[k] \in NodeType
          BY <1>0
        <5> QED BY <1>0, <5>1 DEF WithRect, NodeType
      <4> QED BY <4>1, <4>2, <4>3, Zenon
    <3> QED BY <3>1, <3>2
  <2> HIDE DEF node
  <2>6. last \in Seq(NodeType) /\ \A k \in 1..Len(L.node) : k # n => last[k] = node[k]
    BY <2>3, <2>5, RectChanged, RectElsewhere
  <2> HIDE DEF last
  <2>7. /\ M \in ListType /\ M.stack = L.stack /\ M.top = L.top - 1 /\ M.tiled = L.tiled
        /\ M.node = last
    BY <1>0, <2>6 DEF ListType
  <2> HIDE DEF M
  <2>8. R.node = last
    BY <1>1, <2>1, <2>4, <2>7
  <2>9. \A k \in 1..Len(L.node) : k # n =>
          R.node[k].rect = IF k = L.stack[L.top].update THEN Shrunk(L) ELSE L.node[k].rect
    BY <2>5, <2>6, <2>8 DEF u, r
  <2> QED BY <1>1, <2>1, <2>4, <2>7, <2>9
<1> QED BY <1>0, <1>2, <1>3, <1>4

\* the list with one more node
Added(cmd, rect) == [list EXCEPT !.node = Append(@, Node(cmd, rect, page.open))]
\* list' has one more node, with these rectangles, and the stack is as it is
SameRects == \A k \in 1..Len(list.node) : list'.node[k].rect = list.node[k].rect

LEMMA AddedIs ==
  ASSUME Typed, NEW cmd \in Cmds, NEW rect \in SUBSET Cells, NEW L, L = Added(cmd, rect)
  PROVE  /\ L \in ListType /\ Len(L.node) = Len(list.node) + 1
         /\ L.top = list.top /\ L.tiled = list.tiled /\ L.stack = list.stack
         /\ \A k \in 1..Len(list.node) : L.node[k] = list.node[k]
         /\ L.node[Len(list.node) + 1].rect = rect
<1> DEFINE new == Node(cmd, rect, page.open)
<1>1. /\ list \in ListType /\ list.node \in Seq(NodeType) /\ page.open \in Seq(Bracket)
      /\ Len(list.node) \in Nat
  BY DEF Typed, ListType, DevType
<1>2. new \in NodeType /\ new.rect = rect
  BY <1>1 DEF NodeType, Node
<1>3. L = [list EXCEPT !.node = Append(list.node, new)]
  BY DEF Added
<1> HIDE DEF new
<1>4. /\ Append(list.node, new) \in Seq(NodeType)
      /\ Len(Append(list.node, new)) = Len(list.node) + 1
      /\ \A k \in 1..Len(list.node) : Append(list.node, new)[k] = list.node[k]
      /\ Append(list.node, new)[Len(list.node) + 1] = new
  BY <1>1, <1>2
<1>5. /\ L \in ListType /\ L.node = Append(list.node, new)
      /\ L.top = list.top /\ L.tiled = list.tiled /\ L.stack = list.stack
  BY <1>1, <1>3, <1>4 DEF ListType
<1> QED BY <1>2, <1>4, <1>5

LEMMA RecordedIs ==
  ASSUME Typed, NEW cmd, NEW rect, NEW L, L = Added(cmd, rect)
  PROVE  /\ cmd \in {"clip", "image"} => Recorded(cmd, rect) = Push(L, Len(list.node) + 1)
         /\ cmd \in {"endmask", "text"} => Recorded(cmd, rect) = Push(L, 0)
         /\ cmd = "tile" => Recorded(cmd, rect) = BeginTile(L)
         /\ cmd = "endtile" => Recorded(cmd, rect) = [L EXCEPT !.tiled = L.tiled - 1]
         /\ cmd = "endgroup" => Recorded(cmd, rect) = L
         /\ cmd = "pop" => Recorded(cmd, rect) = Pop(L, Len(list.node) + 1)
         /\ cmd \in {"fill", "mask", "group"} => Recorded(cmd, rect) = Cover(L, rect)
<1> DEFINE R == Recorded(cmd, rect)
           n == Len(list.node) + 1
<1>1. R = CASE cmd \in {"clip", "image"} -> Push(L, n)
            [] cmd \in {"endmask", "text", "more"} -> Push(L, 0)
            [] cmd = "tile" -> BeginTile(L)
            [] cmd = "endtile" -> [L EXCEPT !.tiled = L.tiled - 1]
            [] cmd = "endgroup" -> L
            [] cmd = "pop" -> Pop(L, n)
            [] cmd \in {"fill", "mask", "group"} -> Cover(L, rect)
  BY Zenon DEF Recorded, Added
<1> HIDE DEF R, n
<1>2. /\ cmd \in {"clip", "image"} => R = Push(L, n)
      /\ cmd \in {"endmask", "text"} => R = Push(L, 0)
      /\ cmd = "tile" => R = BeginTile(L)
      /\ cmd = "endtile" => R = [L EXCEPT !.tiled = L.tiled - 1]
      /\ cmd = "endgroup" => R = L
      /\ cmd = "pop" => R = Pop(L, n)
      /\ cmd \in {"fill", "mask", "group"} => R = Cover(L, rect)
  BY <1>1
<1> QED BY <1>2 DEF R, n

\* where the nodes are
LEMMA AddsIs ==
  ASSUME Typed, NEW cmd \in Cmds, NEW rect \in SUBSET Cells, list' = Recorded(cmd, rect)
  PROVE  /\ Len(list.node) \in Nat /\ Len(list'.node) = Len(list.node) + 1
         /\ \A k \in 1..Len(list.node) : /\ list'.node[k].cmd = list.node[k].cmd
                                         /\ list'.node[k].in = list.node[k].in
         /\ list'.node[Len(list.node) + 1].cmd = cmd
         /\ list'.node[Len(list.node) + 1].in = page.open
         /\ \A k \in 1..Len(list.node) + 1 : In(k)' = In(k)
         /\ In(Len(list.node) + 1) = page.open
         /\ \A k : k = Len(list.node) + 2 => In(k)' = page'.open
<1>1. Len(list.node) \in Nat
  BY InType
<1>2. /\ Len(list'.node) = Len(list.node) + 1
      /\ \A k \in 1..Len(list.node) : /\ list'.node[k].cmd = list.node[k].cmd
                                      /\ list'.node[k].in = list.node[k].in
      /\ list'.node[Len(list.node) + 1].cmd = cmd
      /\ list'.node[Len(list.node) + 1].in = page.open
  BY RecordsOne
<1>3. \A k \in 1..Len(list.node) + 1 : In(k)' = In(k)
  BY <1>1, <1>2 DEF In
<1>4. In(Len(list.node) + 1) = page.open
  BY <1>1 DEF In
<1>5. \A k : k = Len(list.node) + 2 => In(k)' = page'.open
  <2> SUFFICES ASSUME NEW k, k = Len(list.node) + 2
               PROVE  In(k)' = page'.open
    OBVIOUS
  <2>1. k \notin 1..Len(list'.node)
    BY <1>1, <1>2
  <2> QED BY <2>1, Zenon DEF In
<1> QED BY <1>1, <1>2, <1>3, <1>4, <1>5

LEMMA PushAdds ==
  ASSUME Typed, NEW cmd \in {"clip", "image", "text", "endmask"}, NEW rect \in SUBSET Cells,
         list' = Recorded(cmd, rect)
  PROVE  /\ list'.top = list.top + 1 /\ list'.tiled = list.tiled
         /\ SameRects /\ list'.node[Len(list.node) + 1].rect = rect
         /\ \A f \in 1..StackSize : f # list.top + 1 => list'.stack[f] = list.stack[f]
         /\ list.top + 1 \in 1..StackSize =>
              list'.stack[list.top + 1].update
                = IF cmd \in {"clip", "image"} THEN Len(list.node) + 1 ELSE 0
<1>1. PICK L : L = Added(cmd, rect)
  OBVIOUS
<1>2. PICK u \in Nat : /\ u = IF cmd \in {"clip", "image"} THEN Len(list.node) + 1 ELSE 0
                       /\ list' = Push(L, u)
  BY <1>1, RecordedIs, InType
<1>3. cmd \in Cmds
  BY DEF Cmds, Begins
<1>4. /\ L \in ListType
      /\ L.top = list.top /\ L.tiled = list.tiled /\ L.stack = list.stack
      /\ \A k \in 1..Len(list.node) : L.node[k] = list.node[k]
      /\ L.node[Len(list.node) + 1].rect = rect
  BY <1>1, <1>3, AddedIs
<1>5. /\ list'.node = L.node /\ list'.top = L.top + 1 /\ list'.tiled = L.tiled
      /\ \A f \in 1..StackSize : f # L.top + 1 => list'.stack[f] = L.stack[f]
      /\ L.top + 1 \in 1..StackSize => list'.stack[L.top + 1].update = u
  BY <1>2, <1>4, PushIs
<1> QED BY <1>2, <1>4, <1>5 DEF SameRects

LEMMA CoverAdds ==
  ASSUME Typed, NEW cmd \in {"fill", "mask", "group"}, NEW rect \in SUBSET Cells,
         list' = Recorded(cmd, rect)
  PROVE  /\ list'.top = list.top /\ list'.tiled = list.tiled
         /\ SameRects /\ list'.node[Len(list.node) + 1].rect = rect
         /\ \A f \in 1..StackSize :
              /\ list'.stack[f].update = list.stack[f].update
              /\ list'.stack[f].rect = IF f = list.top /\ list.tiled = 0
                                       THEN Union(list.stack[f].rect, rect)
                                       ELSE list.stack[f].rect
<1>1. PICK L : L = Added(cmd, rect)
  OBVIOUS
<1>2. cmd \in Cmds /\ list' = Cover(L, rect)
  BY <1>1, RecordedIs DEF Cmds, Begins
<1>3. /\ L \in ListType
      /\ L.top = list.top /\ L.tiled = list.tiled /\ L.stack = list.stack
      /\ \A k \in 1..Len(list.node) : L.node[k] = list.node[k]
      /\ L.node[Len(list.node) + 1].rect = rect
  BY <1>1, <1>2, AddedIs
<1>4. /\ list'.node = L.node /\ list'.top = L.top /\ list'.tiled = L.tiled
      /\ \A f \in 1..StackSize :
           /\ list'.stack[f].update = L.stack[f].update
           /\ list'.stack[f].rect = IF f = L.top /\ L.tiled = 0
                                    THEN Union(L.stack[f].rect, rect) ELSE L.stack[f].rect
  BY <1>2, <1>3, CoverIs
<1> QED BY <1>3, <1>4 DEF SameRects

LEMMA TileAdds ==
  ASSUME Typed, NEW rect \in SUBSET Cells, list' = Recorded("tile", rect)
  PROVE  /\ list'.top = list.top /\ list'.tiled = list.tiled + 1
         /\ SameRects /\ list'.node[Len(list.node) + 1].rect = rect
         /\ \A f \in 1..StackSize :
              /\ list'.stack[f].update = list.stack[f].update
              /\ list'.stack[f].rect = IF f = list.top THEN Cells ELSE list.stack[f].rect
<1>1. PICK L : L = Added("tile", rect)
  OBVIOUS
<1>2. "tile" \in Cmds /\ list' = BeginTile(L)
  BY <1>1, RecordedIs DEF Cmds, Begins
<1>3. /\ L \in ListType
      /\ L.top = list.top /\ L.tiled = list.tiled /\ L.stack = list.stack
      /\ \A k \in 1..Len(list.node) : L.node[k] = list.node[k]
      /\ L.node[Len(list.node) + 1].rect = rect
  BY <1>1, <1>2, AddedIs
<1>4. /\ list'.node = L.node /\ list'.top = L.top /\ list'.tiled = L.tiled + 1
      /\ \A f \in 1..StackSize :
           /\ list'.stack[f].update = L.stack[f].update
           /\ list'.stack[f].rect = IF f = L.top THEN Cells ELSE L.stack[f].rect
  BY <1>2, <1>3, BeginTileIs
<1> QED BY <1>3, <1>4 DEF SameRects

LEMMA EndAdds ==
  ASSUME Typed, NEW cmd \in {"endtile", "endgroup"}, NEW rect \in SUBSET Cells,
         list' = Recorded(cmd, rect)
  PROVE  /\ list'.top = list.top /\ list'.stack = list.stack /\ SameRects
         /\ list'.tiled = list.tiled - IF cmd = "endtile" THEN 1 ELSE 0
<1>1. PICK L : L = Added(cmd, rect)
  OBVIOUS
<1>2. /\ cmd \in Cmds
      /\ cmd = "endtile" => list' = [L EXCEPT !.tiled = L.tiled - 1]
      /\ cmd = "endgroup" => list' = L
  BY <1>1, RecordedIs DEF Cmds, Ends
<1>3. /\ L \in ListType /\ list.tiled \in Int
      /\ L.top = list.top /\ L.tiled = list.tiled /\ L.stack = list.stack
      /\ \A k \in 1..Len(list.node) : L.node[k] = list.node[k]
  BY <1>1, <1>2, AddedIs DEF Typed, ListType
<1>4. CASE cmd = "endtile"
  <2>1. /\ list'.node = L.node /\ list'.top = L.top /\ list'.stack = L.stack
        /\ list'.tiled = L.tiled - 1
    BY <1>2, <1>3, <1>4 DEF ListType
  <2> QED BY <1>3, <1>4, <2>1 DEF SameRects
<1>5. CASE cmd = "endgroup"
  BY <1>2, <1>3, <1>5 DEF SameRects
<1> QED BY <1>4, <1>5

LEMMA PopAdds ==
  ASSUME Typed, NEW rect \in SUBSET Cells, list' = Recorded("pop", rect),
         list.tiled \in Nat, list.top > 0,
         list.top \in 1..StackSize => list.stack[list.top].update \in 0..Len(list.node)
  PROVE  /\ list'.top = list.top - 1 /\ list'.tiled = list.tiled
         /\ \A f \in 1..StackSize :
              /\ list'.stack[f].update = list.stack[f].update
              /\ list'.stack[f].rect = IF f = list.top - 1 /\ list.tiled = 0
                                       THEN Union(list.stack[f].rect, Content(list))
                                       ELSE list.stack[f].rect
         /\ \A k \in 1..Len(list.node) :
              list'.node[k].rect = IF Shrinking(list) /\ k = list.stack[list.top].update
                                   THEN Shrunk(list) ELSE list.node[k].rect
<1>1. PICK L : L = Added("pop", rect)
  OBVIOUS
<1>2. "pop" \in Cmds /\ list' = Pop(L, Len(list.node) + 1)
  BY <1>1, RecordedIs DEF Cmds, Ends
<1>3. /\ L \in ListType /\ Len(L.node) = Len(list.node) + 1
      /\ L.top = list.top /\ L.tiled = list.tiled /\ L.stack = list.stack
      /\ \A k \in 1..Len(list.node) : L.node[k] = list.node[k]
  BY <1>1, <1>2, AddedIs
<1>4. /\ Len(list.node) \in Nat /\ list.top \in Nat /\ StackSize \in Nat
      /\ Len(list.node) + 1 \in Nat
  BY InType, ListAssumption DEF Typed, ListType
<1>5. L.tiled \in Nat /\ L.top > 0
  BY <1>3
<1>6. /\ list'.top = L.top - 1 /\ list'.tiled = L.tiled
      /\ \A f \in 1..StackSize :
           /\ list'.stack[f].update = L.stack[f].update
           /\ list'.stack[f].rect = IF f = L.top - 1 /\ L.tiled = 0
                                    THEN Union(L.stack[f].rect, Content(L))
                                    ELSE L.stack[f].rect
      /\ \A k \in 1..Len(L.node) : k # Len(list.node) + 1 =>
           list'.node[k].rect = IF Shrinking(L) /\ k = L.stack[L.top].update
                                THEN Shrunk(L) ELSE L.node[k].rect
  <2>1. PICK n \in Nat : n = Len(list.node) + 1
    BY <1>4
  <2>2. PICK R : R = list'
    OBVIOUS
  <2>3. R = Pop(L, n)
    BY <1>2, <2>1, <2>2
  <2>4. /\ R.top = L.top - 1 /\ R.tiled = L.tiled
        /\ \A f \in 1..StackSize :
             /\ R.stack[f].update = L.stack[f].update
             /\ R.stack[f].rect = IF f = L.top - 1 /\ L.tiled = 0
                                  THEN Union(L.stack[f].rect, Content(L))
                                  ELSE L.stack[f].rect
        /\ \A k \in 1..Len(L.node) : k # n =>
             R.node[k].rect = IF Shrinking(L) /\ k = L.stack[L.top].update
                              THEN Shrunk(L) ELSE L.node[k].rect
    BY <1>3, <1>5, <2>3, PopIs
  <2> QED BY <2>1, <2>2, <2>4
<1>7. Shrinking(L) <=> Shrinking(list)
  BY <1>3 DEF Shrinking
<1>8. list.top \in 1..StackSize => Shrunk(L) = Shrunk(list)
  <2> SUFFICES ASSUME list.top \in 1..StackSize
               PROVE  Shrunk(L) = Shrunk(list)
    OBVIOUS
  <2> DEFINE u == list.stack[list.top].update
  <2>1. u = 0 \/ L.node[u] = list.node[u]
    <3> HIDE DEF u
    <3>1. u \in 0..Len(list.node)
      BY DEF u
    <3> QED BY <1>3, <1>4, <3>1
  <2> QED BY <1>3, <2>1 DEF Shrunk
<1>9. Content(L) = Content(list)
  <2>1. CASE list.top > StackSize
    BY <1>3, <2>1 DEF Content
  <2>2. CASE ~ (list.top > StackSize)
    <3>1. list.top \in 1..StackSize
      BY <1>4, <2>2
    <3> QED BY <1>3, <1>8, <2>2, <3>1 DEF Content
  <2> QED BY <2>1, <2>2
<1>10. \A k \in 1..Len(list.node) :
         list'.node[k].rect = IF Shrinking(list) /\ k = list.stack[list.top].update
                              THEN Shrunk(list) ELSE list.node[k].rect
  <2> TAKE k \in 1..Len(list.node)
  <2>1. k \in 1..Len(L.node) /\ k # Len(list.node) + 1
    BY <1>3, <1>4
  <2>2. list'.node[k].rect = IF Shrinking(L) /\ k = L.stack[L.top].update
                             THEN Shrunk(L) ELSE L.node[k].rect
    BY <1>6, <2>1
  <2>3. Shrinking(list) => list.top \in 1..StackSize
    BY DEF Shrinking
  <2> QED BY <1>3, <1>7, <1>8, <2>2, <2>3
<1> QED BY <1>3, <1>6, <1>9, <1>10

-----------------------------------------------------------------------------
(* What every node that is recorded leaves of the clips that are open       *)

\* Those after the step are those before, but the innermost.
LEMMA FollowsShape ==
  ASSUME NEW s \in Seq(Bracket), NEW t \in Seq(Bracket), NEW cmd \in Cmds, Follows(cmd, s, t)
  PROVE  /\ Len(s) \in Nat /\ Len(t) \in Nat
         /\ Len(t) = Len(s) + (IF cmd \in Begins THEN 1 ELSE 0) - (IF cmd \in Ends THEN 1 ELSE 0)
         /\ \A i \in 1..Len(s) : i \in 1..Len(t) =>
              \/ t[i].kind = s[i].kind
              \/ /\ cmd = "endmask" /\ i = Len(s)
                 /\ s[i].kind = "mask" /\ t[i].kind = "maskclip"
         /\ cmd \in Begins => t[Len(t)].kind = cmd
         /\ cmd = "endmask" => /\ Len(s) > 0
                               /\ s[Len(s)].kind = "mask" /\ t[Len(s)].kind = "maskclip"
         /\ cmd \in Ends => /\ Len(s) > 0 /\ s[Len(s)].kind \in Closed
                            /\ cmd = EndOf(s[Len(s)].kind)
<1>1. Len(s) \in Nat /\ Len(t) \in Nat
  OBVIOUS
<1>2. CASE cmd \in Begins
  <2>1. cmd \notin Ends /\ cmd \notin {"fill", "more", "endmask"}
    BY <1>2 DEF Begins, Ends
  <2>2. Len(t) = Len(s) + 1 /\ Alike(s, t, Len(s)) /\ t[Len(t)].kind = cmd
    BY <1>2, <2>1 DEF Follows
  <2> QED BY <1>1, <1>2, <2>1, <2>2 DEF Alike
<1>3. CASE cmd \in {"fill", "more"}
  <2>1. cmd \notin Ends /\ cmd \notin Begins /\ cmd # "endmask"
    BY <1>3 DEF Begins, Ends
  <2>2. Len(t) = Len(s) /\ Alike(s, t, Len(s))
    BY <1>3, <2>1 DEF Follows
  <2> QED BY <1>1, <2>1, <2>2 DEF Alike
<1>4. CASE cmd = "endmask"
  <2>1. cmd \notin Ends /\ cmd \notin Begins /\ cmd \notin {"fill", "more"}
    BY <1>4 DEF Begins, Ends
  <2>2. /\ Len(s) > 0 /\ Len(t) = Len(s) /\ Alike(s, t, Len(s) - 1)
        /\ s[Len(s)].kind = "mask" /\ t[Len(s)].kind = "maskclip"
    BY <1>4, <2>1 DEF Follows
  <2> QED BY <1>1, <1>4, <2>1, <2>2 DEF Alike
<1>5. CASE cmd \in Ends
  <2>1. cmd # "endmask" /\ cmd \notin Begins /\ cmd \notin {"fill", "more"}
    BY <1>5 DEF Begins, Ends
  <2>2. /\ Len(s) > 0 /\ Len(t) = Len(s) - 1 /\ Alike(s, t, Len(t))
        /\ s[Len(s)].kind \in Closed /\ cmd = EndOf(s[Len(s)].kind)
    BY <1>5, <2>1 DEF Follows
  <2> QED BY <1>1, <1>5, <2>1, <2>2 DEF Alike
<1> QED BY <1>2, <1>3, <1>4, <1>5 DEF Cmds

\* Recording goes on behind what has been recorded.
LEMMA WithinAdds ==
  ASSUME Typed, NEW cmd \in Cmds, NEW rect \in SUBSET Cells, Adds(cmd, rect),
         NEW k \in Int, k <= Len(list.node) + 1, 1 <= k, NEW p \in Int
  PROVE  /\ Within(k, p)' <=> Within(k, p) /\ Len(page'.open) >= p
         /\ Within(k, p) => Len(page.open) >= p
<1> DEFINE N == Len(list.node)
<1>1. /\ N \in Nat /\ Len(list'.node) = N + 1
      /\ \A j \in 1..N + 1 : In(j)' = In(j)
      /\ In(N + 1) = page.open
      /\ \A j : j = N + 2 => In(j)' = page'.open
  BY AddsIs DEF Adds
<1>2. Within(k, p)' <=> \A j \in k..Len(list'.node) + 1 : Len(In(j)') >= p
  BY DEF Within
<1>3. Within(k, p) <=> \A j \in k..N + 1 : Len(In(j)) >= p
  BY DEF Within
<1>0. k <= N + 1
  OBVIOUS
<1> HIDE DEF N
<1>4. k..Len(list'.node) + 1 = (k..N + 1) \cup {N + 2} /\ k..N + 1 \subseteq 1..N + 1 /\ N + 1 \in k..N + 1
  BY <1>0, <1>1
<1>5. (\A j \in k..Len(list'.node) + 1 : Len(In(j)') >= p)
        <=> (\A j \in k..N + 1 : Len(In(j)) >= p) /\ Len(page'.open) >= p
  BY <1>1, <1>4
<1> QED BY <1>1, <1>2, <1>3, <1>4, <1>5

\* what AddsIs and FollowsShape say of the step
LEMMA Situation ==
  ASSUME Typed, NEW cmd \in Cmds, NEW rect \in SUBSET Cells, Adds(cmd, rect)
  PROVE  /\ page.open \in Seq(Bracket) /\ page'.open \in Seq(Bracket)
         /\ Len(page.open) \in Nat /\ Len(page'.open) \in Nat
         /\ Len(page'.open) = Len(page.open) + (IF cmd \in Begins THEN 1 ELSE 0)
                                - (IF cmd \in Ends THEN 1 ELSE 0)
         /\ \A i \in 1..Len(page.open) : i \in 1..Len(page'.open) =>
              \/ page'.open[i].kind = page.open[i].kind
              \/ /\ cmd = "endmask" /\ i = Len(page.open)
                 /\ page.open[i].kind = "mask" /\ page'.open[i].kind = "maskclip"
         /\ cmd \in Begins => /\ page'.open[Len(page'.open)].kind = cmd
                              /\ page'.open[Len(page'.open)].rect = rect
         /\ cmd = "endmask" => /\ Len(page.open) > 0
                               /\ page.open[Len(page.open)].kind = "mask"
                               /\ page'.open[Len(page.open)].kind = "maskclip"
         /\ cmd \in Ends => /\ Len(page.open) > 0 /\ page.open[Len(page.open)].kind \in Closed
                            /\ cmd = EndOf(page.open[Len(page.open)].kind)
<1>1. page.open \in Seq(Bracket) /\ page'.open \in Seq(Bracket)
  BY DEF Typed, DevType, Adds
<1>2. Follows(cmd, page.open, page'.open)
  BY DEF Adds
<1>3. PICK s, t : s = page.open /\ t = page'.open
  OBVIOUS
<1>4. s \in Seq(Bracket) /\ t \in Seq(Bracket) /\ Follows(cmd, s, t)
  BY <1>1, <1>2, <1>3
<1>5. /\ Len(s) \in Nat /\ Len(t) \in Nat
      /\ Len(t) = Len(s) + (IF cmd \in Begins THEN 1 ELSE 0) - (IF cmd \in Ends THEN 1 ELSE 0)
      /\ \A i \in 1..Len(s) : i \in 1..Len(t) =>
           \/ t[i].kind = s[i].kind
           \/ /\ cmd = "endmask" /\ i = Len(s)
              /\ s[i].kind = "mask" /\ t[i].kind = "maskclip"
      /\ cmd \in Begins => t[Len(t)].kind = cmd
      /\ cmd = "endmask" => /\ Len(s) > 0
                            /\ s[Len(s)].kind = "mask" /\ t[Len(s)].kind = "maskclip"
      /\ cmd \in Ends => /\ Len(s) > 0 /\ s[Len(s)].kind \in Closed
                         /\ cmd = EndOf(s[Len(s)].kind)
  BY <1>4, FollowsShape
<1>6. cmd \in Begins => page'.open[Len(page'.open)].rect = rect
  BY DEF Adds
<1> QED BY <1>1, <1>3, <1>5, <1>6, Zenon

LEMMA TilesStay ==
  ASSUME Typed, NEW cmd \in Cmds, NEW rect \in SUBSET Cells, Adds(cmd, rect),
         NEW p \in Int, p <= Len(page.open), p <= Len(page'.open)
  PROVE  NoTile(page'.open, p) <=> NoTile(page.open, p)
<1>1. /\ Len(page.open) \in Nat /\ Len(page'.open) \in Nat
      /\ \A i \in 1..Len(page.open) : i \in 1..Len(page'.open) =>
           \/ page'.open[i].kind = page.open[i].kind
           \/ page.open[i].kind = "mask" /\ page'.open[i].kind = "maskclip"
  BY Situation
<1>2. \A i \in 1..p : i \in 1..Len(page.open) /\ i \in 1..Len(page'.open)
  BY <1>1
<1>3. \A i \in 1..p : page'.open[i].kind = "tile" <=> page.open[i].kind = "tile"
  BY <1>1, <1>2
<1> QED BY <1>3 DEF NoTile

LEMMA ClipsStay ==
  ASSUME Typed, NEW cmd \in Cmds, NEW rect \in SUBSET Cells, Adds(cmd, rect),
         NEW p \in Int, p <= Len(page.open), p <= Len(page'.open),
         cmd # "endmask" \/ p < Len(page.open)
  PROVE  NrClips(page'.open, p) = NrClips(page.open, p)
<1>1. /\ Len(page.open) \in Nat /\ Len(page'.open) \in Nat
      /\ \A i \in 1..Len(page.open) : i \in 1..Len(page'.open) =>
           \/ page'.open[i].kind = page.open[i].kind
           \/ cmd = "endmask" /\ i = Len(page.open)
  BY Situation
<1>2. \A i \in 1..p : /\ i \in 1..Len(page.open) /\ i \in 1..Len(page'.open)
                      /\ cmd = "endmask" => i # Len(page.open)
  BY <1>1
<1>3. Alike(page'.open, page.open, p)
  BY <1>1, <1>2 DEF Alike
<1> QED BY <1>3, ClipsAlike

\* What was among the contents of a clip that stays open still is.
LEMMA HoldsAdds ==
  ASSUME Typed, NEW cmd \in Cmds, NEW rect \in SUBSET Cells, Adds(cmd, rect),
         NEW n \in 1..Len(list.node) + 1, NEW p \in 1..Len(page'.open)
  PROVE  Holds(n, p)' <=> Holds(n, p)
<1>1. /\ Len(page.open) \in Nat /\ Len(page'.open) \in Nat /\ Len(list.node) \in Nat
  BY Situation, AddsIs DEF Adds
<1>2. n \in Int /\ n <= Len(list.node) + 1 /\ 1 <= n /\ p \in Int /\ 1 <= p /\ p <= Len(page'.open)
  BY <1>1
<1>3. /\ Within(n, p)' <=> Within(n, p) /\ Len(page'.open) >= p
      /\ Within(n, p) => Len(page.open) >= p
  BY <1>2, WithinAdds
<1>4. In(n)' = In(n)
  BY AddsIs DEF Adds
<1>5. CASE p <= Len(page.open)
  <2>1. NoTile(page'.open, p) <=> NoTile(page.open, p)
    BY <1>2, <1>5, TilesStay
  <2>2. p \in 1..Len(page.open)
    BY <1>1, <1>2, <1>5
  <2> QED BY <1>2, <1>3, <1>4, <2>1, <2>2 DEF Holds
<1>6. CASE ~ (p <= Len(page.open))
  <2>1. ~ Within(n, p) /\ ~ Within(n, p)'
    BY <1>1, <1>2, <1>3, <1>6
  <2> QED BY <2>1 DEF Holds
<1> QED BY <1>5, <1>6

LEMMA SteadyAdds ==
  ASSUME Typed, NEW cmd \in Cmds, NEW rect \in SUBSET Cells, Adds(cmd, rect), Steady
  PROVE  Steady'
<1> DEFINE N == Len(list.node)
           P == page.open
           Q == page'.open
<1>1. /\ Len(P) \in Nat /\ Len(Q) \in Nat
      /\ \A i \in 1..Len(P) : i \in 1..Len(Q) =>
           \/ Q[i].kind = P[i].kind
           \/ i = Len(P) /\ P[i].kind = "mask" /\ Q[i].kind = "maskclip"
  BY Situation
<1>2. /\ N \in Nat /\ Len(list'.node) = N + 1
      /\ \A k \in 1..N + 1 : In(k)' = In(k)
      /\ \A k : k = N + 2 => In(k)' = Q
  BY AddsIs DEF Adds
<1>3. ASSUME NEW n, n \in 1..N + 2, NEW p, p \in 1..Len(Q), Within(n, p)'
      PROVE  /\ \A i \in 1..p - 1 : In(n)'[i].kind = Q[i].kind
             /\ \/ In(n)'[p].kind = Q[p].kind
                \/ In(n)'[p].kind = "mask" /\ Q[p].kind = "maskclip"
  <2>1. CASE n = N + 2
    BY <1>2, <2>1
  <2>2. CASE n # N + 2
    <3>1. n \in 1..N + 1 /\ n \in Int /\ n <= N + 1 /\ 1 <= n /\ p \in Int /\ 1 <= p
      BY <1>1, <1>2, <1>3, <2>2
    <3>2. Within(n, p) /\ p <= Len(P)
      BY <1>1, <1>3, <3>1, WithinAdds
    <3>3. p \in 1..Len(P)
      BY <1>1, <3>1, <3>2
    <3>4. /\ \A i \in 1..p - 1 : In(n)[i].kind = P[i].kind
          /\ \/ In(n)[p].kind = P[p].kind
             \/ In(n)[p].kind = "mask" /\ P[p].kind = "maskclip"
      BY <3>1, <3>2, <3>3 DEF Steady
    <3>5. \A i \in 1..p - 1 : Q[i].kind = P[i].kind
      <4>1. \A i \in 1..p - 1 : i \in Int /\ i < p
        BY <3>1
      <4> QED BY <1>1, <1>3, <3>3, <4>1
    <3>6. In(n)' = In(n)
      BY <1>2, <3>1
    <3>7. \/ Q[p].kind = P[p].kind
          \/ P[p].kind = "mask" /\ Q[p].kind = "maskclip"
      BY <1>1, <1>3, <3>3
    <3> HIDE DEF P, Q
    <3> QED BY <3>4, <3>5, <3>6, <3>7
  <2> QED BY <2>1, <2>2
<1>4. Len(list'.node) + 1 = N + 2
  BY <1>2
<1> QED BY <1>3, <1>4 DEF Steady

\* A node that opens a bracket now did so before, or is the new one.
LEMMA OpensAdds ==
  ASSUME Typed, NEW cmd \in Cmds, NEW rect \in SUBSET Cells, Adds(cmd, rect),
         NEW b \in 1..Len(list.node), NEW p \in 1..Len(page'.open)
  PROVE  /\ Opens(b, p)' <=> Opens(b, p)
         /\ Opens(b, p) => p \in 1..Len(page.open)
<1>1. /\ Len(page.open) \in Nat /\ Len(page'.open) \in Nat /\ Len(list.node) \in Nat
  BY Situation, AddsIs DEF Adds
<1>2. /\ b + 1 \in Int /\ b + 1 <= Len(list.node) + 1 /\ 1 <= b + 1
      /\ p \in Int /\ 1 <= p /\ p <= Len(page'.open)
  BY <1>1
<1>3. /\ Within(b + 1, p)' <=> Within(b + 1, p) /\ Len(page'.open) >= p
      /\ Within(b + 1, p) => Len(page.open) >= p
  BY <1>2, WithinAdds
<1>4. /\ In(b)' = In(b) /\ list'.node[b].cmd = list.node[b].cmd
      /\ b \in 1..Len(list'.node)
  BY <1>1, AddsIs DEF Adds
<1> QED BY <1>1, <1>2, <1>3, <1>4 DEF Opens

LEMMA OpensNew ==
  ASSUME Typed, NEW cmd \in Cmds, NEW rect \in SUBSET Cells, Adds(cmd, rect),
         NEW b, b = Len(list.node) + 1, NEW p \in 1..Len(page'.open), Opens(b, p)'
  PROVE  cmd \in Begins /\ p = Len(page.open) + 1
<1>1. /\ Len(list.node) \in Nat /\ In(b)' = In(b) /\ In(b) = page.open
      /\ list'.node[b].cmd = cmd
  BY AddsIs DEF Adds
<1>2. p - 1 = Len(page.open)
  BY <1>1 DEF Opens
<1>3. Len(page.open) \in Nat /\ Len(page'.open) \in Nat
  BY Situation
<1> QED BY <1>1, <1>2, <1>3 DEF Opens

\* What can be seen of what was drawn stays as it is.
LEMMA SeesAdds ==
  ASSUME Typed, NEW cmd \in Cmds, NEW rect \in SUBSET Cells, Adds(cmd, rect),
         NEW n \in 1..Len(list.node), NEW c,
         list.node[n].cmd = "fill" => list'.node[n].rect = list.node[n].rect
  PROVE  /\ IsFill(n)' <=> IsFill(n)
         /\ IsFill(n) => (Sees(n, c)' <=> Sees(n, c))
<1>1. /\ list'.node[n].cmd = list.node[n].cmd /\ list'.node[n].in = list.node[n].in
      /\ n \in 1..Len(list'.node)
  BY AddsIs DEF Adds
<1>2. IsFill(n)' <=> IsFill(n)
  BY <1>1 DEF IsFill
<1>3. ASSUME IsFill(n)
      PROVE  Sees(n, c)' <=> Sees(n, c)
  <2>1. list'.node[n].rect = list.node[n].rect
    BY <1>3 DEF IsFill
  <2> QED BY <1>1, <2>1, Zenon DEF Sees
<1> QED BY <1>2, <1>3
\* A bracket that is open, and the node that opened it.
LEMMA OpensKinds ==
  ASSUME Typed, Nesting, Steady, NEW b, NEW p \in 1..Len(page.open), Opens(b, p)
  PROVE  /\ b \in 1..Len(list.node) /\ Len(In(b)) = p - 1
         /\ NoTile(In(b), p - 1) <=> NoTile(page.open, p - 1)
         /\ \/ page.open[p].kind = list.node[b].cmd
            \/ list.node[b].cmd = "mask" /\ page.open[p].kind = "maskclip"
<1> DEFINE P == page.open
           s == In(b)
           t == In(b + 1)
<1>1. /\ b \in 1..Len(list.node) /\ list.node[b].cmd \in Begins /\ Len(s) = p - 1
      /\ Within(b + 1, p)
  BY DEF Opens
<1>2. Len(P) \in Nat /\ Len(list.node) \in Nat
  BY DEF Typed, ListType, DevType
<1>3. Follows(list.node[b].cmd, s, t)
  BY <1>1 DEF Nesting
<1>4. list.node[b].cmd \notin Ends /\ list.node[b].cmd \notin {"fill", "more", "endmask"}
  BY <1>1 DEF Begins, Ends
<1>5. Len(t) = p /\ Alike(s, t, p - 1) /\ t[p].kind = list.node[b].cmd
  BY <1>1, <1>2, <1>3, <1>4 DEF Follows
<1>6. b + 1 \in 1..Len(list.node) + 1
  BY <1>1, <1>2
<1>7. /\ \A i \in 1..p - 1 : t[i].kind = P[i].kind
      /\ \/ t[p].kind = P[p].kind
         \/ t[p].kind = "mask" /\ P[p].kind = "maskclip"
  BY <1>1, <1>6 DEF Steady
<1> HIDE DEF P, s, t
<1>8. NoTile(s, p - 1) <=> NoTile(P, p - 1)
  BY <1>5, <1>7 DEF NoTile, Alike
<1> QED BY <1>1, <1>5, <1>7, <1>8 DEF P, s
\* How the clips that are open change.
LEMMA FollowsClips ==
  ASSUME NEW s \in Seq(Bracket), NEW t \in Seq(Bracket), NEW cmd \in Cmds,
         Follows(cmd, s, t)
  PROVE  /\ NrClips(s, Len(s)) \in Nat
         /\ NrClips(t, Len(t))
              = NrClips(s, Len(s))
                + (IF cmd \in {"clip", "text", "image", "endmask"} THEN 1 ELSE 0)
                - (IF cmd = "pop" THEN 1 ELSE 0)
<1> DEFINE shut == {"clip", "text", "image", "endmask"}
<1>1. Len(s) \in Nat /\ Len(t) \in Nat
  OBVIOUS
<1>2. /\ NrClips(s, Len(s)) \in Nat /\ NrClips(s, Len(s) - 1) \in Nat
  BY <1>1, ClipsFinite
<1>3. CASE cmd \in Begins
  <2>1. cmd \notin Ends /\ cmd \notin {"fill", "more", "endmask"} /\ cmd # "pop"
    BY <1>3 DEF Begins, Ends
  <2>2. Len(t) = Len(s) + 1 /\ Alike(s, t, Len(s)) /\ t[Len(t)].kind = cmd
    BY <1>3, <2>1 DEF Follows
  <2>3. NrClips(s, Len(s)) = NrClips(t, Len(s))
    BY <1>1, <2>2, ClipsAlike
  <2>4. /\ Len(t) \in Int /\ Len(t) >= 1 /\ Len(t) - 1 = Len(s)
    BY <1>1, <2>2
  <2>5. NrClips(t, Len(t)) = NrClips(t, Len(s)) + IF cmd \in Clips THEN 1 ELSE 0
    BY <2>2, <2>4, ClipsLast
  <2>6. cmd \in Clips <=> cmd \in shut
    BY <1>3 DEF Clips, Begins
  <2> HIDE DEF shut
  <2>7. NrClips(t, Len(t)) = NrClips(s, Len(s)) + (IF cmd \in shut THEN 1 ELSE 0) - 0
    BY <1>2, <2>3, <2>5, <2>6
  <2> QED BY <1>2, <2>1, <2>7 DEF shut
<1>4. CASE cmd \in {"fill", "more"}
  <2>1. cmd \notin shut /\ cmd # "pop" /\ cmd \notin Begins /\ cmd \notin Ends
    BY <1>4 DEF Begins, Ends
  <2>2. Len(t) = Len(s) /\ Alike(s, t, Len(s))
    BY <1>4, <2>1 DEF Follows
  <2>3. NrClips(s, Len(s)) = NrClips(t, Len(s))
    BY <1>1, <2>2, ClipsAlike
  <2> QED BY <1>2, <2>1, <2>2, <2>3
<1>5. CASE cmd = "endmask"
  <2>1. cmd # "pop" /\ cmd \notin Begins /\ cmd \notin Ends
    BY <1>5 DEF Begins, Ends
  <2>2. /\ Len(s) > 0 /\ Len(t) = Len(s) /\ Alike(s, t, Len(s) - 1)
        /\ s[Len(s)].kind = "mask" /\ t[Len(s)].kind = "maskclip"
    BY <1>5, <2>1 DEF Follows
  <2>3. Len(s) - 1 \in Int /\ Len(s) \in Int /\ Len(s) >= 1
    BY <1>1, <2>2
  <2>4. NrClips(s, Len(s) - 1) = NrClips(t, Len(s) - 1)
    BY <2>2, <2>3, ClipsAlike
  <2>5. /\ NrClips(s, Len(s)) = NrClips(s, Len(s) - 1) + IF s[Len(s)].kind \in Clips THEN 1 ELSE 0
        /\ NrClips(t, Len(s)) = NrClips(t, Len(s) - 1) + IF t[Len(s)].kind \in Clips THEN 1 ELSE 0
    BY <2>3, ClipsLast
  <2>6. s[Len(s)].kind \notin Clips /\ t[Len(s)].kind \in Clips
    BY <2>2 DEF Clips
  <2>7. NrClips(t, Len(t)) = NrClips(s, Len(s)) + 1
    BY <1>2, <2>2, <2>4, <2>5, <2>6
  <2> QED BY <1>2, <1>5, <2>1, <2>7
<1>6. CASE cmd \in Ends
  <2>1. cmd \notin shut /\ cmd \notin Begins /\ cmd \notin {"fill", "more"}
    BY <1>6 DEF Begins, Ends
  <2>2. /\ Len(s) > 0 /\ Len(t) = Len(s) - 1 /\ Alike(s, t, Len(t))
        /\ s[Len(s)].kind \in Closed /\ cmd = EndOf(s[Len(s)].kind)
    BY <1>6, <2>1 DEF Follows
  <2>3. Len(t) \in Int /\ Len(s) \in Int /\ Len(s) >= 1
    BY <1>1, <2>2
  <2>4. NrClips(s, Len(s) - 1) = NrClips(t, Len(t))
    BY <2>2, <2>3, ClipsAlike
  <2>5. NrClips(s, Len(s)) = NrClips(s, Len(s) - 1) + IF s[Len(s)].kind \in Clips THEN 1 ELSE 0
    BY <2>3, ClipsLast
  <2>6. cmd = "pop" <=> s[Len(s)].kind \in Clips
    BY <2>2 DEF EndOf, Closed
  <2>7. NrClips(t, Len(t)) = NrClips(s, Len(s)) - IF cmd = "pop" THEN 1 ELSE 0
    BY <1>2, <2>4, <2>5, <2>6
  <2> QED BY <1>2, <2>1, <2>7
<1> QED BY <1>3, <1>4, <1>5, <1>6 DEF Cmds

\* The frames of the clips that are open are those up to list->top.
LEMMA FrameIs ==
  ASSUME Typed, Tally, NEW p \in Int, p <= Len(page.open)
  PROVE  /\ NrClips(page.open, p) \in Nat /\ NrClips(page.open, p) <= list.top
         /\ list.top \in Nat /\ list.tiled \in Nat
         /\ 1 <= p /\ page.open[p].kind \in Clips => NrClips(page.open, p) >= 1
<1>1. Len(page.open) \in Int
  BY DEF Typed, DevType
<1>2. NrClips(page.open, p) \in Nat /\ NrClips(page.open, 0) \in Nat
  BY ClipsFinite
<1>3. NrClips(page.open, p) <= list.top
  BY <1>1, ClipsGrow DEF Tally
<1>4. list.top \in Nat /\ list.tiled \in Nat
  BY <1>1, ClipsFinite, TilesFinite DEF Tally
<1>5. ASSUME 1 <= p, page.open[p].kind \in Clips
      PROVE  NrClips(page.open, p) >= 1
  <2>1. NrClips(page.open, 0) < NrClips(page.open, p)
    BY <1>5, ClipsUpTo
  <2> QED BY <1>2, <2>1
<1> QED BY <1>2, <1>3, <1>4, <1>5

\* What pops a clip finds it, and the node to shrink, on the stack.
LEMMA PopSays ==
  ASSUME Typed, Shrinks, NEW rect \in SUBSET Cells, Adds("pop", rect)
  PROVE  /\ Len(page.open) \in 1..Len(page.open)
         /\ page.open[Len(page.open)].kind \in Clips
         /\ list.top = NrClips(page.open, Len(page.open)) /\ list.top > 0 /\ list.top \in Nat
         /\ list.tiled \in Nat
         /\ list.top \in 1..StackSize =>
              LET u == list.stack[list.top].update
              IN  u \in 0..Len(list.node) /\ (u # 0 =>
                    /\ Opens(u, Len(page.open))
                    /\ page.open[Len(page.open)].kind \in {"clip", "image"})
<1>1. "pop" \in Cmds /\ "pop" \in Ends
  BY DEF Cmds, Ends
<1>2. /\ Len(page.open) \in Nat /\ Len(page.open) > 0
      /\ page.open[Len(page.open)].kind \in Closed
      /\ "pop" = EndOf(page.open[Len(page.open)].kind)
  BY <1>1, Situation
<1>3. page.open[Len(page.open)].kind \in Clips
  BY <1>2 DEF EndOf, Closed
<1>4. Tally /\ Updates
  BY DEF Shrinks
<1>5. list.top = NrClips(page.open, Len(page.open))
  BY <1>4 DEF Tally
<1>6. list.top \in Nat /\ list.tiled \in Nat /\ list.top >= 1
  BY <1>2, <1>3, <1>4, <1>5, FrameIs
<1>7. Len(page.open) \in 1..Len(page.open) /\ Len(list.node) \in Nat /\ StackSize \in Nat
  BY <1>2, ListAssumption DEF Typed, ListType
<1>8. ASSUME list.top \in 1..StackSize
      PROVE  LET u == list.stack[list.top].update
             IN  u \in 0..Len(list.node) /\ (u # 0 =>
                   /\ Opens(u, Len(page.open))
                   /\ page.open[Len(page.open)].kind \in {"clip", "image"})
  <2> DEFINE u == list.stack[list.top].update
  <2>1. CASE u = 0
    BY <1>7, <2>1
  <2>2. CASE u # 0
    <3>1. list.top <= StackSize
      BY <1>7, <1>8
    <3>2. /\ Opens(u, Len(page.open))
          /\ page.open[Len(page.open)].kind \in {"clip", "image"}
      BY <1>3, <1>4, <1>5, <1>7, <2>2, <3>1 DEF Updates
    <3>3. u \in 1..Len(list.node)
      BY <3>2 DEF Opens
    <3> HIDE DEF u
    <3>4. u \in 0..Len(list.node)
      BY <1>7, <3>3
    <3> QED BY <3>2, <3>4 DEF u
  <2> QED BY <2>1, <2>2
<1> QED BY <1>3, <1>5, <1>6, <1>7, <1>8

\* What is on the stack stays on it, and what it covers; the node of a clip
\* that is closed shrinks.
LEMMA StackAdds ==
  ASSUME Typed, Shrinks, NEW cmd \in Cmds \ {"more"}, NEW rect \in SUBSET Cells,
         Adds(cmd, rect)
  PROVE  /\ \A f \in 1..StackSize : f <= list.top =>
              /\ list'.stack[f].update = list.stack[f].update
              /\ \A c \in Cells : c \in list.stack[f].rect => c \in list'.stack[f].rect
              /\ list.tiled # 0 /\ list.stack[f].rect = Cells => list'.stack[f].rect = Cells
         /\ \A k \in 1..Len(list.node) :
              \/ list'.node[k].rect = list.node[k].rect
              \/ /\ cmd = "pop" /\ Shrinking(list) /\ k = list.stack[list.top].update
                 /\ list'.node[k].rect = Shrunk(list)
         /\ cmd \in Begins \cup {"fill"} => list'.node[Len(list.node) + 1].rect = rect
<1> DEFINE Goal ==
      /\ \A f \in 1..StackSize : f <= list.top =>
           /\ list'.stack[f].update = list.stack[f].update
           /\ \A c \in Cells : c \in list.stack[f].rect => c \in list'.stack[f].rect
           /\ list.tiled # 0 /\ list.stack[f].rect = Cells => list'.stack[f].rect = Cells
      /\ \A k \in 1..Len(list.node) :
           \/ list'.node[k].rect = list.node[k].rect
           \/ /\ cmd = "pop" /\ Shrinking(list) /\ k = list.stack[list.top].update
              /\ list'.node[k].rect = Shrunk(list)
      /\ cmd \in Begins \cup {"fill"} => list'.node[Len(list.node) + 1].rect = rect
<1>1. list' = Recorded(cmd, rect) /\ cmd \in Cmds
  BY DEF Adds
<1>2. list.top \in Nat /\ StackSize \in Nat
  BY ListAssumption DEF Typed, ListType
<1>3. ASSUME cmd \in {"clip", "image", "text", "endmask"}
      PROVE  Goal
  <2>1. /\ SameRects /\ list'.node[Len(list.node) + 1].rect = rect
        /\ \A f \in 1..StackSize : f # list.top + 1 => list'.stack[f] = list.stack[f]
    BY <1>1, <1>3, PushAdds
  <2>2. \A f \in 1..StackSize : f <= list.top => f # list.top + 1
    BY <1>2
  <2> QED BY <2>1, <2>2 DEF SameRects
<1>4. ASSUME cmd \in {"fill", "mask", "group"}
      PROVE  Goal
  <2>1. /\ SameRects /\ list'.node[Len(list.node) + 1].rect = rect
        /\ \A f \in 1..StackSize :
             /\ list'.stack[f].update = list.stack[f].update
             /\ list'.stack[f].rect = IF f = list.top /\ list.tiled = 0
                                      THEN Union(list.stack[f].rect, rect)
                                      ELSE list.stack[f].rect
    BY <1>1, <1>4, CoverAdds
  <2>2. \A f \in 1..StackSize, c \in Cells :
          c \in list.stack[f].rect => c \in list'.stack[f].rect
    BY <2>1, UnionHas
  <2> QED BY <2>1, <2>2 DEF SameRects
<1>5. ASSUME cmd = "tile"
      PROVE  Goal
  <2>1. /\ SameRects /\ list'.node[Len(list.node) + 1].rect = rect
        /\ \A f \in 1..StackSize :
             /\ list'.stack[f].update = list.stack[f].update
             /\ list'.stack[f].rect = IF f = list.top THEN Cells ELSE list.stack[f].rect
    BY <1>1, <1>5, TileAdds
  <2> QED BY <2>1 DEF SameRects
<1>6. ASSUME cmd \in {"endtile", "endgroup"}
      PROVE  Goal
  <2>1. list'.stack = list.stack /\ SameRects
    BY <1>1, <1>6, EndAdds
  <2>2. cmd \notin Begins \cup {"fill"}
    BY <1>6 DEF Begins
  <2> QED BY <2>1, <2>2 DEF SameRects
<1>7. ASSUME cmd = "pop"
      PROVE  Goal
  <2>1. Adds("pop", rect) /\ list' = Recorded("pop", rect)
    BY <1>1, <1>7
  <2>2. /\ list.tiled \in Nat /\ list.top > 0
        /\ list.top \in 1..StackSize => list.stack[list.top].update \in 0..Len(list.node)
    BY <2>1, PopSays
  <2>3. /\ \A f \in 1..StackSize :
             /\ list'.stack[f].update = list.stack[f].update
             /\ list'.stack[f].rect = IF f = list.top - 1 /\ list.tiled = 0
                                      THEN Union(list.stack[f].rect, Content(list))
                                      ELSE list.stack[f].rect
        /\ \A k \in 1..Len(list.node) :
             list'.node[k].rect = IF Shrinking(list) /\ k = list.stack[list.top].update
                                  THEN Shrunk(list) ELSE list.node[k].rect
    BY <2>1, <2>2, PopAdds
  <2>4. \A f \in 1..StackSize, c \in Cells :
          c \in list.stack[f].rect => c \in list'.stack[f].rect
    BY <2>3, UnionHas
  <2>5. cmd \notin Begins \cup {"fill"}
    BY <1>7 DEF Begins
  <2> QED BY <1>7, <2>3, <2>4, <2>5
<1>8. \/ cmd \in {"clip", "image", "text", "endmask"} \/ cmd \in {"fill", "mask", "group"}
      \/ cmd = "tile" \/ cmd \in {"endtile", "endgroup"} \/ cmd = "pop"
  BY DEF Cmds, Begins, Ends
<1> HIDE DEF Goal
<1>9. Goal
  BY <1>3, <1>4, <1>5, <1>6, <1>7, <1>8
<1> QED BY <1>9 DEF Goal

LEMMA TallyAdds ==
  ASSUME Typed, Shrinks, NEW cmd \in Cmds \ {"more"}, NEW rect \in SUBSET Cells,
         Adds(cmd, rect)
  PROVE  Tally'
<1>1. /\ list' = Recorded(cmd, rect) /\ cmd \in Cmds /\ page.open \in Seq(Bracket)
      /\ page'.open \in Seq(Bracket) /\ Follows(cmd, page.open, page'.open)
  BY Situation DEF Adds
<1>2. PICK s, t : s = page.open /\ t = page'.open
  OBVIOUS
<1>3. s \in Seq(Bracket) /\ t \in Seq(Bracket) /\ Follows(cmd, s, t)
  BY <1>1, <1>2
<1>4. /\ NrClips(s, Len(s)) \in Nat
      /\ NrClips(t, Len(t)) = NrClips(s, Len(s))
                              + (IF cmd \in {"clip", "text", "image", "endmask"} THEN 1 ELSE 0)
                              - (IF cmd = "pop" THEN 1 ELSE 0)
  BY <1>1, <1>3, FollowsClips
<1>5. /\ All(s) \in Nat
      /\ All(t) = All(s) + (IF cmd = "tile" THEN 1 ELSE 0)
                         - (IF cmd = "endtile" THEN 1 ELSE 0)
  BY <1>1, <1>3, FollowsTiles
<1>6. list.top = NrClips(s, Len(s)) /\ list.tiled = All(s)
  BY <1>2 DEF Shrinks, Tally, All
<1>7. list'.top = NrClips(t, Len(t)) /\ list'.tiled = All(t)
  <2>1. ASSUME cmd \in {"clip", "image", "text", "endmask"}
        PROVE  list'.top = NrClips(t, Len(t)) /\ list'.tiled = All(t)
    <3>1. list'.top = list.top + 1 /\ list'.tiled = list.tiled
      BY <1>1, <2>1, PushAdds
    <3> QED BY <1>4, <1>5, <1>6, <2>1, <3>1
  <2>2. ASSUME cmd \in {"fill", "mask", "group"}
        PROVE  list'.top = NrClips(t, Len(t)) /\ list'.tiled = All(t)
    <3>1. list'.top = list.top /\ list'.tiled = list.tiled
      BY <1>1, <2>2, CoverAdds
    <3> QED BY <1>4, <1>5, <1>6, <2>2, <3>1
  <2>3. ASSUME cmd = "tile"
        PROVE  list'.top = NrClips(t, Len(t)) /\ list'.tiled = All(t)
    <3>1. list'.top = list.top /\ list'.tiled = list.tiled + 1
      BY <1>1, <2>3, TileAdds
    <3> QED BY <1>4, <1>5, <1>6, <2>3, <3>1
  <2>4. ASSUME cmd \in {"endtile", "endgroup"}
        PROVE  list'.top = NrClips(t, Len(t)) /\ list'.tiled = All(t)
    <3>1. list'.top = list.top /\ list'.tiled = list.tiled - IF cmd = "endtile" THEN 1 ELSE 0
      BY <1>1, <2>4, EndAdds
    <3> QED BY <1>4, <1>5, <1>6, <2>4, <3>1
  <2>5. ASSUME cmd = "pop"
        PROVE  list'.top = NrClips(t, Len(t)) /\ list'.tiled = All(t)
    <3>1. Adds("pop", rect) /\ list' = Recorded("pop", rect)
      BY <1>1, <2>5
    <3>2. /\ list.tiled \in Nat /\ list.top > 0
          /\ list.top \in 1..StackSize => list.stack[list.top].update \in 0..Len(list.node)
      BY <3>1, PopSays
    <3>3. list'.top = list.top - 1 /\ list'.tiled = list.tiled
      BY <3>1, <3>2, PopAdds
    <3> QED BY <1>4, <1>5, <1>6, <2>5, <3>3
  <2>6. \/ cmd \in {"clip", "image", "text", "endmask"} \/ cmd \in {"fill", "mask", "group"}
        \/ cmd = "tile" \/ cmd \in {"endtile", "endgroup"} \/ cmd = "pop"
    BY DEF Cmds, Begins, Ends
  <2> QED BY <2>1, <2>2, <2>3, <2>4, <2>5, <2>6
<1> QED BY <1>2, <1>7 DEF Tally, All

LEMMA WholeAdds ==
  ASSUME Typed, Shrinks, NEW cmd \in Cmds \ {"more"}, NEW rect \in SUBSET Cells,
         Adds(cmd, rect)
  PROVE  Whole'
<1> DEFINE N == Len(list.node)
           P == page.open
           Q == page'.open
<1>1. cmd \in Cmds /\ Len(P) \in Nat /\ Len(Q) \in Nat
  BY Situation
<1>2. N \in Nat /\ Len(list'.node) = N + 1
  BY <1>1, AddsIs DEF Adds
<1>3. /\ Len(Q) = Len(P) + (IF cmd \in Begins THEN 1 ELSE 0) - (IF cmd \in Ends THEN 1 ELSE 0)
      /\ cmd \in Begins => Q[Len(Q)].rect = rect
  BY <1>1, Situation
<1>4. ASSUME NEW b \in 1..N, NEW p \in 1..Len(Q), Opens(b, p)'
      PROVE  Q[p].rect \subseteq list'.node[b].rect
  <2>1. Opens(b, p) /\ p \in 1..Len(P)
    BY <1>1, <1>4, OpensAdds
  <2>2. P[p].rect \subseteq list.node[b].rect
    BY <2>1 DEF Shrinks, Whole
  <2>3. Q[p].rect = P[p].rect
    BY <2>1 DEF Adds, SamePlaces
  <2>4. CASE list'.node[b].rect = list.node[b].rect
    BY <2>2, <2>3, <2>4
  <2>5. CASE list'.node[b].rect # list.node[b].rect
    <3>1. cmd = "pop" /\ Shrinking(list) /\ b = list.stack[list.top].update
      BY <2>5, StackAdds
    <3>2. Adds("pop", rect)
      BY <3>1
    <3>3. Opens(b, Len(P))
      BY <1>2, <3>1, <3>2, PopSays DEF Shrinking
    <3>4. p = Len(P)
      BY <1>1, <2>1, <3>3 DEF Opens
    <3>5. Len(Q) = Len(P) - 1
      <4>1. cmd \in Ends /\ cmd \notin Begins
        BY <3>1 DEF Ends, Begins
      <4> QED BY <1>3, <4>1
    <3> QED BY <1>1, <3>4, <3>5
  <2> QED BY <2>4, <2>5
<1>5. ASSUME NEW b, b = N + 1, NEW p \in 1..Len(Q), Opens(b, p)'
      PROVE  Q[p].rect \subseteq list'.node[b].rect
  <2>1. cmd \in Begins /\ p = Len(P) + 1
    BY <1>1, <1>5, OpensNew
  <2>2. cmd \notin Ends
    BY <2>1 DEF Begins, Ends
  <2>3. p = Len(Q) /\ Q[p].rect = rect
    BY <1>1, <1>3, <2>1, <2>2
  <2>4. list'.node[b].rect = rect
    BY <1>5, <2>1, StackAdds
  <2> QED BY <2>3, <2>4
<1>6. \A b \in 1..Len(list'.node) : b \in 1..N \/ b = N + 1
  BY <1>2
<1> QED BY <1>4, <1>5, <1>6 DEF Whole

LEMMA UpdatesAdds ==
  ASSUME Typed, Shrinks, NEW cmd \in Cmds \ {"more"}, NEW rect \in SUBSET Cells,
         Adds(cmd, rect)
  PROVE  Updates'
<1> DEFINE N == Len(list.node)
           P == page.open
           Q == page'.open
<1>1. cmd \in Cmds /\ Len(P) \in Nat /\ Len(Q) \in Nat /\ StackSize \in Nat /\ Tally
  BY Situation, ListAssumption DEF Shrinks
<1>2. /\ Len(Q) = Len(P) + (IF cmd \in Begins THEN 1 ELSE 0) - (IF cmd \in Ends THEN 1 ELSE 0)
      /\ \A i \in 1..Len(P) : i \in 1..Len(Q) =>
           \/ Q[i].kind = P[i].kind
           \/ /\ cmd = "endmask" /\ i = Len(P)
              /\ P[i].kind = "mask" /\ Q[i].kind = "maskclip"
      /\ cmd \in Begins => Q[Len(Q)].kind = cmd
      /\ cmd = "endmask" => /\ Len(P) > 0
                            /\ P[Len(P)].kind = "mask" /\ Q[Len(P)].kind = "maskclip"
  BY <1>1, Situation
<1>3. /\ N \in Nat /\ Len(list'.node) = N + 1 /\ list'.node[N + 1].cmd = cmd
      /\ \A k \in 1..N + 1 : In(k)' = In(k)
      /\ In(N + 1) = P
      /\ \A k : k = N + 2 => In(k)' = Q
  BY <1>1, AddsIs DEF Adds
<1> SUFFICES ASSUME NEW p \in 1..Len(Q), NEW f, f = NrClips(Q, p), Q[p].kind \in Clips,
                    f <= StackSize, NEW u, u = list'.stack[f].update, u # 0
             PROVE  Opens(u, p)' /\ Q[p].kind \in {"clip", "image"}
  BY DEF Updates, Opens
<1>4. p \in Int /\ 1 <= p /\ p <= Len(Q)
  BY <1>1
<1>5. CASE p <= Len(P) /\ (cmd # "endmask" \/ p < Len(P))
  <2>1. p \in 1..Len(P) /\ Q[p].kind = P[p].kind
    <3>1. p \in 1..Len(P)
      BY <1>1, <1>4, <1>5
    <3>2. Q[p].kind = P[p].kind \/ (cmd = "endmask" /\ p = Len(P))
      BY <1>2, <3>1
    <3> QED BY <1>1, <1>4, <1>5, <3>1, <3>2
  <2>2. f = NrClips(P, p)
    BY <1>1, <1>4, <1>5, ClipsStay
  <2>3. f \in Nat /\ f <= list.top /\ f >= 1
    BY <1>1, <1>4, <1>5, <2>1, <2>2, FrameIs
  <2>4. u = list.stack[f].update
    BY <1>1, <2>3, StackAdds
  <2>5. Opens(u, p) /\ P[p].kind \in {"clip", "image"}
    BY <2>1, <2>2, <2>4 DEF Shrinks, Updates
  <2>6. u \in 1..N
    BY <2>5 DEF Opens
  <2>7. Opens(u, p)'
    BY <1>1, <2>5, <2>6, OpensAdds
  <2> QED BY <2>1, <2>5, <2>7
<1>6. CASE cmd = "endmask" /\ p = Len(P)
  <2>1. list' = Recorded(cmd, rect) /\ Len(Q) = Len(P) /\ cmd \notin Begins
    BY <1>1, <1>2, <1>6 DEF Begins, Ends, Adds
  <2>2. f = list'.top
    BY <1>6, <2>1, TallyAdds DEF Tally
  <2>3. /\ list'.top = list.top + 1
        /\ list.top + 1 \in 1..StackSize =>
             list'.stack[list.top + 1].update
               = IF cmd \in {"clip", "image"} THEN N + 1 ELSE 0
    BY <1>6, <2>1, PushAdds
  <2>4. list.top \in Nat
    BY DEF Typed, ListType
  <2> QED BY <1>1, <1>6, <2>2, <2>3, <2>4
<1>7. CASE p > Len(P)
  <2>1. cmd \in Begins /\ Len(Q) = Len(P) + 1 /\ p = Len(P) + 1
    <3>1. Len(Q) = Len(P) + (IF cmd \in Begins THEN 1 ELSE 0) - (IF cmd \in Ends THEN 1 ELSE 0)
      BY <1>2
    <3> HIDE DEF P, Q
    <3> QED BY <1>1, <1>4, <1>7, <3>1
  <2>2. Q[p].kind = cmd /\ cmd \in {"clip", "text", "image"}
    BY <1>2, <2>1 DEF Begins, Clips
  <2>3. f = list'.top
    BY <2>1, TallyAdds DEF Tally
  <2>4. list' = Recorded(cmd, rect)
    BY DEF Adds
  <2>5. /\ list'.top = list.top + 1
        /\ list.top + 1 \in 1..StackSize =>
             list'.stack[list.top + 1].update
               = IF cmd \in {"clip", "image"} THEN N + 1 ELSE 0
    BY <2>2, <2>4, PushAdds
  <2>6. list.top \in Nat
    BY DEF Typed, ListType
  <2>7. u = N + 1 /\ cmd \in {"clip", "image"}
    BY <1>1, <2>3, <2>5, <2>6
  <2>8. Opens(u, p)'
    <3>1. \A j \in u + 1..Len(list'.node) + 1 : Len(In(j)') >= p
      <4>1. \A j \in u + 1..Len(list'.node) + 1 : j = N + 2
        BY <1>3, <2>7
      <4> QED BY <1>1, <1>3, <2>1, <4>1
    <3>2. Within(u + 1, p)'
      BY <3>1 DEF Within
    <3>3. In(u)' = P /\ u \in 1..Len(list'.node) /\ list'.node[u].cmd = cmd
      BY <1>3, <2>7
    <3>4. Len(P) = p - 1
      BY <1>1, <2>1
    <3> QED BY <2>1, <3>2, <3>3, <3>4 DEF Opens
  <2> QED BY <2>2, <2>7, <2>8
<1> QED BY <1>1, <1>4, <1>5, <1>6, <1>7

LEMMA RepeatsAdds ==
  ASSUME Typed, Shrinks, NEW cmd \in Cmds \ {"more"}, NEW rect \in SUBSET Cells,
         Adds(cmd, rect)
  PROVE  Repeats'
<1> DEFINE P == page.open
           Q == page'.open
<1>1. cmd \in Cmds /\ Len(P) \in Nat /\ Len(Q) \in Nat /\ StackSize \in Nat /\ Tally
  BY Situation, ListAssumption DEF Shrinks
<1>2. /\ Len(Q) = Len(P) + (IF cmd \in Begins THEN 1 ELSE 0) - (IF cmd \in Ends THEN 1 ELSE 0)
      /\ \A i \in 1..Len(P) : i \in 1..Len(Q) =>
           \/ Q[i].kind = P[i].kind
           \/ /\ cmd = "endmask" /\ i = Len(P)
              /\ P[i].kind = "mask" /\ Q[i].kind = "maskclip"
      /\ cmd \in Begins => Q[Len(Q)].kind = cmd
      /\ cmd = "endmask" => /\ Len(P) > 0
                            /\ P[Len(P)].kind = "mask" /\ Q[Len(P)].kind = "maskclip"
  BY <1>1, Situation
<1> SUFFICES ASSUME NEW p \in 1..Len(Q), NEW f, f = NrClips(Q, p), Q[p].kind = "tile",
                    NoTile(Q, p - 1), f \in 1..StackSize
             PROVE  list'.stack[f].rect = Cells
  BY DEF Repeats
<1>3. p \in Int /\ 1 <= p /\ p <= Len(Q)
  BY <1>1
<1>4. CASE p <= Len(P)
  <2>1. p \in 1..Len(P) /\ p - 1 \in Int /\ p - 1 <= Len(P) /\ p - 1 <= Len(Q)
    BY <1>1, <1>3, <1>4
  <2>2. Q[p].kind = P[p].kind /\ (cmd # "endmask" \/ p < Len(P))
    <3>1. \/ Q[p].kind = P[p].kind
          \/ /\ cmd = "endmask" /\ p = Len(P)
             /\ P[p].kind = "mask" /\ Q[p].kind = "maskclip"
      BY <1>2, <2>1
    <3>2. CASE p < Len(P)
      BY <3>1, <3>2
    <3>3. CASE p = Len(P)
      BY <1>2, <3>1, <3>3
    <3> QED BY <1>1, <1>3, <1>4, <3>2, <3>3
  <2>3. f = NrClips(P, p) /\ NoTile(P, p - 1)
    BY <1>1, <1>3, <1>4, <2>1, <2>2, ClipsStay, TilesStay
  <2>4. f <= list.top
    BY <1>1, <1>3, <1>4, <2>3, FrameIs
  <2>5. list.stack[f].rect = Cells
    BY <2>1, <2>2, <2>3 DEF Shrinks, Repeats
  <2>6. list.tiled # 0
    <3>1. ~ NoTile(P, Len(P))
      BY <2>1, <2>2 DEF NoTile
    <3> QED BY <1>1, <3>1, NoTileIs DEF Tally
  <2> QED BY <1>1, <2>4, <2>5, <2>6, StackAdds
<1>5. CASE p > Len(P)
  <2>1. cmd \in Begins /\ Len(Q) = Len(P) + 1 /\ p = Len(P) + 1
    <3>1. Len(Q) = Len(P) + (IF cmd \in Begins THEN 1 ELSE 0) - (IF cmd \in Ends THEN 1 ELSE 0)
      BY <1>2
    <3> HIDE DEF P, Q
    <3> QED BY <1>1, <1>3, <1>5, <3>1
  <2>2. cmd = "tile" /\ list' = Recorded(cmd, rect)
    BY <1>1, <1>2, <2>1 DEF Adds
  <2>3. f = list'.top
    BY <2>1, TallyAdds DEF Tally
  <2>4. /\ list'.top = list.top
        /\ \A g \in 1..StackSize :
             list'.stack[g].rect = IF g = list.top THEN Cells ELSE list.stack[g].rect
    BY <2>2, TileAdds
  <2> QED BY <2>3, <2>4
<1> QED BY <1>1, <1>3, <1>4, <1>5

\* What was drawn inside of what node b opened, before and after.
LEMMA EnclosesAdds ==
  ASSUME Typed, NEW cmd \in Cmds, NEW rect \in SUBSET Cells, Adds(cmd, rect),
         NEW b \in 1..Len(list.node), NEW n, n \in 1..Len(list.node) + 1
  PROVE  /\ Shows(b)' <=> Shows(b)
         /\ Encloses(b, n)' <=> Encloses(b, n)
<1>1. /\ Len(list.node) \in Nat
      /\ \A k \in 1..Len(list.node) + 1 : In(k)' = In(k)
      /\ list'.node[b].cmd = list.node[b].cmd
  BY AddsIs DEF Adds
<1>2. \A j \in b + 1..n : In(j)' = In(j)
  BY <1>1
<1>3. In(b)' = In(b)
  BY <1>1
<1>4. Encloses(b, n)' <=> Encloses(b, n)
  BY <1>2, <1>3 DEF Encloses
<1> QED BY <1>1, <1>3, <1>4 DEF Shows

\* What was drawn inside of a clip that is closed now is inside what it is
\* shrunk to.
LEMMA ShrunkHas ==
  ASSUME Typed, Nesting, Shrinks, Shrinking(list), NEW p, p = Len(page.open),
         p \in 1..Len(page.open), list.top = NrClips(page.open, p),
         page.open[p].kind \in Clips,
         NEW n \in 1..Len(list.node), NEW c \in Cells, IsFill(n), Sees(n, c), Holds(n, p)
  PROVE  c \in Shrunk(list)
<1> DEFINE u == list.stack[list.top].update
           P == page.open
<1>1. list.top \in 1..StackSize /\ StackSize \in Nat /\ Len(list.node) \in Nat /\ Len(P) \in Nat
  BY ListAssumption DEF Shrinking, Typed, ListType, DevType
<1>2. list.top <= StackSize
  BY <1>1
<1>3. Closest(n, p)
  BY <1>1 DEF Closest
<1>4. c \in list.stack[list.top].rect
  BY <1>2, <1>3 DEF Shrinks, Covers
<1>5. CASE u = 0
  BY <1>4, <1>5 DEF Shrunk
<1>6. CASE u # 0
  <2>1. Opens(u, p) /\ P[p].kind \in {"clip", "image"}
    BY <1>2, <1>6 DEF Shrinks, Updates
  <2>2. Steady /\ Enough
    BY DEF Shrinks
  <2>3. /\ u \in 1..Len(list.node) /\ Len(In(u)) = p - 1
        /\ NoTile(In(u), p - 1) <=> NoTile(P, p - 1)
        /\ \/ P[p].kind = list.node[u].cmd
           \/ list.node[u].cmd = "mask" /\ P[p].kind = "maskclip"
    BY <2>1, <2>2, OpensKinds
  <2>4. Shows(u)
    <3>1. NoTile(P, p) /\ p \in Int
      BY <1>1 DEF Holds
    <3>2. NoTile(P, p - 1)
      BY <3>1 DEF NoTile
    <3> QED BY <2>1, <2>3, <3>2 DEF Shows, Begins
  <2>5. Encloses(u, n)
    <3>1. Within(u + 1, p) /\ Within(n, p)
      BY <2>1 DEF Opens, Holds
    <3>2. u < n
      <4>1. \A j \in n..Len(list.node) + 1 : Len(In(j)) >= p
        BY <3>1 DEF Within
      <4>2. ~ (Len(In(u)) >= p)
        BY <1>1, <2>3
      <4> HIDE DEF u
      <4> QED BY <1>1, <2>3, <4>1, <4>2
    <3>3. \A j \in u + 1..n : Len(In(j)) > Len(In(u))
      <4>1. \A j \in u + 1..Len(list.node) + 1 : Len(In(j)) >= p
        BY <3>1 DEF Within
      <4>2. \A j \in u + 1..n : j \in Int /\ j \in u + 1..Len(list.node) + 1
        BY <1>1, <2>3
      <4>3. \A j \in u + 1..n : Len(In(j)) \in Nat
        BY <4>2, InType
      <4> HIDE DEF u
      <4> QED BY <1>1, <2>3, <4>1, <4>2, <4>3
    <3> QED BY <3>2, <3>3 DEF Encloses
  <2>6. c \in list.node[u].rect
    BY <2>2, <2>3, <2>4, <2>5 DEF Enough
  <2> QED BY <1>4, <1>6, <2>6 DEF Shrunk
<1> QED BY <1>5, <1>6

\* What is drawn does not shrink, and is seen as before.
LEMMA SeesStays ==
  ASSUME Typed, Shrinks, NEW cmd \in Cmds \ {"more"}, NEW rect \in SUBSET Cells,
         Adds(cmd, rect), NEW n \in 1..Len(list.node), NEW c
  PROVE  /\ IsFill(n)' <=> IsFill(n)
         /\ IsFill(n) => (Sees(n, c)' <=> Sees(n, c))
<1>1. ASSUME list.node[n].cmd = "fill", list'.node[n].rect # list.node[n].rect
      PROVE  FALSE
  <2>1. cmd = "pop" /\ Shrinking(list) /\ n = list.stack[list.top].update
    BY <1>1, StackAdds
  <2>2. Adds("pop", rect) /\ list.top \in 1..StackSize /\ n # 0
    BY <2>1 DEF Shrinking
  <2>3. Opens(n, Len(page.open))
    BY <2>1, <2>2, PopSays
  <2> QED BY <1>1, <2>3 DEF Opens, Begins
<1> QED BY <1>1, SeesAdds

\* What can be seen of what is drawn now.
LEMMA SeesNew ==
  ASSUME Typed, Shrinks, NEW cmd \in Cmds \ {"more"}, NEW rect \in SUBSET Cells,
         Adds(cmd, rect), NEW n, n = Len(list.node) + 1, IsFill(n)'
  PROVE  /\ cmd = "fill"
         /\ \A c : Sees(n, c)' =>
              /\ \A p \in 1..Len(page.open) : NoTile(page.open, p) => c \in page.open[p].rect
              /\ NoTile(page.open, Len(page.open)) => c \in rect
<1>1. /\ list'.node[n].cmd = cmd /\ list'.node[n].in = page.open
  BY AddsIs DEF Adds
<1>2. cmd = "fill"
  BY <1>1 DEF IsFill
<1>3. list'.node[n].rect = rect
  BY <1>2, StackAdds
<1>4. page.open \in Seq(Bracket) /\ Len(page.open) \in Nat
  BY Situation
<1>5. ASSUME NEW c, Sees(n, c)'
      PROVE  /\ \A p \in 1..Len(page.open) : NoTile(page.open, p) => c \in page.open[p].rect
             /\ NoTile(page.open, Len(page.open)) => c \in rect
  <2> DEFINE P == page.open
             tiles == {i \in DOMAIN P : P[i].kind = "tile"}
             outside == {i \in DOMAIN P : \A j \in tiles : i < j}
  <2>1. (\A i \in outside : c \in P[i].rect) /\ (tiles = {} => c \in rect)
    BY <1>1, <1>3, <1>5 DEF Sees
  <2>2. DOMAIN P = 1..Len(P)
    BY <1>4
  <2>3. ASSUME NEW p \in 1..Len(P), NoTile(P, p)
        PROVE  c \in P[p].rect
    <3>1. \A j \in tiles : p < j
      BY <1>4, <2>2, <2>3 DEF NoTile
    <3> QED BY <2>1, <2>2, <3>1
  <2>4. ASSUME NoTile(P, Len(P))
        PROVE  c \in rect
    <3>1. tiles = {}
      BY <2>2, <2>4 DEF NoTile
    <3> QED BY <2>1, <3>1
  <2> QED BY <2>3, <2>4
<1> QED BY <1>2, <1>5

LEMMA EnoughAdds ==
  ASSUME Typed, Nesting, Shrinks, NEW cmd \in Cmds \ {"more"}, NEW rect \in SUBSET Cells,
         Adds(cmd, rect)
  PROVE  Enough'
<1> DEFINE N == Len(list.node)
           P == page.open
<1>1. cmd \in Cmds /\ Len(P) \in Nat /\ Steady /\ Whole /\ Enough /\ Tally
  BY Situation DEF Shrinks
<1>2. /\ N \in Nat /\ Len(list'.node) = N + 1 /\ In(N + 1) = P
  BY <1>1, AddsIs DEF Adds
<1> SUFFICES ASSUME NEW b \in 1..N + 1, NEW n \in 1..N + 1, NEW c \in Cells,
                    Shows(b)', Encloses(b, n)', IsFill(n)', Sees(n, c)'
             PROVE  c \in list'.node[b].rect
  BY <1>2 DEF Enough
<1>3. b \in 1..N /\ b < n
  BY <1>2 DEF Encloses
<1>4. Shows(b) /\ Encloses(b, n)
  BY <1>1, <1>3, EnclosesAdds
<1>5. CASE n \in 1..N
  <2>1. IsFill(n) /\ Sees(n, c)
    BY <1>5, SeesStays
  <2>2. c \in list.node[b].rect
    BY <1>1, <1>3, <1>4, <1>5, <2>1 DEF Enough
  <2>3. CASE list'.node[b].rect = list.node[b].rect
    BY <2>2, <2>3
  <2>4. CASE list'.node[b].rect # list.node[b].rect
    <3>1. /\ cmd = "pop" /\ Shrinking(list) /\ b = list.stack[list.top].update
          /\ list'.node[b].rect = Shrunk(list)
      BY <1>3, <2>4, StackAdds
    <3>2. Adds("pop", rect) /\ list.top \in 1..StackSize /\ b # 0 /\ list.tiled = 0
      BY <1>2, <1>3, <3>1 DEF Shrinking
    <3>3. PICK p : p = Len(P)
      OBVIOUS
    <3>4. /\ p \in 1..Len(P) /\ P[p].kind \in Clips /\ list.top = NrClips(P, p)
          /\ Opens(b, p) /\ P[p].kind \in {"clip", "image"}
      BY <3>1, <3>2, <3>3, PopSays
    <3>5. Holds(n, p)
      <4>1. Within(b + 1, p)
        BY <3>4 DEF Opens
      <4>2. Within(n, p)
        BY <1>2, <1>3, <1>5, <4>1 DEF Within
      <4>3. NoTile(P, p)
        BY <1>1, <3>2, <3>3, NoTileIs DEF Tally
      <4>4. \/ In(n)[p].kind = P[p].kind
            \/ In(n)[p].kind = "mask" /\ P[p].kind = "maskclip"
        BY <1>1, <3>4, <4>2 DEF Steady
      <4> QED BY <3>4, <4>2, <4>3, <4>4 DEF Holds
    <3>6. c \in Shrunk(list)
      BY <1>5, <2>1, <3>1, <3>3, <3>4, <3>5, ShrunkHas
    <3> QED BY <3>1, <3>6
  <2> QED BY <2>3, <2>4
<1>6. CASE n = N + 1
  <2>1. cmd = "fill"
    BY <1>6, SeesNew
  <2>2. list'.node[b].rect = list.node[b].rect
    BY <1>3, <2>1, StackAdds
  <2>3. PICK p : p = Len(In(b)) + 1
    OBVIOUS
  <2>4. p \in Nat /\ Len(In(b)) = p - 1 /\ p >= 1
    <3>1. Len(In(b)) \in Nat
      BY <1>3, InType
    <3> QED BY <2>3, <3>1
  <2>5. \A j \in b + 1..N + 1 : Len(In(j)) >= p
    <3>1. \A j \in b + 1..N + 1 : Len(In(j)) > Len(In(b))
      BY <1>4, <1>6 DEF Encloses
    <3>2. \A j \in b + 1..N + 1 : Len(In(j)) \in Nat
      BY InType
    <3> QED BY <2>4, <3>1, <3>2
  <2>6. p \in 1..Len(P)
    <3>1. N + 1 \in b + 1..N + 1
      BY <1>2, <1>3
    <3> QED BY <1>1, <1>2, <2>4, <2>5, <3>1
  <2>7. Opens(b, p)
    BY <1>3, <1>4, <2>4, <2>5 DEF Opens, Within, Shows
  <2>8. P[p].rect \subseteq list.node[b].rect
    BY <1>1, <1>3, <2>6, <2>7 DEF Whole
  <2>9. NoTile(P, p)
    <3>1. /\ NoTile(In(b), p - 1) <=> NoTile(P, p - 1)
          /\ P[p].kind = list.node[b].cmd \/ P[p].kind = "maskclip"
      BY <1>1, <2>6, <2>7, OpensKinds
    <3>2. NoTile(P, p - 1) /\ P[p].kind # "tile"
      BY <1>4, <2>4, <3>1 DEF Shows
    <3> QED BY <2>4, <3>2 DEF NoTile
  <2>10. c \in P[p].rect
    BY <1>6, <2>6, <2>9, SeesNew
  <2> QED BY <2>2, <2>8, <2>10
<1> QED BY <1>2, <1>5, <1>6

\* A clip that contents are held by is open still.
LEMMA HoldsOpen ==
  ASSUME Typed, Steady, NEW n \in 1..Len(list.node) + 1, NEW p \in 1..Len(page.open), Holds(n, p)
  PROVE  /\ page.open[p].kind = In(n)[p].kind /\ page.open[p].kind \in Clips
         /\ \A q \in 1..p - 1 : In(n)[q].kind = page.open[q].kind
<1>1. /\ \A i \in 1..p - 1 : In(n)[i].kind = page.open[i].kind
      /\ \/ In(n)[p].kind = page.open[p].kind
         \/ In(n)[p].kind = "mask" /\ page.open[p].kind = "maskclip"
  BY DEF Holds, Steady
<1>2. In(n)[p].kind \in Clips
  BY DEF Holds
<1> QED BY <1>1, <1>2 DEF Clips

\* Contents of a clip that is closed now go to the clip around it.
LEMMA ContentHas ==
  ASSUME Typed, Nesting, Shrinks, NEW rect \in SUBSET Cells, Adds("pop", rect),
         NEW n \in 1..Len(list.node), NEW c \in Cells, IsFill(n), Sees(n, c),
         Holds(n, Len(page.open)),
         NEW p \in 1..Len(page.open) - 1,
         \A q \in p + 1..Len(page.open) - 1 : ~ Holds(n, q)
  PROVE  /\ NrClips(page.open, p) = list.top - 1
         /\ list.tiled = 0
         /\ c \in Content(list)
<1>1. PICK l : l = Len(page.open)
  OBVIOUS
<1>2. /\ l \in Nat /\ l \in 1..Len(page.open) /\ page.open[l].kind \in Clips
      /\ list.top = NrClips(page.open, l) /\ list.top > 0 /\ list.top \in Nat
  BY <1>1, PopSays
<1>3. Steady /\ Tally /\ Holds(n, l) /\ n \in 1..Len(list.node) + 1
  BY <1>1 DEF Shrinks, Typed, ListType
<1>4. /\ Within(n, l) /\ NoTile(page.open, l)
      /\ \A q \in 1..l - 1 : In(n)[q].kind = page.open[q].kind
  BY <1>2, <1>3, HoldsOpen DEF Holds
<1>5. ASSUME NEW q \in p + 1..l - 1
      PROVE  page.open[q].kind \notin Clips
  <2>1. q \in Int /\ q < l /\ q \in 1..Len(page.open)
    BY <1>1, <1>2
  <2>2. ~ Holds(n, q)
    BY <1>1, <1>5
  <2>3. Within(n, q)
    <3>1. \A j \in n..Len(list.node) + 1 : Len(In(j)) >= l
      BY <1>4 DEF Within
    <3>2. \A j \in n..Len(list.node) + 1 : Len(In(j)) \in Nat
      BY InType
    <3>3. \A j \in n..Len(list.node) + 1 : Len(In(j)) >= q
      BY <1>2, <2>1, <3>1, <3>2
    <3> QED BY <3>3 DEF Within
  <2>4. NoTile(page.open, q)
    BY <1>2, <1>4, <2>1 DEF NoTile
  <2>5. In(n)[q].kind \notin Clips
    BY <2>1, <2>2, <2>3, <2>4 DEF Holds
  <2>6. q \in 1..l - 1
    BY <1>2, <2>1
  <2> QED BY <1>4, <2>5, <2>6
<1>6. NrClips(page.open, p) = NrClips(page.open, l - 1)
  <2>1. p \in Int /\ l - 1 \in Int /\ p <= l - 1
    BY <1>1, <1>2
  <2> QED BY <1>5, <2>1, ClipsBetween
<1>7. NrClips(page.open, l) = NrClips(page.open, l - 1) + 1 /\ NrClips(page.open, l - 1) \in Nat
  <2>1. NrClips(page.open, l) = NrClips(page.open, l - 1) + 1
    BY <1>2, ClipsLast
  <2>2. NrClips(page.open, l - 1) \in Nat
    BY <1>2, ClipsFinite
  <2> QED BY <2>1, <2>2
<1>8. list.tiled = 0
  BY <1>1, <1>2, <1>3, <1>4, NoTileIs DEF Tally
<1>9. c \in Content(list)
  <2>1. CASE list.top > StackSize
    BY <2>1 DEF Content
  <2>2. CASE ~ (list.top > StackSize)
    <3>1. Shrinking(list)
      BY <1>2, <1>8, <2>2, ListAssumption DEF Shrinking
    <3>2. c \in Shrunk(list)
      BY <1>1, <1>2, <1>3, <3>1, ShrunkHas
    <3> QED BY <2>2, <3>2 DEF Content
  <2> QED BY <2>1, <2>2
<1> QED BY <1>2, <1>6, <1>7, <1>8, <1>9

\* What is drawn now is among what the clips around it are to cover.
LEMMA FillCovered ==
  ASSUME Typed, Shrinks, NEW rect \in SUBSET Cells, Adds("fill", rect),
         NEW n, n = Len(list.node) + 1, NEW p \in 1..Len(page.open),
         NEW f, f = NrClips(page.open, p), f <= StackSize,
         NEW c \in Cells, IsFill(n)', Sees(n, c)',
         Holds(n, p), \A q \in p + 1..Len(page.open) : ~ Holds(n, q)
  PROVE  c \in list'.stack[f].rect
<1> DEFINE P == page.open
<1>0. "fill" \in Cmds \ {"more"} /\ "fill" \in Cmds
  BY DEF Cmds
<1>1. /\ Len(P) \in Nat /\ Len(list.node) \in Nat /\ Steady /\ Tally /\ Repeats
      /\ StackSize \in Nat /\ n \in 1..Len(list.node) + 1
  BY <1>0, Situation, ListAssumption DEF Shrinks, Typed, ListType
<1>2. In(n) = P /\ In(n)' = In(n) /\ list' = Recorded("fill", rect)
  BY <1>0, <1>1, AddsIs DEF Adds
<1>3. NoTile(P, p) /\ P[p].kind \in Clips
  BY <1>2 DEF Holds
<1>4. f \in Nat /\ f >= 1 /\ f <= list.top
  BY <1>1, <1>3, FrameIs
<1>5. \A q \in p + 1..Len(P) : NoTile(P, q) => P[q].kind \notin Clips
  <2> SUFFICES ASSUME NEW q \in p + 1..Len(P), NoTile(P, q), P[q].kind \in Clips
               PROVE  FALSE
    OBVIOUS
  <2>1. q \in 1..Len(P) /\ q \in Int
    BY <1>1
  <2>2. \A j \in n..Len(list.node) + 1 : Len(In(j)) >= q
    BY <1>1, <1>2, <2>1
  <2>3. Holds(n, q)
    BY <1>2, <2>1, <2>2 DEF Holds, Within
  <2> QED BY <2>3
<1>6. CASE list.tiled = 0
  <2>1. NoTile(P, Len(P))
    BY <1>1, <1>6, NoTileIs DEF Tally
  <2>2. \A q \in p + 1..Len(P) : NoTile(P, q)
    BY <1>1, <2>1 DEF NoTile
  <2>3. f = list.top
    BY <1>1, <1>5, <2>2, ClipsBetween DEF Tally
  <2>4. c \in rect
    BY <1>0, <2>1, SeesNew
  <2>5. list'.stack[f].rect = Union(list.stack[f].rect, rect)
    BY <1>1, <1>2, <1>4, <1>6, <2>3, CoverAdds
  <2> QED BY <2>4, <2>5, UnionHas
<1>7. CASE list.tiled # 0
  <2>1. ~ NoTile(P, Len(P))
    BY <1>1, <1>7, NoTileIs DEF Tally
  <2> DEFINE T == {i \in 1..Len(P) : P[i].kind = "tile"}
  <2>2. T \in SUBSET Nat /\ T # {}
    BY <1>1, <2>1 DEF NoTile
  <2>3. PICK t \in T : \A y \in T : t <= y
    BY <2>2, Least
  <2>4. t \in 1..Len(P) /\ P[t].kind = "tile" /\ t \in Int
    BY <1>1, <2>3
  <2>5. NoTile(P, t - 1)
    BY <1>1, <2>3, <2>4 DEF NoTile
  <2>6. p < t
    BY <1>1, <1>3, <2>4 DEF NoTile
  <2>7. \A q \in p + 1..t : P[q].kind \notin Clips
    <3>1. ASSUME NEW q \in p + 1..t - 1
          PROVE  P[q].kind \notin Clips
      <4>1. q \in p + 1..Len(P) /\ q \in Int /\ q <= t - 1
        BY <1>1, <2>4
      <4>2. \A i \in 1..q : i \in 1..t - 1
        BY <2>4, <4>1
      <4>3. NoTile(P, q)
        BY <2>5, <4>2 DEF NoTile
      <4> QED BY <1>5, <4>1, <4>3
    <3>2. P[t].kind \notin Clips
      BY <2>4 DEF Clips
    <3>3. \A q \in p + 1..t : q \in p + 1..t - 1 \/ q = t
      BY <1>1, <2>4
    <3> QED BY <3>1, <3>2, <3>3
  <2>8. f = NrClips(P, t)
    <3>1. p \in Int /\ p <= t /\ f = NrClips(P, p)
      BY <1>1, <2>4, <2>6
    <3>2. NrClips(P, p) = NrClips(P, t)
      BY <2>4, <2>7, <3>1, ClipsBetween
    <3> QED BY <3>1, <3>2
  <2>9. list.stack[f].rect = Cells
    BY <1>1, <1>4, <2>4, <2>5, <2>8 DEF Repeats
  <2>10. list'.stack[f].rect = Cells
    BY <1>0, <1>1, <1>4, <1>7, <2>9, StackAdds
  <2> QED BY <2>10
<1> QED BY <1>6, <1>7

LEMMA CoversAdds ==
  ASSUME Typed, Nesting, Shrinks, NEW cmd \in Cmds \ {"more"}, NEW rect \in SUBSET Cells,
         Adds(cmd, rect)
  PROVE  Covers'
<1> DEFINE N == Len(list.node)
           P == page.open
           Q == page'.open
<1>1. /\ cmd \in Cmds /\ Len(P) \in Nat /\ Len(Q) \in Nat /\ StackSize \in Nat
      /\ Steady /\ Tally /\ Covers
  BY Situation, ListAssumption DEF Shrinks
<1>2. /\ Len(Q) = Len(P) + (IF cmd \in Begins THEN 1 ELSE 0) - (IF cmd \in Ends THEN 1 ELSE 0)
      /\ cmd = "endmask" => Len(P) > 0 /\ P[Len(P)].kind = "mask"
      /\ cmd \in Ends => Len(P) > 0 /\ cmd = EndOf(P[Len(P)].kind)
  BY <1>1, Situation
<1>3. N \in Nat /\ Len(list'.node) = N + 1
  BY <1>1, AddsIs DEF Adds
<1> SUFFICES ASSUME NEW n \in 1..N + 1, NEW p \in 1..Len(Q), NEW c \in Cells,
                    NEW f, f = NrClips(Q, p), f <= StackSize,
                    IsFill(n)', Sees(n, c)', Holds(n, p)',
                    \A q \in p + 1..Len(Q) : ~ Holds(n, q)'
             PROVE  c \in list'.stack[f].rect
  BY <1>3 DEF Covers, Closest
<1>4. Holds(n, p) /\ \A q \in p + 1..Len(Q) : ~ Holds(n, q)
  <2>1. \A q \in p + 1..Len(Q) : q \in 1..Len(Q)
    BY <1>1
  <2> QED BY <1>1, <2>1, HoldsAdds
<1>5. p \in 1..Len(P) /\ p \in Int /\ p <= Len(P) /\ p <= Len(Q)
  BY <1>1, <1>4 DEF Holds
<1>6. P[p].kind \in Clips
  BY <1>1, <1>4, <1>5, HoldsOpen
<1>7. f = NrClips(P, p)
  <2>1. cmd # "endmask" \/ p < Len(P)
    BY <1>1, <1>2, <1>5, <1>6 DEF Clips
  <2> QED BY <1>1, <1>5, <2>1, ClipsStay
<1>8. f \in Nat /\ f >= 1 /\ f <= list.top
  BY <1>1, <1>5, <1>6, <1>7, FrameIs
<1>9. CASE n \in 1..N
  <2>1. IsFill(n) /\ Sees(n, c)
    BY <1>9, SeesStays
  <2>2. CASE Closest(n, p)
    <3>1. c \in list.stack[f].rect
      BY <1>1, <1>5, <1>7, <1>9, <2>1, <2>2 DEF Covers
    <3> QED BY <1>1, <1>8, <3>1, StackAdds
  <2>3. CASE ~ Closest(n, p)
    <3>1. PICK q \in p + 1..Len(P) : Holds(n, q)
      BY <1>4, <2>3 DEF Closest
    <3>2. q \notin p + 1..Len(Q)
      BY <1>4, <3>1
    <3>3. Len(Q) = Len(P) + (IF cmd \in Begins THEN 1 ELSE 0) - (IF cmd \in Ends THEN 1 ELSE 0)
      BY <1>2
    <3>4. cmd \in Ends /\ q = Len(P) /\ Len(Q) = Len(P) - 1
      <4> HIDE DEF P, Q
      <4> QED BY <1>1, <1>5, <3>1, <3>2, <3>3
    <3>5. P[q].kind \in Clips
      BY <1>1, <1>5, <3>1, HoldsOpen
    <3>6. cmd = "pop"
      BY <1>2, <3>4, <3>5 DEF EndOf
    <3>7. Adds("pop", rect) /\ Holds(n, Len(P)) /\ p \in 1..Len(P) - 1
      BY <1>1, <1>5, <3>1, <3>4, <3>6
    <3>8. \A r \in p + 1..Len(P) - 1 : ~ Holds(n, r)
      BY <1>4, <3>4
    <3>9. NrClips(P, p) = list.top - 1 /\ list.tiled = 0 /\ c \in Content(list)
      BY <1>9, <2>1, <3>7, <3>8, ContentHas
    <3>10. /\ list.top > 0 /\ list.tiled \in Nat /\ list' = Recorded("pop", rect)
           /\ list.top \in 1..StackSize => list.stack[list.top].update \in 0..N
      BY <3>7, PopSays DEF Adds
    <3>11. f \in 1..StackSize
      BY <1>1, <1>8
    <3>12. list'.stack[f].rect = Union(list.stack[f].rect, Content(list))
      BY <1>7, <3>9, <3>10, <3>11, PopAdds
    <3> QED BY <3>9, <3>12, UnionHas
  <2> QED BY <2>2, <2>3
<1>10. CASE n = N + 1
  <2>1. cmd = "fill"
    BY <1>10, SeesNew
  <2>2. Len(Q) = Len(P)
    BY <1>1, <1>2, <2>1 DEF Begins, Ends
  <2>3. Adds("fill", rect)
    BY <2>1
  <2> QED BY <1>4, <1>5, <1>7, <1>10, <2>2, <2>3, FillCovered
<1> QED BY <1>3, <1>9, <1>10

\* Every node that is recorded, but text that adds to a clip, keeps Shrinks.
LEMMA ShrinksAdds ==
  ASSUME Typed, Nesting, Shrinks, NEW cmd \in Cmds \ {"more"}, NEW rect \in SUBSET Cells,
         Adds(cmd, rect)
  PROVE  Shrinks'
<1>1. cmd \in Cmds /\ Steady
  BY DEF Shrinks
<1> QED BY <1>1, TallyAdds, SteadyAdds, WholeAdds, UpdatesAdds, RepeatsAdds, CoversAdds,
           EnoughAdds DEF Shrinks

-----------------------------------------------------------------------------
(* What is culled                                                          *)

\* Before node at, a device that has begun fewer brackets than are around it is
\* inside of one that cannot be seen.
CulledAt(d, at) ==
  Begun(d) < Len(In(at)) =>
    \E b \in 1..Len(list.node) :
      /\ Encloses(b, at) /\ Len(In(b)) = Begun(d) /\ Shows(b)
      /\ list.node[b].rect \cap Scissor = {}

\* The device is any that has been given all brackets: the one the list is
\* replayed to may ignore images.
Tracks(d) ==
  /\ d \in DevType /\ Matches(In(run.at), d, run.clipped, run.tiled)
  /\ CulledAt(d, run.at)

\* What can be seen of the nodes before this one was drawn.
Drawn ==
  \A n \in 1..run.at - 1 : IsFill(n) /\ (\E c \in Scissor : Sees(n, c)) => n \in drawn

CInv ==
  /\ Typed /\ Nesting
  /\ run.at <= Len(list.node) + 1
  /\ run.at = 0 => Replayed
  /\ run.at > 0 => page.open = << >> /\ \E d : Tracks(d)
  /\ Plain => Shrinks /\ Drawn

\* The contents stay, whatever else does not.
LEMMA ShrinksSame ==
  ASSUME list' = list, page'.open = page.open
  PROVE  /\ Plain' <=> Plain
         /\ Shrinks' <=> Shrinks
         /\ \A n, c : IsFill(n)' = IsFill(n) /\ Sees(n, c)' = Sees(n, c)
         /\ \A k : In(k)' = In(k)
<1>1. \A k : In(k)' = In(k)
  BY DEF In
<1>2. \A k, p : Within(k, p)' = Within(k, p)
  BY <1>1 DEF Within
<1>3. \A b, p : Opens(b, p)' = Opens(b, p)
  BY <1>1, <1>2 DEF Opens
<1>4. \A n, p : Holds(n, p)' = Holds(n, p)
  BY <1>1, <1>2 DEF Holds
<1>5. \A n, p : Closest(n, p)' = Closest(n, p)
  BY <1>4 DEF Closest
<1>6. \A n, c : IsFill(n)' = IsFill(n) /\ Sees(n, c)' = Sees(n, c)
  BY DEF IsFill, Sees
<1>7. \A b, n : Shows(b)' = Shows(b) /\ Encloses(b, n)' = Encloses(b, n)
  BY <1>1 DEF Shows, Encloses
<1>8. Tally' <=> Tally
  BY DEF Tally
<1>9. Steady' <=> Steady
  BY <1>1, <1>2 DEF Steady
<1>10. Whole' <=> Whole
  BY <1>3 DEF Whole
<1>11. Updates' <=> Updates
  BY DEF Updates, Opens, Within, In
<1>12. Repeats' <=> Repeats
  BY DEF Repeats
<1>13. Covers' <=> Covers
  BY <1>5, <1>6 DEF Covers
<1>14. Enough' <=> Enough
  BY <1>6, <1>7 DEF Enough
<1> QED BY <1>1, <1>6, <1>8, <1>9, <1>10, <1>11, <1>12, <1>13, <1>14 DEF Shrinks, Plain

LEMMA RecordsCull ==
  ASSUME CInv, Records
  PROVE  CInv'
<1>1. IInv /\ Typed /\ Nesting /\ run.at = 0 /\ run' = run /\ dev' = dev
  BY DEF CInv, IInv, Records
<1>2. Typed' /\ Nesting' /\ Replayed'
  BY <1>1, RecordsKeep DEF IInv
<1>3. Drawn'
  BY <1>1 DEF Drawn
<1>4. run'.at <= Len(list'.node) + 1
  BY <1>1, <1>2 DEF Typed, ListType
<1>5. ASSUME Plain'
      PROVE  Shrinks'
  <2>1. CASE list' = list /\ page'.open = page.open
    BY <1>5, <2>1, ShrinksSame DEF CInv
  <2>2. CASE \E cmd \in Cmds, rect \in SUBSET Cells : Adds(cmd, rect)
    <3>1. PICK cmd \in Cmds, rect \in SUBSET Cells : Adds(cmd, rect)
      BY <2>2
    <3>2. /\ Len(list.node) \in Nat /\ Len(list'.node) = Len(list.node) + 1
          /\ \A k \in 1..Len(list.node) : list'.node[k].cmd = list.node[k].cmd
          /\ list'.node[Len(list.node) + 1].cmd = cmd
      BY <1>1, <3>1, AddsIs DEF Adds
    <3>3. DOMAIN list.node = 1..Len(list.node) /\ DOMAIN list'.node = 1..Len(list'.node)
      BY <1>1, <1>2 DEF Typed, ListType
    <3>4. Plain /\ cmd # "more"
      BY <1>5, <3>2, <3>3 DEF Plain
    <3>5. cmd \in Cmds \ {"more"} /\ Shrinks
      BY <3>4 DEF CInv
    <3> QED BY <1>1, <3>1, <3>5, ShrinksAdds
  <2> QED BY <2>1, <2>2 DEF Records
<1> QED BY <1>1, <1>2, <1>3, <1>4, <1>5 DEF CInv

LEMMA InitCull ==
  ASSUME Init
  PROVE  CInv
<1>1. Typed /\ Nesting /\ Replayed
  BY InitHolds DEF IInv
<1>2. /\ Len(list.node) = 0 /\ Len(page.open) = 0 /\ run.at = 0
      /\ list.top = 0 /\ list.tiled = 0
  BY DEF Init
<1>3. NrClips(page.open, 0) = 0
  <2>1. Shut(page.open, 1, 0) = {}
    BY DEF Shut
  <2> QED BY <2>1, FS_EmptySet DEF NrClips
<1>4. NrTiles(page.open, 1, 0) = 0
  BY NoTileIs DEF NoTile
<1>5. Tally
  BY <1>2, <1>3, <1>4 DEF Tally
<1>6. Steady /\ Whole /\ Updates /\ Repeats /\ Covers /\ Enough
  BY <1>2 DEF Steady, Whole, Updates, Repeats, Covers, Enough
<1>7. Drawn
  BY <1>2 DEF Drawn
<1> QED BY <1>1, <1>2, <1>5, <1>6, <1>7 DEF CInv, Shrinks

LEMMA ReplayCull ==
  ASSUME CInv, Replay
  PROVE  CInv'
<1>1. /\ run.at = 0 /\ page.open = << >> /\ run' = [run EXCEPT !.at = 1]
      /\ list' = list /\ page' = page /\ dev' = dev
  BY DEF Replay
<1>2. IInv
  BY <1>1 DEF CInv, IInv
<1>3. Typed' /\ Nesting' /\ Replayed'
  BY <1>2, ReplayKeeps DEF IInv
<1>4. run'.at = 1 /\ Len(list.node) \in Nat /\ Len(In(1)) = 0
  <2>1. run'.at = 1
    BY <1>1, <1>2 DEF IInv, Typed
  <2>2. Len(list.node) \in Nat /\ Len(In(1)) = 0
    BY <1>2 DEF IInv, Typed, ListType, Nesting
  <2> QED BY <2>1, <2>2
<1>5. In(run.at)' = In(1)
  BY <1>1, <1>4 DEF In
<1>6. page.open' = << >> /\ dev' \in DevType
      /\ Matches(In(run.at)', dev', run'.clipped, run'.tiled)
  BY <1>1, <1>3, <1>4 DEF Replayed, Typed
<1>7. \E d : Tracks(d)'
  <2>1. PICK d : d = dev'
    OBVIOUS
  <2>2. ~ (Begun(d) < Len(In(1)))
    <3>1. d.err \in Nat /\ Len(d.open) \in Nat
      BY <1>6, <2>1 DEF DevType
    <3> QED BY <1>4, <3>1 DEF Begun
  <2>3. CulledAt(d, run.at)'
    BY <1>5, <2>2 DEF CulledAt
  <2>4. Tracks(d)'
    BY <1>6, <2>1, <2>3 DEF Tracks
  <2> QED BY <2>4
<1>8. Drawn'
  BY <1>4 DEF Drawn
<1>9. Plain' => Shrinks'
  BY <1>1, ShrinksSame DEF CInv
<1> QED BY <1>1, <1>3, <1>4, <1>6, <1>7, <1>8, <1>9 DEF CInv

\* The list stays; what a turn has to show for a device, and of what is drawn.
LEMMA GoesOn ==
  ASSUME CInv, run.at > 0, UNCHANGED <<list, page>>,
         run' \in [at : Nat, clipped : Int, tiled : Int], run'.at > 0,
         run'.at <= Len(list.node) + 1, dev' \in DevType,
         NEW e \in DevType, Matches(In(run'.at), e, run'.clipped, run'.tiled),
         CulledAt(e, run'.at),
         \A n \in run.at..run'.at - 1 :
           Plain /\ IsFill(n) /\ (\E c \in Scissor : Sees(n, c)) => n \in drawn',
         drawn \subseteq drawn'
  PROVE  CInv'
<1>1. Typed'
  BY DEF CInv, Typed
<1>2. /\ \A k : In(k)' = In(k)
      /\ \A n, c : IsFill(n)' = IsFill(n) /\ Sees(n, c)' = Sees(n, c)
      /\ Plain' <=> Plain
      /\ Shrinks' <=> Shrinks
  BY ShrinksSame
<1>3. Nesting'
  BY <1>2 DEF CInv, Nesting
<1>4. In(run.at)' = In(run'.at)
  BY DEF In
<1>5. CulledAt(e, run.at)'
  <2>1. \A b : Shows(b)' = Shows(b)
    BY <1>2 DEF Shows
  <2>2. \A b : Encloses(b, run.at)' = Encloses(b, run'.at)
    BY <1>2 DEF Encloses
  <2> QED BY <1>2, <1>4, <2>1, <2>2 DEF CulledAt
<1>6. Tracks(e)'
  BY <1>4, <1>5 DEF Tracks
<1>7. ASSUME Plain
      PROVE  Drawn'
  <2> SUFFICES ASSUME NEW n \in 1..run'.at - 1, IsFill(n), NEW c \in Scissor, Sees(n, c)
               PROVE  n \in drawn'
    BY <1>2 DEF Drawn
  <2>1. run.at \in Nat /\ run'.at \in Nat
    BY DEF CInv, Typed
  <2>2. n \in 1..run.at - 1 \/ n \in run.at..run'.at - 1
    BY <2>1
  <2>3. CASE n \in 1..run.at - 1
    BY <1>7, <2>3 DEF CInv, Drawn
  <2>4. CASE n \in run.at..run'.at - 1
    BY <1>7, <2>4
  <2> QED BY <2>2, <2>3, <2>4
<1>8. page'.open = << >>
  BY DEF CInv
<1> QED BY <1>1, <1>2, <1>3, <1>6, <1>7, <1>8 DEF CInv

\* where the loop is
LEMMA Turn ==
  ASSUME CInv, Running, NEW d, Tracks(d)
  PROVE  /\ run.at \in Nat /\ run.at > 0 /\ run.clipped \in Int /\ run.tiled \in Int
         /\ run.at + 1 \in Nat /\ run.at + 1 > 0 /\ run.at + 1 <= Len(list.node) + 1
         /\ In(run.at) \in Seq(Bracket) /\ In(run.at + 1) \in Seq(Bracket)
         /\ d \in DevType /\ page.open = << >>
         /\ Next1.cmd \in Cmds /\ Next1.rect \in SUBSET Cells
         /\ Follows(Next1.cmd, In(run.at), In(run.at + 1))
         /\ Matches(In(run.at), d, run.clipped, run.tiled)
         /\ run.clipped >= 0
         /\ run.clipped = 0 <=> Begun(d) = Len(In(run.at))
         /\ Begun(d) \in Nat /\ Begun(d) <= Len(In(run.at))
         /\ ~ Skipped => run.clipped = 0
<1>1. Typed /\ Nesting /\ d \in DevType /\ Matches(In(run.at), d, run.clipped, run.tiled)
  BY DEF CInv, Tracks
<1>2. /\ run.at \in Nat /\ run.at \in 1..Len(list.node) /\ run.at > 0
      /\ run.clipped \in Int /\ run.tiled \in Int /\ Len(list.node) \in Nat
      /\ run.at \in Int /\ run.at + 1 \in Int /\ run.at + 1 \in Nat /\ run.at + 1 > 0
      /\ run.at + 1 <= Len(list.node) + 1
  BY <1>1 DEF Typed, Running, ListType
<1>3. In(run.at) \in Seq(Bracket) /\ In(run.at + 1) \in Seq(Bracket)
  BY <1>1, <1>2, InType
<1>4. Next1.cmd \in Cmds /\ Next1.rect \in SUBSET Cells
  BY <1>1, <1>2, InType DEF Next1
<1>5. Follows(Next1.cmd, In(run.at), In(run.at + 1))
  BY <1>1, <1>2 DEF Nesting, Next1
<1>6. page.open = << >>
  BY <1>2 DEF CInv
<1>7. /\ run.clipped >= 0 /\ (run.clipped = 0 <=> Begun(d) = Len(In(run.at)))
      /\ Begun(d) \in Nat
  BY <1>1, <1>2, <1>3, ClippedSays
<1>8. ~ Skipped => run.clipped = 0
  BY <1>2, <1>7 DEF Skipped
<1>9. Begun(d) <= Len(In(run.at))
  BY <1>1 DEF Matches
<1> QED BY <1>1, <1>2, <1>3, <1>4, <1>5, <1>6, <1>7, <1>8, <1>9

\* Without anything culled, the device has begun all that is around the node.
LEMMA NothingCulled ==
  ASSUME Typed, NEW e \in DevType, NEW at \in Nat, NEW n \in Int, Matches(In(at), e, 0, n)
  PROVE  CulledAt(e, at)
<1>1. In(at) \in Seq(Bracket)
  BY InType
<1>2. Begun(e) \in Nat /\ Begun(e) = Len(In(at))
  BY <1>1, ClippedSays
<1> QED BY <1>2 DEF CulledAt

\* What is skipped cannot be seen.
LEMMA SkippedUnseen ==
  ASSUME CInv, Running, Skipped, NEW d, Tracks(d), Plain, IsFill(run.at),
         NEW c \in Scissor
  PROVE  ~ Sees(run.at, c)
<1>1. /\ run.at \in Nat /\ run.at > 0 /\ run.clipped \in Int /\ In(run.at) \in Seq(Bracket)
      /\ d \in DevType /\ run.clipped >= 0 /\ run.tiled \in Int
      /\ run.clipped = 0 <=> Begun(d) = Len(In(run.at))
      /\ Begun(d) \in Nat /\ Begun(d) <= Len(In(run.at))
      /\ Matches(In(run.at), d, run.clipped, run.tiled)
  BY Turn
<1>2. run.at \in 1..Len(list.node) /\ c \in Cells
  BY ListAssumption DEF Running
<1>3. CASE run.clipped = 0
  <2>1. run.tiled = 0 /\ Next1.rect \cap Scissor = {}
    BY <1>1, <1>3 DEF Skipped, Empty
  <2>2. run.tiled = NrTiles(In(run.at), 1, Len(In(run.at)))
    BY <1>1, <1>3 DEF Matches
  <2>3. NoTile(In(run.at), Len(In(run.at)))
    BY <1>1, <2>1, <2>2, NoTileIs
  <2>4. In(run.at) = list.node[run.at].in
    BY <1>2 DEF In
  <2>5. {i \in DOMAIN list.node[run.at].in : list.node[run.at].in[i].kind = "tile"} = {}
    <3>1. DOMAIN list.node[run.at].in = 1..Len(list.node[run.at].in)
      BY <1>1, <2>4
    <3> QED BY <2>3, <2>4, <3>1 DEF NoTile
  <2>6. c \notin list.node[run.at].rect
    BY <2>1 DEF Next1
  <2> QED BY <2>5, <2>6 DEF Sees
<1>4. CASE run.clipped # 0
  <2>1. Begun(d) < Len(In(run.at))
    BY <1>1, <1>4
  <2>2. PICK b \in 1..Len(list.node) :
          Encloses(b, run.at) /\ Shows(b) /\ list.node[b].rect \cap Scissor = {}
    BY <2>1 DEF Tracks, CulledAt
  <2>3. Sees(run.at, c) => c \in list.node[b].rect
    BY <1>2, <2>2 DEF CInv, Shrinks, Enough
  <2> QED BY <2>2, <2>3
<1> QED BY <1>3, <1>4

LEMMA SkipCull ==
  ASSUME CInv, Skip
  PROVE  CInv'
<1>1. /\ Running /\ Skipped /\ list' = list /\ page' = page /\ dev' = dev /\ drawn' = drawn
      /\ run' = [run EXCEPT !.at = run.at + 1,
                            !.clipped = run.clipped + ClippedBy(Next1.cmd)]
  BY DEF Skip
<1>2. PICK d : Tracks(d)
  BY <1>1 DEF CInv, Running
<1>3. /\ run.at \in Nat /\ run.at > 0 /\ run.clipped \in Int /\ run.tiled \in Int
      /\ run.at + 1 \in Nat /\ run.at + 1 > 0 /\ run.at + 1 <= Len(list.node) + 1
      /\ In(run.at) \in Seq(Bracket) /\ In(run.at + 1) \in Seq(Bracket)
      /\ d \in DevType /\ Next1.cmd \in Cmds
      /\ Follows(Next1.cmd, In(run.at), In(run.at + 1))
      /\ Matches(In(run.at), d, run.clipped, run.tiled)
      /\ run.clipped >= 0
      /\ run.clipped = 0 <=> Begun(d) = Len(In(run.at))
      /\ Begun(d) \in Nat /\ Begun(d) <= Len(In(run.at))
  BY <1>1, <1>2, Turn
<1>4. run.clipped > 0 \/ Next1.cmd \in (Begins \ {"tile"}) \cup {"fill", "more"}
  BY <1>1, <1>3 DEF Skipped, Empty, Cmds, Ends
<1>5. Matches(In(run.at + 1), d, run.clipped + ClippedBy(Next1.cmd), run.tiled)
  BY <1>3, <1>4, SkipMatches
<1>6. run.clipped + ClippedBy(Next1.cmd) \in Int
  BY <1>3 DEF ClippedBy
<1>7. /\ run' \in [at : Nat, clipped : Int, tiled : Int] /\ run'.at = run.at + 1
      /\ run'.clipped = run.clipped + ClippedBy(Next1.cmd) /\ run'.tiled = run.tiled
  BY <1>1, <1>3, <1>6, RunTo DEF CInv
<1>8. CulledAt(d, run.at + 1)
  <2> SUFFICES ASSUME Begun(d) < Len(In(run.at + 1))
               PROVE  \E b \in 1..Len(list.node) :
                        /\ Encloses(b, run.at + 1) /\ Len(In(b)) = Begun(d) /\ Shows(b)
                        /\ list.node[b].rect \cap Scissor = {}
    BY DEF CulledAt
  <2>1. CASE run.clipped > 0
    <3>1. PICK b \in 1..Len(list.node) :
            /\ Encloses(b, run.at) /\ Len(In(b)) = Begun(d) /\ Shows(b)
            /\ list.node[b].rect \cap Scissor = {}
      BY <1>2, <1>3, <2>1 DEF Tracks, CulledAt
    <3>2. /\ b < run.at + 1
          /\ \A j \in b + 1..run.at + 1 : j \in b + 1..run.at \/ j = run.at + 1
      BY <1>3, <3>1 DEF Encloses
    <3>3. Encloses(b, run.at + 1)
      BY <3>1, <3>2 DEF Encloses
    <3> QED BY <3>1, <3>3
  <2>2. CASE ~ (run.clipped > 0)
    <3>1. run.clipped = 0 /\ Begun(d) = Len(In(run.at)) /\ run.at \in 1..Len(list.node)
      BY <1>1, <1>3, <2>2 DEF Running
    <3>2. run.tiled = 0 /\ Next1.rect \cap Scissor = {}
      BY <1>1, <1>3, <2>2 DEF Skipped, Empty
    <3>3. NoTile(In(run.at), Len(In(run.at)))
      <4>1. run.tiled = NrTiles(In(run.at), 1, Len(In(run.at)))
        BY <1>3, <3>1 DEF Matches
      <4> QED BY <1>3, <3>2, <4>1, NoTileIs
    <3>4. Next1.cmd \in Begins \ {"tile"}
      <4>0. Follows(Next1.cmd, In(run.at), In(run.at + 1))
        BY <1>3
      <4>1. Next1.cmd \in {"fill", "more"} => Len(In(run.at + 1)) = Len(In(run.at))
        BY <4>0 DEF Follows, Begins, Ends
      <4> QED BY <1>3, <1>4, <2>2, <3>1, <4>1
    <3>5. Shows(run.at)
      BY <3>3, <3>4 DEF Shows, Next1
    <3>6. Encloses(run.at, run.at + 1)
      <4>1. \A j \in run.at + 1..run.at + 1 : j = run.at + 1
        BY <1>3
      <4> QED BY <1>3, <3>1, <4>1 DEF Encloses
    <3> QED BY <3>1, <3>2, <3>5, <3>6 DEF Next1
  <2> QED BY <2>1, <2>2
<1>9. \A n \in run.at..run'.at - 1 :
        Plain /\ IsFill(n) /\ (\E c \in Scissor : Sees(n, c)) => n \in drawn'
  <2>1. \A n \in run.at..run'.at - 1 : n = run.at
    BY <1>3, <1>7
  <2> QED BY <1>1, <1>2, <2>1, SkippedUnseen
<1>10. dev' \in DevType
  BY <1>1 DEF CInv, Typed
<1>11. PICK e : e = d
  OBVIOUS
<1>12. e \in DevType /\ Matches(In(run'.at), e, run'.clipped, run'.tiled) /\ CulledAt(e, run'.at)
  BY <1>3, <1>5, <1>7, <1>8, <1>11
<1> QED BY <1>1, <1>3, <1>7, <1>9, <1>10, <1>12, GoesOn

\* What becomes of a device has the type of one.
LEMMA DevStays ==
  ASSUME NEW d \in DevType
  PROVE  Close(d) \in DevType /\ EndMask(d) \in DevType
<1>1. d.err \in Nat /\ d.open \in Seq(Bracket) /\ Len(d.open) \in Nat
  BY DEF DevType
<1>2. Close(d) \in DevType
  <2>1. CASE d.err > 0
    <3>1. Close(d) = [d EXCEPT !.err = d.err - 1] /\ d.err - 1 \in Nat
      BY <1>1, <2>1 DEF Close
    <3> QED BY <3>1, DevChanged
  <2>2. CASE ~ (d.err > 0) /\ d.open = << >>
    BY <2>2 DEF Close
  <2>3. CASE ~ (d.err > 0) /\ d.open # << >>
    <3>1. Close(d) = [d EXCEPT !.open = Front(d.open)]
      BY <2>3 DEF Close
    <3>2. Front(d.open) \in Seq(Bracket)
      BY <1>1, <2>3, SubSeqProperties DEF Front
    <3> QED BY <3>1, <3>2, DevChanged
  <2> QED BY <2>1, <2>2, <2>3
<1>3. EndMask(d) \in DevType
  <2>1. CASE d.err > 0 \/ d.open = << >>
    BY <2>1 DEF EndMask
  <2>2. CASE ~ (d.err > 0 \/ d.open = << >>)
    <3> DEFINE last == [Last(d.open) EXCEPT !.kind = "maskclip"]
               new == [d.open EXCEPT ![Len(d.open)] = last]
    <3>1. Last(d.open) \in Bracket
      BY <1>1, <2>2 DEF Last
    <3>2. last \in Bracket
      BY <3>1 DEF Bracket
    <3>3. EndMask(d) = [d EXCEPT !.open = new]
      BY <1>1, <2>2 DEF EndMask, DevType
    <3> HIDE DEF last
    <3>4. new \in Seq(Bracket)
      <4> DEFINE open == d.open
      <4>1. /\ open \in Seq(Bracket) /\ Len(open) \in Nat /\ Len(open) > 0
            /\ new = [open EXCEPT ![Len(open)] = last]
        BY <1>1, <2>2
      <4> HIDE DEF open, new
      <4> QED BY <3>2, <4>1
    <3> HIDE DEF new
    <3> QED BY <3>3, <3>4, DevChanged
  <2> QED BY <2>1, <2>2
<1> QED BY <1>2, <1>3

\* a turn that passes a node on, without a change of the counters
LEMMA PassesOn ==
  ASSUME CInv, NEW cmds, Visible(cmds), Step, UNCHANGED <<list, page>>,
         dev' \in DevType, NEW d, Tracks(d),
         NEW e \in DevType, Matches(In(run.at + 1), e, 0, run.tiled),
         drawn \subseteq drawn', Next1.cmd = "fill" => run.at \in drawn'
  PROVE  CInv'
<1>1. /\ Running /\ ~ Skipped /\ run' = [run EXCEPT !.at = run.at + 1]
  BY DEF Visible, Step
<1>2. /\ run.at \in Nat /\ run.at > 0 /\ run.at + 1 \in Nat /\ run.at + 1 > 0
      /\ run.at + 1 <= Len(list.node) + 1 /\ run.clipped = 0 /\ run.tiled \in Int
  BY <1>1, Turn
<1>3. /\ run' \in [at : Nat, clipped : Int, tiled : Int] /\ run'.at = run.at + 1
      /\ run'.clipped = 0 /\ run'.tiled = run.tiled
  BY <1>1, <1>2, RunTo DEF CInv
<1>4. Matches(In(run'.at), e, run'.clipped, run'.tiled)
  BY <1>3
<1>5. CulledAt(e, run'.at)
  BY <1>2, <1>3, NothingCulled DEF CInv
<1>6. \A n \in run.at..run'.at - 1 :
        Plain /\ IsFill(n) /\ (\E c \in Scissor : Sees(n, c)) => n \in drawn'
  <2>1. \A n \in run.at..run'.at - 1 : n = run.at
    BY <1>2, <1>3
  <2> QED BY <2>1 DEF IsFill, Next1
<1> QED BY <1>2, <1>3, <1>4, <1>5, <1>6, GoesOn

LEMMA DrawCull ==
  ASSUME CInv, Draw
  PROVE  CInv'
<1>1. /\ Visible({"fill", "more"}) /\ Running /\ ~ Skipped /\ Step
      /\ Next1.cmd \in {"fill", "more"} /\ list' = list /\ page' = page /\ dev' = dev
      /\ drawn' = drawn \cup {run.at}
  BY DEF Draw, Visible
<1>2. PICK d : Tracks(d)
  BY <1>1 DEF CInv, Running
<1>3. /\ In(run.at) \in Seq(Bracket) /\ In(run.at + 1) \in Seq(Bracket)
      /\ d \in DevType /\ run.tiled \in Int /\ run.clipped = 0
      /\ Follows(Next1.cmd, In(run.at), In(run.at + 1))
      /\ Matches(In(run.at), d, run.clipped, run.tiled)
  BY <1>1, <1>2, Turn
<1>4. Matches(In(run.at + 1), d, 0, run.tiled)
  BY <1>1, <1>3, DrawMatches
<1>5. dev' \in DevType
  BY <1>1 DEF CInv, Typed
<1> QED BY <1>1, <1>2, <1>3, <1>4, <1>5, PassesOn

LEMMA BeginCull ==
  ASSUME CInv, BeginBracket
  PROVE  CInv'
<1> DEFINE cmds == {"clip", "text", "image", "mask", "group"}
<1>1. /\ Visible(cmds) /\ Running /\ ~ Skipped /\ Step /\ Next1.cmd \in cmds
      /\ list' = list /\ page' = page /\ drawn' = drawn
      /\ dev' = dev \/ dev' \in Open(dev, [kind |-> Next1.cmd, rect |-> Next1.rect])
  BY DEF BeginBracket, Visible, Passed
<1>2. PICK d : Tracks(d)
  BY <1>1 DEF CInv, Running
<1>3. /\ In(run.at) \in Seq(Bracket) /\ In(run.at + 1) \in Seq(Bracket)
      /\ d \in DevType /\ run.tiled \in Int /\ run.clipped = 0
      /\ Next1.rect \in SUBSET Cells
      /\ Follows(Next1.cmd, In(run.at), In(run.at + 1))
      /\ Matches(In(run.at), d, run.clipped, run.tiled)
  BY <1>1, <1>2, Turn
<1>4. Next1.cmd \in Begins /\ Next1.cmd # "tile" /\ Next1.cmd # "fill"
  BY <1>1 DEF Begins
<1>5. dev' \in DevType
  BY <1>1, <1>3, <1>4, OpenBrackets DEF CInv, Typed
<1>6. PICK e \in Open(d, [kind |-> Next1.cmd, rect |-> Next1.rect]) : TRUE
  BY DEF Open
<1>7. /\ e \in DevType
      /\ Matches(In(run.at + 1), e, 0, run.tiled + IF Next1.cmd = "tile" THEN 1 ELSE 0)
  BY <1>3, <1>4, <1>6, BeginMatches
<1>8. run.tiled + (IF Next1.cmd = "tile" THEN 1 ELSE 0) = run.tiled
  BY <1>3, <1>4
<1>9. Matches(In(run.at + 1), e, 0, run.tiled)
  BY <1>7, <1>8
<1> QED BY <1>1, <1>2, <1>4, <1>5, <1>7, <1>9, PassesOn

LEMMA MaskCull ==
  ASSUME CInv, ReplayEndMask
  PROVE  CInv'
<1>1. /\ Visible({"endmask"}) /\ Running /\ ~ Skipped /\ Step /\ Next1.cmd = "endmask"
      /\ list' = list /\ page' = page /\ dev' = EndMask(dev) /\ drawn' = drawn
  BY DEF ReplayEndMask, Visible
<1>2. PICK d : Tracks(d)
  BY <1>1 DEF CInv, Running
<1>3. /\ In(run.at) \in Seq(Bracket) /\ In(run.at + 1) \in Seq(Bracket)
      /\ d \in DevType /\ run.tiled \in Int /\ run.clipped = 0
      /\ Follows(Next1.cmd, In(run.at), In(run.at + 1))
      /\ Matches(In(run.at), d, run.clipped, run.tiled)
  BY <1>1, <1>2, Turn
<1>4. PICK e : e = EndMask(d)
  OBVIOUS
<1>5. e \in DevType /\ Matches(In(run.at + 1), e, 0, run.tiled)
  BY <1>1, <1>3, <1>4, MaskMatches
<1>6. dev' \in DevType
  BY <1>1, DevStays DEF CInv, Typed
<1> QED BY <1>1, <1>2, <1>5, <1>6, PassesOn

LEMMA EndCull ==
  ASSUME CInv, EndBracket
  PROVE  CInv'
<1>1. /\ Visible({"pop", "endgroup"}) /\ Running /\ ~ Skipped /\ Step
      /\ Next1.cmd \in {"pop", "endgroup"} /\ drawn' = drawn
      /\ list' = list /\ page' = page /\ dev' = Close(dev)
  BY DEF EndBracket, Visible
<1>2. PICK d : Tracks(d)
  BY <1>1 DEF CInv, Running
<1>3. /\ In(run.at) \in Seq(Bracket) /\ In(run.at + 1) \in Seq(Bracket)
      /\ d \in DevType /\ run.tiled \in Int /\ run.clipped = 0
      /\ Follows(Next1.cmd, In(run.at), In(run.at + 1))
      /\ Matches(In(run.at), d, run.clipped, run.tiled)
  BY <1>1, <1>2, Turn
<1>4. Next1.cmd \in Ends /\ Next1.cmd # "endtile"
  BY <1>1 DEF Ends
<1>5. PICK e : e = Close(d)
  OBVIOUS
<1>6. /\ e \in DevType
      /\ Matches(In(run.at + 1), e, 0, run.tiled - IF Next1.cmd = "endtile" THEN 1 ELSE 0)
  BY <1>1, <1>3, <1>4, <1>5, EndMatches
<1>7. run.tiled - (IF Next1.cmd = "endtile" THEN 1 ELSE 0) = run.tiled
  BY <1>3, <1>4
<1>8. Matches(In(run.at + 1), e, 0, run.tiled)
  BY <1>6, <1>7
<1>9. dev' \in DevType
  BY <1>1, DevStays DEF CInv, Typed
<1> QED BY <1>1, <1>2, <1>6, <1>8, <1>9, PassesOn

LEMMA TileCull ==
  ASSUME CInv, ReplayTile
  PROVE  CInv'
<1>1. /\ Running /\ ~ Skipped /\ Next1.cmd = "tile" /\ list' = list /\ page' = page
      /\ dev' \in Open(dev, [kind |-> Next1.cmd, rect |-> Next1.rect])
  BY DEF ReplayTile, Visible, Passed
<1>2. PICK d : Tracks(d)
  BY <1>1 DEF CInv, Running
<1>3. /\ In(run.at) \in Seq(Bracket) /\ In(run.at + 1) \in Seq(Bracket)
      /\ d \in DevType /\ run.tiled \in Int /\ run.clipped = 0 /\ run.at > 0
      /\ run.at \in Nat /\ run.at + 1 \in Nat /\ run.at + 1 > 0
      /\ run.at + 1 <= Len(list.node) + 1
      /\ Next1.rect \in SUBSET Cells /\ page.open = << >>
      /\ Follows("tile", In(run.at), In(run.at + 1))
      /\ Matches(In(run.at), d, 0, run.tiled)
  BY <1>1, <1>2, Turn
<1>4. /\ EndOfTile(run.at) \in Nat /\ EndOfTile(run.at) > 0
      /\ EndOfTile(run.at) <= Len(list.node) + 1
      /\ In(EndOfTile(run.at)) \in Seq(Bracket)
      /\ Follows("tile", In(run.at), In(EndOfTile(run.at)))
  <2>1. /\ run.at \in 1..Len(list.node) /\ list.node[run.at].cmd = "tile"
        /\ Typed /\ Nesting
    BY <1>1 DEF Running, Next1, CInv
  <2>2. /\ EndOfTile(run.at) \in 1..Len(list.node)
        /\ Follows("tile", In(run.at), In(EndOfTile(run.at)))
    BY <1>3, <2>1, TileEnds
  <2>3. Len(list.node) \in Nat
    BY <2>1, InType
  <2>4. /\ EndOfTile(run.at) \in Int /\ EndOfTile(run.at) \in Nat /\ EndOfTile(run.at) > 0
        /\ EndOfTile(run.at) <= Len(list.node) + 1
    BY <2>2, <2>3
  <2> QED BY <2>1, <2>2, <2>4, InType
<1>5. PICK next \in {run.at + 1, EndOfTile(run.at)} :
        /\ run' = [run EXCEPT !.at = next, !.tiled = run.tiled + 1]
        /\ drawn' = drawn \cup run.at + 1..next - 1
  BY DEF ReplayTile
<1>6. /\ next \in Nat /\ next > 0 /\ next <= Len(list.node) + 1 /\ In(next) \in Seq(Bracket)
      /\ Follows("tile", In(run.at), In(next)) /\ run.tiled + 1 \in Int
  BY <1>3, <1>4, <1>5
<1>7. "tile" \in Begins
  BY DEF Begins
<1>8. PICK e \in Open(d, [kind |-> "tile", rect |-> Next1.rect]) : TRUE
  BY DEF Open
<1>9. e \in DevType /\ Matches(In(next), e, 0, run.tiled + IF "tile" = "tile" THEN 1 ELSE 0)
  BY <1>3, <1>6, <1>7, <1>8, BeginMatches
<1>10. dev' \in DevType
  BY <1>1, <1>3, <1>7, OpenBrackets DEF CInv, Typed
<1>11. /\ run' \in [at : Nat, clipped : Int, tiled : Int] /\ run'.at = next
       /\ run'.clipped = 0 /\ run'.tiled = run.tiled + 1
  BY <1>3, <1>5, <1>6, RunTo DEF CInv
<1>12. Matches(In(run'.at), e, run'.clipped, run'.tiled)
  BY <1>9, <1>11
<1>13. CulledAt(e, run'.at)
  BY <1>6, <1>9, <1>11, <1>12, NothingCulled DEF CInv
<1>14. \A n \in run.at..run'.at - 1 :
         Plain /\ IsFill(n) /\ (\E c \in Scissor : Sees(n, c)) => n \in drawn'
  <2>1. \A n \in run.at..next - 1 : n = run.at \/ n \in run.at + 1..next - 1
    BY <1>3, <1>6
  <2> QED BY <1>1, <1>5, <1>11, <2>1 DEF IsFill, Next1
<1>15. drawn \subseteq drawn'
  BY <1>5
<1> QED BY <1>1, <1>3, <1>6, <1>9, <1>10, <1>11, <1>12, <1>13, <1>14, <1>15, GoesOn

LEMMA EndTileCull ==
  ASSUME CInv, ReplayEndTile
  PROVE  CInv'
<1>1. /\ Running /\ ~ Skipped /\ Next1.cmd = "endtile" /\ list' = list /\ page' = page
      /\ dev' = Close(dev) /\ drawn' = drawn
      /\ run' = [run EXCEPT !.at = run.at + 1, !.tiled = run.tiled - 1]
  BY DEF ReplayEndTile, Visible
<1>2. PICK d : Tracks(d)
  BY <1>1 DEF CInv, Running
<1>3. /\ In(run.at) \in Seq(Bracket) /\ In(run.at + 1) \in Seq(Bracket)
      /\ d \in DevType /\ run.tiled \in Int /\ run.clipped = 0 /\ run.at > 0
      /\ run.at \in Nat /\ run.at + 1 \in Nat /\ run.at + 1 > 0 /\ run.tiled - 1 \in Int
      /\ run.at + 1 <= Len(list.node) + 1
      /\ Follows("endtile", In(run.at), In(run.at + 1))
      /\ Matches(In(run.at), d, 0, run.tiled)
  BY <1>1, <1>2, Turn
<1>4. PICK e : e = Close(d)
  OBVIOUS
<1>5. /\ e \in DevType
      /\ Matches(In(run.at + 1), e, 0, run.tiled - IF "endtile" = "endtile" THEN 1 ELSE 0)
  <2>1. "endtile" \in Ends
    BY DEF Ends
  <2> QED BY <1>3, <1>4, <2>1, EndMatches
<1>6. /\ run' \in [at : Nat, clipped : Int, tiled : Int] /\ run'.at = run.at + 1
      /\ run'.clipped = 0 /\ run'.tiled = run.tiled - 1
  BY <1>1, <1>3, RunTo DEF CInv
<1>7. Matches(In(run'.at), e, run'.clipped, run'.tiled)
  BY <1>5, <1>6
<1>8. CulledAt(e, run'.at)
  BY <1>3, <1>5, <1>6, <1>7, NothingCulled DEF CInv
<1>9. \A n \in run.at..run'.at - 1 :
        Plain /\ IsFill(n) /\ (\E c \in Scissor : Sees(n, c)) => n \in drawn'
  <2>1. \A n \in run.at..run'.at - 1 : n = run.at
    BY <1>3, <1>6
  <2> QED BY <1>1, <2>1 DEF IsFill, Next1
<1>10. dev' \in DevType
  BY <1>1, DevStays DEF CInv, Typed
<1> QED BY <1>1, <1>3, <1>5, <1>6, <1>7, <1>8, <1>9, <1>10, GoesOn

LEMMA CullInductive ==
  Spec => []CInv
<1>1. Init => CInv
  BY InitCull
<1>2. CInv /\ [Next]_vars => CInv'
  <2> SUFFICES ASSUME CInv, [Next]_vars PROVE CInv'
    OBVIOUS
  <2>1. CASE UNCHANGED vars
    <3>1. /\ list' = list /\ page' = page /\ run' = run /\ dev' = dev /\ drawn' = drawn
      BY <2>1 DEF vars
    <3>2. /\ \A k : In(k)' = In(k)
          /\ \A n, c : IsFill(n)' = IsFill(n) /\ Sees(n, c)' = Sees(n, c)
          /\ Plain' <=> Plain
          /\ Shrinks' <=> Shrinks
      BY <3>1, ShrinksSame
    <3>3. In(run.at)' = In(run.at)
      BY <3>1 DEF In
    <3>4. Drawn' <=> Drawn
      BY <3>1, <3>2 DEF Drawn
    <3>5. \A d : Tracks(d)' = Tracks(d)
      <4>1. \A b : Encloses(b, run.at)' = Encloses(b, run.at) /\ Shows(b)' = Shows(b)
        BY <3>1, <3>2 DEF Encloses, Shows
      <4> QED BY <3>1, <3>2, <3>3, <4>1 DEF Tracks, CulledAt
    <3>6. Typed' /\ Nesting' /\ (Replayed' <=> Replayed)
      BY <3>1, <3>2, <3>3 DEF CInv, Typed, Nesting, Replayed
    <3> QED BY <3>1, <3>2, <3>4, <3>5, <3>6 DEF CInv
  <2>2. CASE \E rect \in FillRect : RecordFill(rect)
    BY <2>2, FillRecords, RecordsCull DEF CInv
  <2>3. CASE \E kind \in Kind, rect \in OpenRect : RecordOpen(kind, rect)
    BY <2>3, OpenRecords, RecordsCull DEF CInv
  <2>4. CASE RecordMore \/ RecordEndMask \/ RecordClose
    <3>1. Records
      BY <2>4, MoreRecords, EndMaskRecords, CloseRecords DEF CInv
    <3> QED BY <3>1, RecordsCull
  <2>5. CASE Replay \/ Skip \/ Draw \/ BeginBracket \/ ReplayEndMask \/ EndBracket
    BY <2>5, ReplayCull, SkipCull, DrawCull, BeginCull, MaskCull, EndCull
  <2>6. CASE ReplayTile \/ ReplayEndTile
    BY <2>6, TileCull, EndTileCull
  <2> QED BY <2>1, <2>2, <2>3, <2>4, <2>5, <2>6 DEF Next
<1> QED BY <1>1, <1>2, PTL DEF Spec

\* On a page without text that adds to a clip, whatever fails and also on a
\* device that ignores images, what fz_run_display_list culls by the rectangles
\* that fz_append_display_node has shrunk cannot be seen.
THEOREM CullHolds ==
  Spec => []CullSafe
<1>1. CInv => CullSafe
  <2> SUFFICES ASSUME CInv, Plain, NEW n \in 1..run.at - 1,
                      list.node[n].cmd = "fill", Reach(n) # {}
               PROVE  n \in drawn
    BY DEF CullSafe, Plain
  <2>1. run.at \in Nat /\ Len(list.node) \in Nat /\ run.at <= Len(list.node) + 1
    BY DEF CInv, Typed, ListType
  <2>2. IsFill(n)
    BY <2>1 DEF IsFill
  <2>3. PICK c : c \in Reach(n)
    OBVIOUS
  <2>4. c \in Scissor /\ c \in Cells
    BY <2>3, ListAssumption DEF Reach
  <2>5. Sees(n, c)
    BY <2>3, <2>4 DEF Sees, Reach
  <2> QED BY <2>2, <2>4, <2>5 DEF CInv, Drawn
<1>2. Spec => []CInv
  BY CullInductive
<1> QED BY <1>1, <1>2, PTL

-----------------------------------------------------------------------------
(* The stack of pdfapp_interpret                                           *)

\* the stack of pdfapp_interpret after node n
Walked(clips, n) ==
  CASE list.node[n].cmd \in {"clip", "text", "more", "image"} ->
         Append(clips, list.node[n].cmd)
    [] list.node[n].cmd = "pop" /\ clips # << >> -> Front(clips)
    [] OTHER -> clips
Walks(f, m) == f = [n \in 0..m |-> IF n = 0 THEN << >> ELSE Walked(f[n - 1], n)]

LEMMA InterpretIs ==
  ASSUME Typed
  PROVE  Walks(Interpret, Len(list.node))
<1> DEFINE Bad == {m \in Nat : ~ \E f : Walks(f, m)}
<1>1. Bad = {}
  <2> SUFFICES ASSUME Bad # {} PROVE FALSE
    OBVIOUS
  <2>1. PICK m \in Bad : \A k \in Bad : m <= k
    BY Least
  <2>2. CASE m = 0
    <3>1. Walks([n \in 0..0 |-> << >>], 0)
      BY DEF Walks
    <3> QED BY <2>1, <2>2, <3>1
  <2>3. CASE m # 0
    <3>1. m - 1 \in Nat /\ m - 1 \notin Bad
      BY <2>1, <2>3
    <3>2. PICK f : Walks(f, m - 1)
      BY <3>1
    <3> DEFINE g == [n \in 0..m |-> IF n = m THEN Walked(f[m - 1], m) ELSE f[n]]
    <3>3. \A n \in 0..m : g[n] = IF n = 0 THEN << >> ELSE Walked(g[n - 1], n)
      <4> TAKE n \in 0..m
      <4>1. CASE n = m
        <5>1. g[n] = Walked(f[n - 1], n) /\ g[n - 1] = f[n - 1]
          BY <3>1, <4>1
        <5> HIDE DEF g
        <5> QED BY <2>3, <4>1, <5>1
      <4>2. CASE n # m
        <5>1. n \in 0..m - 1 /\ g[n] = f[n] /\ (n # 0 => g[n - 1] = f[n - 1])
          BY <3>1, <4>2
        <5>2. f[n] = IF n = 0 THEN << >> ELSE Walked(f[n - 1], n)
          BY <3>2, <5>1 DEF Walks
        <5> HIDE DEF g
        <5> QED BY <5>1, <5>2
      <4> QED BY <4>1, <4>2
    <3>4. g = [n \in 0..m |-> IF n = 0 THEN << >> ELSE Walked(g[n - 1], n)]
      <4>1. g = [n \in 0..m |-> g[n]]
        OBVIOUS
      <4> HIDE DEF g
      <4> QED BY <3>3, <4>1
    <3> QED BY <2>1, <3>4 DEF Walks
  <2> QED BY <2>2, <2>3
<1>2. Len(list.node) \in Nat
  BY DEF Typed, ListType
<1>3. \E f : Walks(f, Len(list.node))
  BY <1>1, <1>2
<1>4. Interpret = CHOOSE f : Walks(f, Len(list.node))
  BY DEF Interpret, Walks, Walked
<1> QED BY <1>3, <1>4, Zenon

\* The stack holds the clips of s, one after the other, and s has no soft mask.
ClipStack == Seq({"clip", "text", "more", "image"})
Carries(clips, s) ==
  /\ clips \in ClipStack
  /\ Len(clips) = NrClips(s, Len(s))
  /\ \A i \in 1..Len(s) : s[i].kind \in Clips => clips[NrClips(s, i)] = s[i].kind
  /\ \A i \in 1..Len(s) : s[i].kind \notin {"mask", "maskclip"}

LEMMA WalkedCarries ==
  ASSUME Typed, NEW n \in 1..Len(list.node), NEW clips,
         NEW s \in Seq(Bracket), NEW t \in Seq(Bracket),
         Follows(list.node[n].cmd, s, t), Carries(clips, s),
         list.node[n].cmd \notin {"mask", "more"}
  PROVE  Carries(Walked(clips, n), t)
<1> DEFINE cmd == list.node[n].cmd
<1>0. /\ Len(s) \in Nat /\ Len(t) \in Nat /\ clips \in ClipStack /\ Len(clips) \in Nat
      /\ Len(clips) = NrClips(s, Len(s))
      /\ \A i \in 1..Len(s) : /\ s[i].kind \in Clips => clips[NrClips(s, i)] = s[i].kind
                              /\ s[i].kind \notin {"mask", "maskclip"}
  BY DEF Carries, ClipStack
<1>1. ASSUME NEW m \in Nat, m <= Len(s), Alike(s, t, m), NEW i \in 1..m
      PROVE  /\ i \in Int /\ 1 <= i /\ i <= m /\ i \in 1..Len(s) /\ t[i].kind = s[i].kind
             /\ NrClips(t, i) = NrClips(s, i)
  <2>1. i \in Int /\ 1 <= i /\ i <= m /\ m \in Int
    BY <1>1
  <2>2. t[i].kind = s[i].kind
    BY <1>1 DEF Alike
  <2>3. NrClips(s, i) = NrClips(t, i)
    BY <1>1, <2>1, ClipsAlike
  <2> QED BY <1>0, <1>1, <2>1, <2>2, <2>3
<1>2. \A m \in Nat : m <= Len(s) /\ Alike(s, t, m) => NrClips(t, m) = NrClips(s, m)
  BY ClipsAlike
<1>3. CASE cmd \in Begins /\ Len(t) = Len(s) + 1 /\ Alike(s, t, Len(s)) /\ t[Len(t)].kind = cmd
  <2>1. NrClips(t, Len(t)) = NrClips(s, Len(s)) + IF cmd \in Clips THEN 1 ELSE 0
    <3>1. NrClips(t, Len(t)) = NrClips(t, Len(t) - 1) + IF cmd \in Clips THEN 1 ELSE 0
      BY <1>0, <1>3, ClipsLast
    <3> QED BY <1>0, <1>2, <1>3, <3>1
  <2>2. \A i \in 1..Len(t) : i \in 1..Len(s) \/ i = Len(t)
    BY <1>0, <1>3
  <2>3. cmd \notin {"mask", "maskclip"}
    BY <1>3 DEF Begins
  <2>4. \A i \in 1..Len(t) : t[i].kind \notin {"mask", "maskclip"}
    BY <1>0, <1>1, <1>3, <2>2, <2>3
  <2>5. CASE cmd \in {"clip", "text", "image"}
    <3>1. Walked(clips, n) = Append(clips, cmd)
      BY <2>5 DEF Walked
    <3>2. /\ Append(clips, cmd) \in ClipStack /\ Len(Append(clips, cmd)) = Len(clips) + 1
          /\ Append(clips, cmd)[Len(clips) + 1] = cmd
          /\ \A k \in 1..Len(clips) : Append(clips, cmd)[k] = clips[k]
      BY <1>0, <2>5 DEF ClipStack
    <3>3. cmd \in Clips
      BY <2>5 DEF Clips
    <3>4. ASSUME NEW i \in 1..Len(s), s[i].kind \in Clips
          PROVE  NrClips(s, i) \in 1..Len(clips)
      <4>1. i \in Int /\ 1 <= i /\ i <= Len(s) /\ Len(s) \in Int
        BY <1>0
      <4>2. NrClips(s, i) = NrClips(s, i - 1) + 1 /\ NrClips(s, i - 1) \in Nat
        BY <3>4, <4>1, ClipsLast, ClipsFinite
      <4>3. NrClips(s, i) <= NrClips(s, Len(s))
        BY <4>1, ClipsGrow
      <4> QED BY <1>0, <4>2, <4>3
    <3>5. ASSUME NEW i \in 1..Len(t), t[i].kind \in Clips
          PROVE  Append(clips, cmd)[NrClips(t, i)] = t[i].kind
      <4>1. CASE i = Len(t)
        BY <1>0, <1>3, <2>1, <3>2, <3>3, <4>1
      <4>2. CASE i \in 1..Len(s)
        <5>1. t[i].kind = s[i].kind /\ NrClips(t, i) = NrClips(s, i)
          BY <1>0, <1>1, <1>3, <4>2
        <5> QED BY <1>0, <3>2, <3>4, <3>5, <4>2, <5>1
      <4> QED BY <2>2, <4>1, <4>2
    <3> HIDE DEF cmd
    <3> QED BY <1>0, <2>1, <2>4, <3>1, <3>2, <3>3, <3>5 DEF Carries
  <2>6. CASE cmd \notin {"clip", "text", "image"}
    <3>1. cmd \notin Clips /\ cmd \notin Ends
      BY <1>3, <2>6 DEF Begins, Clips, Ends
    <3>2. Walked(clips, n) = clips
      BY <2>6, <3>1 DEF Walked, Ends
    <3>3. \A i \in 1..Len(t) : t[i].kind \in Clips => clips[NrClips(t, i)] = t[i].kind
      BY <1>0, <1>1, <1>3, <2>2, <3>1
    <3> HIDE DEF cmd
    <3> QED BY <1>0, <2>1, <2>4, <3>1, <3>2, <3>3 DEF Carries
  <2> QED BY <2>5, <2>6
<1>4. CASE cmd = "fill" /\ Len(t) = Len(s) /\ Alike(s, t, Len(s))
  <2>1. Walked(clips, n) = clips
    BY <1>4 DEF Walked
  <2>2. NrClips(t, Len(t)) = NrClips(s, Len(s))
    BY <1>0, <1>2, <1>4
  <2>3. \A i \in 1..Len(t) : /\ t[i].kind \in Clips => clips[NrClips(t, i)] = t[i].kind
                             /\ t[i].kind \notin {"mask", "maskclip"}
    BY <1>0, <1>1, <1>4
  <2> HIDE DEF cmd
  <2> QED BY <1>0, <2>1, <2>2, <2>3 DEF Carries
<1>5. CASE /\ cmd \in Ends /\ Len(s) > 0 /\ Len(t) = Len(s) - 1
           /\ Alike(s, t, Len(t))
           /\ s[Len(s)].kind \in Closed /\ cmd = EndOf(s[Len(s)].kind)
  <2>1. NrClips(s, Len(s)) = NrClips(t, Len(t)) + IF s[Len(s)].kind \in Clips THEN 1 ELSE 0
    <3>1. NrClips(s, Len(s)) = NrClips(s, Len(s) - 1) + IF s[Len(s)].kind \in Clips THEN 1 ELSE 0
      BY <1>0, <1>5, ClipsLast
    <3> QED BY <1>0, <1>2, <1>5, <3>1
  <2>2. NrClips(t, Len(t)) \in Nat
    BY <1>0, ClipsFinite
  <2>3. \A i \in 1..Len(t) : /\ t[i].kind \in Clips => clips[NrClips(t, i)] = t[i].kind
                             /\ t[i].kind \notin {"mask", "maskclip"}
    <3>1. Len(t) <= Len(s)
      BY <1>0, <1>5
    <3> QED BY <1>0, <1>1, <1>5, <3>1
  <2>4. CASE s[Len(s)].kind \in Clips
    <3>1. cmd = "pop"
      BY <1>5, <2>4 DEF EndOf
    <3>2. Len(clips) > 0 /\ clips # << >>
      BY <1>0, <2>1, <2>2, <2>4
    <3>3. Walked(clips, n) = Front(clips)
      BY <3>1, <3>2 DEF Walked
    <3>4. Front(clips) = SubSeq(clips, 1, Len(clips) - 1)
      BY DEF Front
    <3>5. /\ Front(clips) \in ClipStack /\ Len(Front(clips)) = Len(clips) - 1
          /\ \A k \in 1..Len(clips) - 1 : Front(clips)[k] = clips[k]
      BY <1>0, <3>2, <3>4 DEF ClipStack
    <3>6. \A i \in 1..Len(t) : t[i].kind \in Clips => NrClips(t, i) \in 1..Len(clips) - 1
      <4> TAKE i \in 1..Len(t)
      <4> HAVE t[i].kind \in Clips
      <4>1. i \in Int /\ 1 <= i /\ i <= Len(t) /\ Len(t) \in Int
        BY <1>0
      <4>2. NrClips(t, i) = NrClips(t, i - 1) + 1 /\ NrClips(t, i - 1) \in Nat
        BY <4>1, ClipsLast, ClipsFinite
      <4>3. NrClips(t, i) <= NrClips(t, Len(t))
        BY <4>1, ClipsGrow
      <4> QED BY <1>0, <2>1, <2>2, <2>4, <4>2, <4>3
    <3> HIDE DEF cmd
    <3> QED BY <1>0, <2>1, <2>2, <2>3, <2>4, <3>3, <3>5, <3>6 DEF Carries
  <2>5. CASE s[Len(s)].kind \notin Clips
    <3>1. cmd \in {"endgroup", "endtile"}
      BY <1>5, <2>5 DEF EndOf
    <3>2. Walked(clips, n) = clips
      BY <3>1 DEF Walked
    <3> HIDE DEF cmd
    <3> QED BY <1>0, <2>1, <2>2, <2>3, <2>5, <3>2 DEF Carries
  <2> QED BY <2>4, <2>5
<1>6. ~ (cmd = "endmask" /\ Len(s) > 0 /\ s[Len(s)].kind = "mask")
  <2>1. Len(s) > 0 => Len(s) \in 1..Len(s)
    BY <1>0
  <2> QED BY <1>0, <2>1
<1> QED BY <1>3, <1>4, <1>5, <1>6 DEF Follows

\* what the stack holds before node n
LEMMA WalksFollow ==
  ASSUME Typed, Nesting, NEW n \in 1..Len(list.node) + 1,
         \A m \in 1..n - 1 : list.node[m].cmd \notin {"mask", "more"}
  PROVE  Carries(Interpret[n - 1], In(n))
<1> DEFINE Bad == {k \in Nat : k \in 1..n /\ ~ Carries(Interpret[k - 1], In(k))}
<1>0. Len(list.node) \in Nat /\ n \in Nat /\ n <= Len(list.node) + 1 /\ n >= 1
  BY InType
<1>1. Interpret = [k \in 0..Len(list.node) |-> IF k = 0 THEN << >> ELSE Walked(Interpret[k - 1], k)]
  BY InterpretIs DEF Walks
<1>2. Bad = {}
  <2> SUFFICES ASSUME Bad # {} PROVE FALSE
    OBVIOUS
  <2>1. PICK k \in Bad : \A i \in Bad : k <= i
    BY Least
  <2>2. CASE k = 1
    <3>1. Interpret[0] = << >>
      BY <1>0, <1>1
    <3>2. In(1) \in Seq(Bracket) /\ Len(In(1)) = 0
      BY InType DEF Nesting
    <3>3. NrClips(In(1), 0) = 0
      <4>1. Shut(In(1), 1, 0) = {}
        BY DEF Shut
      <4> QED BY <4>1, FS_EmptySet DEF NrClips
    <3>4. Carries(<< >>, In(1))
      BY <3>2, <3>3 DEF Carries, ClipStack
    <3> QED BY <2>1, <2>2, <3>1, <3>4
  <2>3. CASE k # 1
    <3>1. /\ k \in Nat /\ k \in 1..n /\ k - 1 \in Nat /\ k - 1 \in 1..n /\ k - 1 \in 1..Len(list.node)
          /\ k - 1 \in 1..n - 1 /\ k - 1 # 0 /\ k - 1 + 1 = k /\ k - 1 \in 0..Len(list.node)
          /\ k - 1 \in Int /\ k \in Int
      BY <1>0, <2>1, <2>3
    <3>2. Carries(Interpret[k - 1 - 1], In(k - 1))
      BY <2>1, <3>1
    <3>3. Follows(list.node[k - 1].cmd, In(k - 1), In(k))
      BY <3>1 DEF Nesting
    <3>4. Interpret[k - 1] = Walked(Interpret[k - 1 - 1], k - 1)
      BY <1>1, <3>1
    <3>5. In(k - 1) \in Seq(Bracket) /\ In(k) \in Seq(Bracket)
      BY <3>1, InType
    <3>6. Carries(Walked(Interpret[k - 1 - 1], k - 1), In(k))
      BY <3>1, <3>2, <3>3, <3>5, WalkedCarries
    <3> QED BY <2>1, <3>4, <3>6
  <2> QED BY <2>2, <2>3
<1>3. n \in Nat /\ n \in 1..n
  BY <1>0
<1> QED BY <1>2, <1>3

LEMMA FollowsHere ==
  CInv => InterpretFollows
<1> SUFFICES ASSUME CInv, NEW n \in DOMAIN list.node,
                    \A m \in 1..n : list.node[m].cmd \notin {"mask", "more"}
             PROVE  LET in == Kinds(list.node[n].in)
                        clips(i) == {j \in DOMAIN in : j <= i /\ in[j] \in Clips}
                    IN  /\ Len(Interpret[n - 1]) = Cardinality(clips(Len(in)))
                        /\ \A i \in clips(Len(in)) :
                             Interpret[n - 1][Cardinality(clips(i))] = in[i]
  BY DEF InterpretFollows
<1> DEFINE s == list.node[n].in
           in == Kinds(s)
           clips(i) == {j \in DOMAIN in : j <= i /\ in[j] \in Clips}
<1>1. Typed /\ Nesting
  BY DEF CInv
<1>2. Len(list.node) \in Nat /\ DOMAIN list.node = 1..Len(list.node)
  BY <1>1 DEF Typed, ListType
<1>3. n \in 1..Len(list.node) + 1 /\ n \in Int /\ \A m \in 1..n - 1 : m \in 1..n
  BY <1>2
<1>4. In(n) = s /\ s \in Seq(Bracket)
  <2>1. In(n) = s
    BY <1>2 DEF In
  <2> QED BY <1>1, <1>3, <2>1, InType
<1>5. Carries(Interpret[n - 1], s)
  BY <1>1, <1>3, <1>4, WalksFollow
<1> HIDE DEF s
<1>6. Len(s) \in Nat /\ DOMAIN s = 1..Len(s)
  BY <1>4
<1>7. /\ DOMAIN in = 1..Len(s) /\ Len(in) = Len(s)
      /\ \A i \in 1..Len(s) : in[i] = s[i].kind
  <2>1. in = [i \in 1..Len(s) |-> s[i].kind]
    BY <1>6 DEF Kinds
  <2> QED BY <1>6, <2>1
<1> HIDE DEF in
<1>8. \A i \in 0..Len(s) : Cardinality(clips(i)) = NrClips(s, i)
  <2> TAKE i \in 0..Len(s)
  <2>1. clips(i) = Shut(s, 1, i)
    BY <1>6, <1>7 DEF Shut
  <2> QED BY <2>1 DEF NrClips
<1>9. Len(s) \in 0..Len(s) /\ \A i \in 1..Len(s) : i \in 0..Len(s)
  BY <1>6
<1>10. \A i \in clips(Len(in)) : i \in 1..Len(s) /\ s[i].kind \in Clips
  BY <1>7
<1> HIDE DEF clips
<1>11. Len(Interpret[n - 1]) = Cardinality(clips(Len(in)))
  BY <1>5, <1>7, <1>8, <1>9 DEF Carries
<1>12. \A i \in clips(Len(in)) : Interpret[n - 1][Cardinality(clips(i))] = in[i]
  BY <1>5, <1>7, <1>8, <1>9, <1>10 DEF Carries
<1> QED BY <1>11, <1>12 DEF in, clips, s

\* At every node that draws, on a page without soft masks and text that adds to a
\* clip, the stack of pdfapp_interpret has the kinds of the clips that the node is
\* inside of, from the outermost to the innermost.
THEOREM InterpretHolds ==
  Spec => []InterpretFollows
<1>1. Spec => []CInv
  BY CullInductive
<1> QED BY <1>1, FollowsHere, PTL

=============================================================================
