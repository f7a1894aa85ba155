------------------------------- MODULE KeyMap -------------------------------
(* What include/mupdf/fitz/hash.h promises: a map from keys to values.     *)

CONSTANTS Key, Val, NoVal

VARIABLES map,
          clears  \* is the map ever emptied?

NoEntries == [k \in Key |-> NoVal]

Init == map = NoEntries /\ clears \in BOOLEAN

\* an insertion never overwrites
Insert(k, v) ==
  /\ map[k] = NoVal
  /\ map'[k] = v  \* so that TLC need not compare whole maps
  /\ map' = [map EXCEPT ![k] = v]
  /\ UNCHANGED clears
Remove(k) ==
  /\ map[k] # NoVal
  /\ map'[k] = NoVal
  /\ map' = [map EXCEPT ![k] = NoVal]
  /\ UNCHANGED clears
Clear == clears /\ map' = NoEntries /\ UNCHANGED clears

Next ==
  \/ \E k \in Key, v \in Val : Insert(k, v)
  \/ \E k \in Key : Remove(k)
  \/ Clear

Spec == Init /\ [][Next]_<<map, clears>>
=============================================================================
