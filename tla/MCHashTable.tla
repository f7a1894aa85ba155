---------------------------- MODULE MCHashTable ----------------------------
(* Small instances of HashTable for TLC.                                   *)
EXTENDS HashTable, TLC

CONSTANTS Wrap, Far, Low  \* three classes of keys that collide

\* the last slot of six; the slot before it of six, and another of twelve; the
\* slot before it
MCHashOf == [k \in Key |-> IF k \in Wrap THEN 5 ELSE IF k \in Far THEN 10 ELSE 4]

Symm == UNION {Permutations(Thread), Permutations(Wrap), Permutations(Far),
               Permutations(Low), Permutations(Val)}
=============================================================================
