------------------------------ MODULE MCStore ------------------------------
(* Small instances of Store for TLC.                                       *)
EXTENDS Store, TLC

CONSTANT Big  \* the values that take the whole store

\* the static colorspaces have size 0 (colorspace.c:172)
MCSizeOf == [v \in Obj \cup Static |-> IF v \in Static THEN 0
                                    ELSE IF v \in Big THEN 32 ELSE 16]

Symm == UNION {Permutations(Thread), Permutations(Slot), Permutations(Item),
               Permutations(Obj \ Big), Permutations(Indexed)}
=============================================================================
