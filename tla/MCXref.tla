------------------------------- MODULE MCXref -------------------------------
(* Files for Xref.                                                         *)
EXTENDS Xref

\* 1 is an object stream with 2, in which there is a dictionary, and 3: an
\* edit that is saved leaves the old 2 in it
InStream == <<[num |-> 2, at |-> [val |-> 102, kid |-> 200, stm |-> 0]],
              [num |-> 3, at |-> [val |-> 103, kid |-> 0, stm |-> 0]]>>
MCInside == [n \in Num |-> IF n = 1 THEN InStream ELSE << >>]
MCLayout ==
  <<[n \in Num |->
      CASE n = 1 -> [type |-> "n", ofs |-> 1, at |-> [val |-> 101, kid |-> 0, stm |-> 0]]
        [] n \in {2, 3} -> [type |-> "o", ofs |-> 1, at |-> InStream[n - 1].at]
        [] OTHER -> [type |-> "undefined", ofs |-> 0, at |-> Nothing]]>>
=============================================================================
