------------------------------ MODULE Document ------------------------------
(* What a document is to those who read and edit it: values by number, and *)
(* the values that are in the file.  (include/mupdf/pdf/object.h says that *)
(* what is changed is "later written out as an incremental file update".)  *)

CONSTANT Num

VARIABLES value, disk

Init == value = disk

Change(n) ==
  /\ \A m \in Num \ {n} : value'[m] = value[m]
  /\ UNCHANGED disk
Save == disk' = value /\ UNCHANGED value
\* what has not been saved is gone
Reopen == value' = disk /\ UNCHANGED disk

Next == Save \/ Reopen \/ \E n \in Num : Change(n)

Spec == Init /\ [][Next]_<<value, disk>>
=============================================================================
