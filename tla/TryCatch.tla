------------------------------ MODULE TryCatch ------------------------------
(***************************************************************************)
(* What fz_try, fz_always and fz_catch promise (docs/overview.txt): blocks  *)
(* nest, an always block runs once whatever happens, a catch block runs if *)
(* and only if something in the blocks before it has thrown, and is outside *)
(* of them.                                                                *)
(***************************************************************************)
EXTENDS Integers, Sequences

VARIABLES
  frames, \* the blocks control is inside of: its region, whether the
          \* construct has an always block, how many exceptions are pending
  event   \* what happened last: "caught", a catch block is entered, "left",
          \* control goes on after the construct, "exit", nothing caught it

vars == <<frames, event>>

Frame == [region : {"try", "always"}, always : BOOLEAN, pending : {0, 1}]
Outer(fs) == SubSeq(fs, 1, Len(fs) - 1)
Innermost == frames[Len(frames)]

Init == frames = << >> /\ event = "none"

\* with outer around it, a construct ends or goes on to its always block
Always(outer, pending) ==
  /\ frames' = Append(outer, [region |-> "always", always |-> TRUE, pending |-> pending])
  /\ event' = "none"
End(outer, pending) ==
  /\ frames' = outer
  /\ event' = IF pending = 1 THEN "caught" ELSE "left"

Try(always) ==
  /\ frames' = Append(frames, [region |-> "try", always |-> always, pending |-> 0])
  /\ event' = "none"
\* there may be no room for another construct: its try block throws at once
Refuse(always) ==
  IF always THEN Always(frames, 1) ELSE End(frames, 1)

LeaveTry ==
  /\ frames # << >> /\ Innermost.region = "try"
  /\ IF Innermost.always THEN Always(Outer(frames), 0)
     ELSE End(Outer(frames), 0)
LeaveAlways ==
  /\ frames # << >> /\ Innermost.region = "always"
  /\ End(Outer(frames), Innermost.pending)
Throw ==
  IF frames = << >> THEN frames' = frames /\ event' = "exit"
  ELSE IF Innermost.region = "try" /\ Innermost.always
    THEN Always(Outer(frames), 1)
    ELSE End(Outer(frames), 1)

Next ==
  /\ event # "exit"
  /\ \/ \E always \in BOOLEAN : Try(always) \/ Refuse(always)
     \/ LeaveTry \/ LeaveAlways \/ Throw

Spec == Init /\ [][Next]_vars
=============================================================================
