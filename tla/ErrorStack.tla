----------------------------- MODULE ErrorStack -----------------------------
(***************************************************************************)
(* source/fitz/error.c and the macros fz_try, fz_always and fz_catch of    *)
(* include/mupdf/fitz/context.h: a stack of setjmp buffers with a code for *)
(* each, from which the macros work out which of their blocks to enter.    *)
(* A program is anything that calls them in a nested way.                  *)
(***************************************************************************)
EXTENDS Integers, Sequences

(* A definition marked Slip is used nowhere: it is the definition that      *)
(* follows as a mistake in the code would have it.                         *)

CONSTANTS
  Size,      \* the slots of fz_error_context's stack
  Errors,    \* the codes of exceptions
  Careful    \* do always blocks refrain from fz_try and fz_throw while the
             \* stack has overflowed?

ASSUME SizeAssumption == Size \in Nat /\ Size > 1
ASSUME ErrorsAssumption == Errors \subseteq Nat
ASSUME CarefulAssumption == Careful \in BOOLEAN

VARIABLES
  top, code,  \* of fz_error_context
  set,        \* the slots whose buffer a setjmp has filled
  errcode,    \* of fz_error_context
  flow,       \* the blocks control is in, innermost last; where the code that
              \* a longjmp returns to is, is taken to be one of them
  event,      \* what happened last, as in TryCatch; "assert" is a failed
              \* assertion, "lost" a longjmp with a buffer that is not set
  exception   \* of the frame of each slot, the exception it was last thrown
vars == <<top, code, set, errcode, flow, event, exception>>

NoError == 0
Slots == 0..Size - 1
Reserved == Size - 1
Outer == SubSeq(flow, 1, Len(flow) - 1)
Innermost == flow[Len(flow)]

Init ==
  /\ top = -1 /\ code = [slot \in Slots |-> 0] /\ set = {}
  /\ errcode = NoError
  /\ flow = << >> /\ event = "none"
  /\ exception = [slot \in Slots |-> NoError]

-----------------------------------------------------------------------------
\* the test at the end of fz_catch, at slot n with code c
Catch(n, c, outer) ==
  /\ top' = n - 1
  /\ flow' = outer
  /\ event' = IF c > 1 THEN "caught" ELSE "left"

\* Slip: 3 is taken for a first visit.
AlwaysAgain(n, c, always, outer) ==
  IF always /\ c <= 3
  THEN /\ code' = [code EXCEPT ![n] = c + 1]
       /\ top' = n
       /\ flow' = Append(outer, [region |-> "always", always |-> TRUE])
       /\ event' = "none"
  ELSE code' = [code EXCEPT ![n] = c] /\ Catch(n, c, outer)
\* the test of fz_always, if there is one, and what follows
Always(n, c, always, outer) ==
  IF always /\ c < 3
  THEN /\ code' = [code EXCEPT ![n] = c + 1]
       /\ top' = n
       /\ flow' = Append(outer, [region |-> "always", always |-> TRUE])
       /\ event' = "none"
  ELSE code' = [code EXCEPT ![n] = c] /\ Catch(n, c, outer)

\* fz_push_try
Push(always) ==
  IF top + 1 < Reserved
  THEN /\ top' = top + 1 /\ code' = [code EXCEPT ![top + 1] = 0]
       /\ set' = set \cup {top + 1}
       /\ flow' = Append(flow, [region |-> "try", always |-> always])
       /\ event' = "none" /\ UNCHANGED exception
  ELSE IF top + 1 = Reserved
  THEN /\ Always(Reserved, 2, always, flow)
       /\ exception' = [exception EXCEPT ![Reserved] = NoError]
       /\ UNCHANGED set
  ELSE event' = "assert" /\ UNCHANGED <<top, code, set, flow, exception>>

Running == event \notin {"exit", "assert", "lost"}
May == Running /\ (Careful => top < Reserved)

Try(always) ==
  /\ May /\ Push(always)
  /\ UNCHANGED errcode

LeaveTry ==
  /\ Running /\ flow # << >> /\ Innermost.region = "try"
  /\ Always(top, code[top], Innermost.always, Outer)
  /\ UNCHANGED <<set, errcode, exception>>

LeaveAlways ==
  /\ Running /\ flow # << >> /\ Innermost.region = "always"
  /\ Catch(top, code[top], Outer)
  /\ UNCHANGED <<code, set, errcode, exception>>

\* Slip: a throw in an always block leaves its code as it is.
ThrownOnce(c) == IF c \in {1, 3} THEN c ELSE c + 2
\* the code that setjmp returns to fz_try
Thrown(c) == c + 2

\* fz_throw and fz_rethrow, which throws errcode again
Throw(e) ==
  /\ May /\ errcode' = e
  /\ IF top < 0
     THEN event' = "exit" /\ UNCHANGED <<top, code, flow, exception>>
     ELSE IF top \notin set
     THEN event' = "lost" /\ UNCHANGED <<top, code, flow, exception>>
     ELSE /\ Always(top, Thrown(code[top]), Innermost.always, Outer)
          /\ exception' = [exception EXCEPT ![top] = e]
  /\ UNCHANGED set

Next ==
  \/ \E always \in BOOLEAN : Try(always)
  \/ LeaveTry \/ LeaveAlways
  \/ \E e \in Errors : Throw(e)

Spec == Init /\ [][Next]_vars

-----------------------------------------------------------------------------
(* Properties                                                              *)

Block == [region : {"try", "always"}, always : BOOLEAN]
TypeOK ==
  /\ top \in -1..Reserved /\ code \in [Slots -> Nat] /\ set \subseteq Slots
  /\ errcode \in Nat /\ flow \in Seq(Block)
  /\ event \in {"none", "caught", "left", "exit", "assert", "lost"}
  /\ exception \in [Slots -> Nat]

\* The code of a block's slot tells where control is, and its buffer, unless
\* it is the reserved slot, can be jumped to.
BlockInStep(i) ==
  /\ flow[i].region = "try" => code[i - 1] = 0
  /\ flow[i].region = "always" => code[i - 1] \in {1, 3} /\ flow[i].always
  /\ i - 1 \in set \/ (i - 1 = Reserved /\ flow[i].region = "always")
\* The slot on top is that of the innermost block: the stack is empty, as
\* fz_free_context asserts, when control is outside of all.
InStep ==
  /\ top = Len(flow) - 1
  /\ \A i \in DOMAIN flow : BlockInStep(i)

\* The macros and the codes do what fz_try, fz_always and fz_catch promise; no
\* throw jumps to a buffer that is not set, nor does fz_push_try run out of
\* slots, as long as always blocks are careful.
Pending(c) == IF c > 1 THEN 1 ELSE 0
Frame(i) == [region |-> flow[i].region, always |-> flow[i].always,
             pending |-> Pending(code[i - 1])]
Frames == [i \in DOMAIN flow |-> Frame(i)]
Promised == INSTANCE TryCatch WITH frames <- Frames
KeepsPromise == Promised!Spec

\* error.c:116, assert(ex->top == nelem(ex->stack)-1): the slot that is
\* reserved for an overflow is enough.
ReservedSuffices == event # "assert"

\* error.c:112: the reserved slot is there "to cope with the case when we
\* overflow": an exception in the always block of a construct that did is
\* thrown to the one around it.
OverflowCoped == event # "lost"

\* docs/overview.txt:72: a catch block that "pass[es] on the exception" passes
\* on the one that it was entered for, what always blocks have caught meanwhile
\* and the overflow of the stack included.
PassesOn == event = "caught" => errcode = exception[top + 1]
=============================================================================
