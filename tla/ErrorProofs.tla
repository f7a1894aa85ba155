---------------------------- MODULE ErrorProofs ----------------------------
(* That the macros of ErrorStack do what TryCatch promises, for any size of *)
(* the stack and any exceptions, as long as always blocks are careful.      *)
EXTENDS ErrorStack, SequenceTheorems, TLAPS

\* A program with careful blocks is never lost, and its flow, its top and its
\* codes are in step.
IInv == TypeOK /\ InStep /\ event \notin {"assert", "lost"}

USE DEF NoError

-----------------------------------------------------------------------------
\* fz_always: what is around a block, and the length of it.
LEMMA OuterBlocks ==
  ASSUME IInv, NEW n \in Nat, n \in {Len(flow), Len(flow) - 1}
  PROVE  /\ SubSeq(flow, 1, n) \in Seq(Block)
         /\ Len(SubSeq(flow, 1, n)) = n
         /\ \A i \in 1..n : SubSeq(flow, 1, n)[i] = flow[i]
  BY DEF IInv, TypeOK, InStep

\* fz_always: wherever the macros go on to after the block of a slot, flow and
\* codes are in step again.
LEMMA AlwaysInStep ==
  ASSUME IInv, NEW n \in Nat, n \in {Len(flow), Len(flow) - 1},
         NEW c \in {0, 2, 3, 5}, NEW always \in BOOLEAN,
         n \in Slots, n \in set \/ n = Reserved,
         Always(n, c, always, SubSeq(flow, 1, n)),
         set' = set, errcode' \in Nat, exception' \in [Slots -> Nat]
  PROVE  IInv'
<1> DEFINE outer == SubSeq(flow, 1, n)
           block == [region |-> "always", always |-> TRUE]
<1>1. outer \in Seq(Block) /\ Len(outer) = n /\ \A i \in 1..n : outer[i] = flow[i]
  BY OuterBlocks
<1>2. TypeOK
  BY DEF IInv
<1>3. \A i \in 1..n : BlockInStep(i)
  <2> Len(flow) \in Nat /\ DOMAIN flow = 1..Len(flow)
    BY <1>2 DEF TypeOK
  <2> QED
    BY DEF IInv, InStep
<1>4. CASE always /\ c < 3
  <2> HIDE DEF outer
  <2> block \in Block
    BY DEF Block
  <2>1. /\ code' = [code EXCEPT ![n] = c + 1] /\ top' = n
        /\ flow' = Append(outer, block) /\ event' = "none"
    BY <1>4 DEF Always, outer
  <2>2. /\ flow' \in Seq(Block) /\ Len(flow') = n + 1
        /\ flow'[n + 1] = block /\ \A i \in 1..n : flow'[i] = flow[i]
    BY <1>1, <2>1
  <2>3. code' \in [Slots -> Nat] /\ code'[n] \in {1, 3}
        /\ \A i \in 1..n : code'[i - 1] = code[i - 1]
    BY <1>2, <1>4, <2>1 DEF TypeOK, Slots
  <2>4. TypeOK'
    <3>1. top' \in -1..Reserved
      BY <2>1, SizeAssumption DEF Slots, Reserved
    <3> QED
      BY <1>2, <2>1, <2>2, <2>3, <3>1 DEF TypeOK
  <2>5. InStep'
    <3>1. DOMAIN flow' = 1..n + 1
      BY <2>2
    <3>2. \A i \in 1..n : BlockInStep(i)'
      BY <1>3, <2>1, <2>2, <2>3 DEF BlockInStep
    <3>3. BlockInStep(n + 1)'
      BY <2>1, <2>2, <2>3 DEF BlockInStep
    <3> QED
      BY <2>1, <2>2, <3>1, <3>2, <3>3 DEF InStep
  <2> QED
    BY <2>1, <2>4, <2>5 DEF IInv
<1>5. CASE ~(always /\ c < 3)
  <2> HIDE DEF outer
  <2>1. /\ code' = [code EXCEPT ![n] = c] /\ top' = n - 1 /\ flow' = outer
        /\ event' = IF c > 1 THEN "caught" ELSE "left"
    BY <1>5 DEF Always, Catch, outer
  <2>2. code' \in [Slots -> Nat] /\ \A i \in 1..n : code'[i - 1] = code[i - 1]
    BY <1>2, <2>1 DEF TypeOK, Slots
  <2>3. TypeOK'
    <3>1. top' \in -1..Reserved
      BY <2>1, SizeAssumption DEF Slots, Reserved
    <3> QED
      BY <1>1, <1>2, <2>1, <2>2, <3>1 DEF TypeOK
  <2>4. InStep'
    <3>1. DOMAIN flow' = 1..n /\ top' = Len(flow') - 1
      BY <1>1, <2>1
    <3>2. \A i \in 1..n : BlockInStep(i)'
      BY <1>1, <1>3, <2>1, <2>2 DEF BlockInStep
    <3> QED
      BY <3>1, <3>2 DEF InStep
  <2> QED
    BY <2>1, <2>3, <2>4 DEF IInv
<1> QED
  BY <1>4, <1>5

\* The initial state is in step.
LEMMA InitInStep == Init => IInv
<1> SUFFICES ASSUME Init PROVE IInv
  OBVIOUS
<1>1. flow = << >> /\ Len(flow) = 0 /\ flow \in Seq(Block) /\ DOMAIN flow = {}
  BY DEF Init
<1>2. TypeOK
  BY <1>1, SizeAssumption DEF Init, TypeOK, Slots, Reserved
<1>3. InStep
  BY <1>1 DEF Init, InStep
<1> QED
  BY <1>2, <1>3 DEF IInv, Init

\* What is known of the innermost block, where there is one.
LEMMA InnermostBlock ==
  ASSUME IInv, flow # << >>
  PROVE  /\ top \in Nat /\ top \in Slots /\ top = Len(flow) - 1
         /\ Innermost \in Block
         /\ Outer = SubSeq(flow, 1, top)
         /\ Innermost.region = "try" => code[top] = 0
         /\ Innermost.region = "always" => code[top] \in {1, 3} /\ Innermost.always
         /\ top \in set \/ (top = Reserved /\ Innermost.region = "always")
<1>1. Len(flow) \in Nat \ {0} /\ Len(flow) \in DOMAIN flow /\ flow[Len(flow)] \in Block
  BY DEF IInv, TypeOK
<1>2. top = Len(flow) - 1 /\ BlockInStep(Len(flow))
  BY <1>1 DEF IInv, InStep
<1>3. top \in Slots
  BY <1>1, <1>2, SizeAssumption DEF IInv, TypeOK, Slots, Reserved
<1> QED
  BY <1>1, <1>2, <1>3 DEF BlockInStep, Innermost, Outer

\* Every operation of a careful program keeps flow, top and codes in step.
LEMMA NextInStep == Careful /\ IInv /\ [Next]_vars => IInv'
<1> SUFFICES ASSUME Careful, IInv, [Next]_vars PROVE IInv'
  OBVIOUS
<1>1. TypeOK /\ Len(flow) \in Nat /\ top = Len(flow) - 1
  BY DEF IInv, TypeOK, InStep
<1>2. ASSUME NEW always \in BOOLEAN, Try(always) PROVE IInv'
  <2>1. top < Reserved /\ errcode' = errcode
    BY <1>2 DEF Try, May
  <2>2. CASE top + 1 < Reserved
    <3> DEFINE block == [region |-> "try", always |-> always]
    <3> block \in Block
      BY DEF Block
    <3> HIDE DEF block
    <3>0. PICK n \in Nat : n = Len(flow)
      BY <1>1
    <3>1. /\ top' = top + 1 /\ code' = [code EXCEPT ![top + 1] = 0]
          /\ set' = set \cup {top + 1} /\ flow' = Append(flow, block)
          /\ event' = "none" /\ exception' = exception
      BY <1>2, <2>2 DEF Try, Push, block
    <3>2. /\ flow' \in Seq(Block) /\ Len(flow') = n + 1
          /\ DOMAIN flow' = 1..n + 1
          /\ flow'[n + 1] = block
          /\ \A i \in 1..n : flow'[i] = flow[i]
      BY <1>1, <3>0, <3>1 DEF TypeOK
    <3>3. top + 1 \in Slots /\ top' \in -1..Reserved
      BY <1>1, <2>2, <3>1, SizeAssumption DEF Slots, Reserved, TypeOK
    <3>4. /\ code' \in [Slots -> Nat] /\ code'[top + 1] = 0
          /\ \A i \in 1..n : code'[i - 1] = code[i - 1]
      BY <1>1, <3>0, <3>1, <3>3 DEF TypeOK, Slots
    <3>5. TypeOK'
      BY <1>1, <2>1, <3>1, <3>2, <3>3, <3>4 DEF TypeOK
    <3>6. ASSUME NEW i \in 1..n PROVE BlockInStep(i)'
      <4> BlockInStep(i)
        BY <1>1, <3>0 DEF IInv, InStep, TypeOK
      <4> QED
        BY <3>1, <3>2, <3>4 DEF BlockInStep
    <3>7. BlockInStep(n + 1)'
      BY <1>1, <3>0, <3>1, <3>2, <3>4 DEF BlockInStep, block
    <3>8. InStep'
      BY <1>1, <3>0, <3>1, <3>2, <3>6, <3>7 DEF InStep
    <3> QED
      BY <3>1, <3>5, <3>8 DEF IInv
  <2>3. CASE top + 1 = Reserved
    <3>1. /\ Always(Reserved, 2, always, flow) /\ set' = set
          /\ exception' = [exception EXCEPT ![Reserved] = NoError]
      <4> ~(top + 1 < Reserved)
        BY <2>3, SizeAssumption DEF Reserved
      <4> QED
        BY <1>2, <2>3 DEF Try, Push
    <3>2. Reserved = Len(flow) /\ Reserved \in Slots /\ SubSeq(flow, 1, Reserved) = flow
      BY <1>1, <2>3, SizeAssumption DEF Reserved, Slots, TypeOK
    <3>3. errcode' \in Nat /\ exception' \in [Slots -> Nat]
      BY <1>1, <2>1, <3>1 DEF TypeOK
    <3> QED
      BY <1>1, <3>1, <3>2, <3>3, AlwaysInStep
  <2> QED
    BY <1>1, <2>1, <2>2, <2>3, SizeAssumption DEF TypeOK, Reserved
<1>3. CASE LeaveTry
  <2>1. /\ flow # << >> /\ Innermost.region = "try"
        /\ Always(top, code[top], Innermost.always, Outer)
        /\ set' = set /\ errcode' = errcode /\ exception' = exception
    BY <1>3 DEF LeaveTry
  <2>2. Innermost.always \in BOOLEAN /\ errcode' \in Nat /\ exception' \in [Slots -> Nat]
    BY <1>1, <2>1, InnermostBlock DEF Block, TypeOK
  <2> QED
    BY <1>1, <2>1, <2>2, InnermostBlock, AlwaysInStep
<1>4. CASE LeaveAlways
  <2> DEFINE c == code[top]
  <2>1. /\ flow # << >> /\ Innermost.region = "always"
        /\ Catch(top, c, Outer)
        /\ code' = code /\ set' = set /\ errcode' = errcode /\ exception' = exception
    BY <1>4 DEF LeaveAlways
  <2>2. top' = top - 1 /\ flow' = SubSeq(flow, 1, top) /\ event' \in {"caught", "left"}
    BY <2>1, InnermostBlock DEF Catch
  <2>3. /\ flow' \in Seq(Block) /\ Len(flow') = top
        /\ \A i \in 1..top : flow'[i] = flow[i]
    BY <1>1, <2>1, <2>2, InnermostBlock, OuterBlocks
  <2>4. top' \in -1..Reserved
    BY <1>1, <2>1, <2>2, InnermostBlock, SizeAssumption DEF TypeOK, Reserved
  <2>5. TypeOK'
    BY <1>1, <2>1, <2>2, <2>3, <2>4 DEF TypeOK
  <2>6. ASSUME NEW i \in 1..top PROVE BlockInStep(i)'
    <3> BlockInStep(i)
      BY <1>1 DEF IInv, InStep, TypeOK
    <3> QED
      BY <2>1, <2>3 DEF BlockInStep
  <2>7. InStep'
    BY <1>1, <2>2, <2>3, <2>6 DEF InStep
  <2> QED
    BY <2>2, <2>5, <2>7 DEF IInv
<1>5. ASSUME NEW e \in Errors, Throw(e) PROVE IInv'
  <2>1. errcode' = e /\ e \in Nat /\ set' = set /\ top < Reserved
    BY <1>5, ErrorsAssumption DEF Throw, May
  <2>2. CASE top < 0
    <3>1. event' = "exit" /\ top' = top /\ code' = code /\ flow' = flow /\ exception' = exception
      BY <1>5, <2>2 DEF Throw
    <3>2. TypeOK'
      BY <1>1, <2>1, <3>1 DEF TypeOK
    <3>3. InStep'
      BY <2>1, <3>1 DEF IInv, InStep, BlockInStep
    <3> QED
      BY <3>1, <3>2, <3>3 DEF IInv
  <2>3. CASE ~(top < 0)
    <3>1. flow # << >>
      BY <1>1, <2>3 DEF TypeOK
    <3>2. top \in set
      BY <1>1, <2>1, <3>1, InnermostBlock, SizeAssumption DEF Reserved
    <3>3. /\ Always(top, Thrown(code[top]), Innermost.always, Outer)
          /\ exception' = [exception EXCEPT ![top] = e]
      BY <1>5, <2>3, <3>2 DEF Throw
    <3>4. exception' \in [Slots -> Nat]
      BY <1>1, <2>1, <3>3 DEF TypeOK
    <3>5. Thrown(code[top]) \in {0, 2, 3, 5} /\ Innermost.always \in BOOLEAN
      BY <3>1, InnermostBlock DEF Block, Thrown
    <3> QED
      BY <1>1, <2>1, <3>1, <3>2, <3>3, <3>4, <3>5, InnermostBlock, AlwaysInStep
  <2> QED
    BY <2>2, <2>3
<1>6. CASE UNCHANGED vars
  BY <1>6 DEF vars, IInv, TypeOK, InStep, BlockInStep
<1> QED
  BY <1>2, <1>3, <1>4, <1>5, <1>6 DEF Next

-----------------------------------------------------------------------------
(* Refinement                                                              *)

\* A frame of TryCatch for each block, with an exception pending when the code
\* of its slot says so.
FramesOK ==
  /\ Frames \in Seq(Promised!Frame) /\ Len(Frames) = Len(flow)
  /\ \A i \in 1..Len(flow) : Frames[i] = Frame(i)
LEMMA FramesOf == IInv => FramesOK
<1> SUFFICES ASSUME IInv PROVE FramesOK
  OBVIOUS
<1>1. flow \in Seq(Block) /\ Len(flow) \in Nat /\ DOMAIN flow = 1..Len(flow)
  BY DEF IInv, TypeOK
<1>2. ASSUME NEW i \in 1..Len(flow) PROVE Frame(i) \in Promised!Frame
  <2>1. flow[i] \in Block
    BY <1>1
  <2>2. flow[i].region \in {"try", "always"} /\ flow[i].always \in BOOLEAN
    BY <2>1 DEF Block
  <2>3. Pending(code[i - 1]) \in {0, 1}
    BY DEF Pending
  <2> QED
    BY <2>2, <2>3, Zenon DEF Frame, Promised!Frame
<1>3. \A i \in 1..Len(flow) : Frames[i] = Frame(i)
  BY <1>1 DEF Frames
<1>4. Frames = [i \in 1..Len(flow) |-> Frame(i)]
  BY <1>1 DEF Frames
<1> HIDE DEF Frames
<1>5. Frames \in Seq(Promised!Frame) /\ Len(Frames) = Len(flow)
  BY <1>1, <1>2, <1>4
<1> QED
  BY <1>3, <1>5 DEF FramesOK

\* A frame stays as long as its block and its code do.
LEMMA FrameStays ==
  ASSUME NEW i \in Nat, flow'[i] = flow[i], code'[i - 1] = code[i - 1]
  PROVE  Frame(i)' = Frame(i)
  BY Zenon DEF Frame

\* The frame of a block that is entered.
LEMMA FrameIs ==
  ASSUME NEW i \in Nat, NEW region, NEW always, NEW pending,
         flow'[i].region = region, flow'[i].always = always,
         Pending(code'[i - 1]) = pending
  PROVE  Frame(i)' = [region |-> region, always |-> always, pending |-> pending]
  BY Zenon DEF Frame

\* fz_always: the macros go on to the block that TryCatch says comes next.
LEMMA AlwaysPromised ==
  ASSUME IInv, IInv', NEW n \in Nat, n \in {Len(flow), Len(flow) - 1},
         NEW c \in {0, 2, 3, 5}, NEW always \in BOOLEAN, n \in Slots,
         Always(n, c, always, SubSeq(flow, 1, n))
  PROVE  IF always /\ c < 3
         THEN Promised!Always(SubSeq(Frames, 1, n), Pending(c))
         ELSE Promised!End(SubSeq(Frames, 1, n), Pending(c))
<1> DEFINE outer == SubSeq(Frames, 1, n)
<1>1. /\ outer \in Seq(Promised!Frame) /\ Len(outer) = n
      /\ \A i \in 1..n : outer[i] = Frame(i)
  BY FramesOf DEF FramesOK, IInv, TypeOK
<1>2. FramesOK'
  BY FramesOf, PTL
<1>3. /\ SubSeq(flow, 1, n) \in Seq(Block) /\ Len(SubSeq(flow, 1, n)) = n
      /\ \A i \in 1..n : SubSeq(flow, 1, n)[i] = flow[i]
  BY OuterBlocks
<1>4. code \in [Slots -> Nat]
  BY DEF IInv, TypeOK
<1> HIDE DEF outer
<1>5. CASE always /\ c < 3
  <2> DEFINE frame == [region |-> "always", always |-> TRUE, pending |-> Pending(c)]
             block == [region |-> "always", always |-> TRUE]
  <2>1. /\ code' = [code EXCEPT ![n] = c + 1] /\ event' = "none"
        /\ flow' = Append(SubSeq(flow, 1, n), block)
    BY <1>5 DEF Always
  <2>2. frame \in Promised!Frame
    <3> Pending(c) \in {0, 1}
      BY DEF Pending
    <3> QED
      BY Zenon DEF Promised!Frame
  <2> block \in Block
    BY DEF Block
  <2> HIDE DEF block
  <2>3. Len(flow') = n + 1 /\ flow'[n + 1] = block /\ \A i \in 1..n : flow'[i] = flow[i]
    BY <1>3, <2>1
  <2>4. code'[n] = c + 1 /\ \A i \in 1..n : code'[i - 1] = code[i - 1]
    BY <1>4, <2>1 DEF Slots
  <2>5. Pending(c + 1) = Pending(c)
    BY <1>5 DEF Pending
  <2>6. Frame(n + 1)' = frame
    <3>1. code'[n + 1 - 1] = c + 1
      <4> n + 1 - 1 = n
        OBVIOUS
      <4> QED
        BY <2>4
    <3>2. block.region = "always" /\ block.always = TRUE
      BY DEF block
    <3>3. flow'[n + 1].region = block.region /\ flow'[n + 1].always = block.always
      BY <2>3, Zenon
    <3>4. Pending(code'[n + 1 - 1]) = Pending(c)
      BY <2>5, <3>1, Zenon
    <3> n + 1 \in Nat
      OBVIOUS
    <3>5. Frame(n + 1)' = [region |-> block.region, always |-> block.always,
                           pending |-> Pending(c)]
      BY <3>3, <3>4, FrameIs, SMT
    <3> QED
      BY <3>2, <3>5, Zenon
  <2> HIDE DEF frame
  <2>7. ASSUME NEW i \in 1..n PROVE Frame(i)' = outer[i]
    <3>1. i \in Nat /\ flow'[i] = flow[i] /\ code'[i - 1] = code[i - 1]
      BY <2>3, <2>4
    <3> QED
      BY <1>1, <3>1, FrameStays
  <2>8. /\ Frames' \in Seq(Promised!Frame) /\ Len(Frames') = n + 1
        /\ Frames'[n + 1] = frame /\ \A i \in 1..n : Frames'[i] = outer[i]
    BY <1>2, <2>3, <2>6, <2>7 DEF FramesOK
  <2>9. Frames' = Append(outer, frame)
    BY <1>1, <2>2, <2>8
  <2> QED
    BY <1>5, <2>1, <2>9 DEF Promised!Always, frame, outer
<1>6. CASE ~(always /\ c < 3)
  <2>1. /\ code' = [code EXCEPT ![n] = c] /\ flow' = SubSeq(flow, 1, n)
        /\ event' = IF c > 1 THEN "caught" ELSE "left"
    BY <1>6 DEF Always, Catch
  <2>2. \A i \in 1..n : code'[i - 1] = code[i - 1]
    BY <1>4, <2>1 DEF Slots
  <2>3. \A i \in 1..n : Frame(i)' = outer[i]
    BY <1>1, <1>3, <2>1, <2>2, FrameStays
  <2>4. /\ Frames' \in Seq(Promised!Frame) /\ Len(Frames') = n
        /\ \A i \in 1..n : Frames'[i] = outer[i]
    BY <1>2, <1>3, <2>1, <2>3 DEF FramesOK
  <2>5. Frames' = outer
    BY <1>1, <2>4
  <2> QED
    BY <1>6, <2>1, <2>5 DEF Promised!End, outer, Pending
<1> QED
  BY <1>5, <1>6

\* What TryCatch sees of the innermost block.
LEMMA InnermostFrame ==
  ASSUME IInv, flow # << >>
  PROVE  /\ Frames # << >>
         /\ Promised!Innermost.region = Innermost.region
         /\ Promised!Innermost.always = Innermost.always
         /\ Promised!Innermost.pending = Pending(code[top])
         /\ Promised!Outer(Frames) = SubSeq(Frames, 1, top)
<1>1. /\ FramesOK /\ Len(flow) \in Nat \ {0} /\ top = Len(flow) - 1
  BY FramesOf, InnermostBlock DEF IInv, TypeOK
<1>2. Frames # << >> /\ Frames[Len(Frames)] = Frame(Len(flow)) /\ Len(Frames) = Len(flow)
  BY <1>1 DEF FramesOK
<1>3. /\ Frame(Len(flow)).region = Innermost.region
      /\ Frame(Len(flow)).always = Innermost.always
      /\ Frame(Len(flow)).pending = Pending(code[top])
  BY <1>1 DEF Frame, Innermost
<1> QED
  BY <1>1, <1>2, <1>3 DEF Promised!Innermost, Promised!Outer

\* Each step of a careful program is a step of TryCatch, or none.
LEMMA StepPromised ==
  Careful /\ IInv /\ IInv' /\ [Next]_vars => [Promised!Next]_(Promised!vars)
<1> SUFFICES ASSUME Careful, IInv, IInv', [Next]_vars
             PROVE  [Promised!Next]_(Promised!vars)
  OBVIOUS
<1>1. TypeOK /\ Len(flow) \in Nat /\ top = Len(flow) - 1 /\ code \in [Slots -> Nat]
  BY DEF IInv, TypeOK, InStep
<1>2. FramesOK /\ FramesOK'
  BY FramesOf, PTL
<1>3. ASSUME NEW always \in BOOLEAN, Try(always) PROVE Promised!Next
  <2>1. top < Reserved /\ event # "exit"
    BY <1>3 DEF Try, May, Running
  <2>2. CASE top + 1 < Reserved
    <3> DEFINE block == [region |-> "try", always |-> always]
               frame == [region |-> "try", always |-> always, pending |-> 0]
    <3>0. PICK n \in Nat : n = Len(flow)
      BY <1>1
    <3>1. /\ code' = [code EXCEPT ![top + 1] = 0]
          /\ flow' = Append(flow, block) /\ event' = "none"
      BY <1>3, <2>2 DEF Try, Push
    <3>2. block \in Block /\ frame \in Promised!Frame
      BY Zenon DEF Block, Promised!Frame
    <3> HIDE DEF block
    <3>3. /\ Len(flow') = n + 1 /\ flow'[n + 1] = block
          /\ \A i \in 1..n : flow'[i] = flow[i]
      BY <1>1, <3>0, <3>1, <3>2 DEF TypeOK
    <3>4. code'[n + 1 - 1] = 0 /\ \A i \in 1..n : code'[i - 1] = code[i - 1]
      BY <1>1, <2>2, <3>0, <3>1, SizeAssumption DEF Slots, Reserved
    <3>5. Frame(n + 1)' = frame
      <4>1. block.region = "try" /\ block.always = always
        BY DEF block
      <4>2. flow'[n + 1].region = "try" /\ flow'[n + 1].always = always
        BY <3>3, <4>1, Zenon
      <4>3. Pending(code'[n + 1 - 1]) = 0
        BY <3>4 DEF Pending
      <4> n + 1 \in Nat
        OBVIOUS
      <4> QED
        BY <4>2, <4>3, FrameIs, SMT
    <3>6. \A i \in 1..n : Frame(i)' = Frame(i)
      BY <3>3, <3>4, FrameStays
    <3> HIDE DEF frame
    <3>7. Frames' = Append(Frames, frame)
      <4>1. /\ Frames' \in Seq(Promised!Frame) /\ Len(Frames') = n + 1
            /\ Frames'[n + 1] = frame /\ \A i \in 1..n : Frames'[i] = Frame(i)
        BY <1>2, <3>3, <3>5, <3>6 DEF FramesOK
      <4>2. /\ Frames \in Seq(Promised!Frame) /\ Len(Frames) = n
            /\ \A i \in 1..n : Frames[i] = Frame(i)
        BY <1>2, <3>0 DEF FramesOK
      <4> QED
        BY <3>2, <4>1, <4>2
    <3> QED
      BY <2>1, <3>1, <3>7 DEF Promised!Next, Promised!Try, frame
  <2>3. CASE top + 1 = Reserved
    <3>1. Always(Reserved, 2, always, flow)
      <4> ~(top + 1 < Reserved)
        BY <2>3, SizeAssumption DEF Reserved
      <4> QED
        BY <1>3, <2>3 DEF Try, Push
    <3>2. /\ Reserved = Len(flow) /\ Reserved \in Slots /\ Reserved \in Nat
          /\ SubSeq(flow, 1, Reserved) = flow
      BY <1>1, <2>3, SizeAssumption DEF Reserved, Slots, TypeOK
    <3>3. SubSeq(Frames, 1, Reserved) = Frames
      BY <1>2, <3>2 DEF FramesOK
    <3>4. IF always /\ 2 < 3 THEN Promised!Always(SubSeq(Frames, 1, Reserved), Pending(2))
          ELSE Promised!End(SubSeq(Frames, 1, Reserved), Pending(2))
      BY <3>1, <3>2, AlwaysPromised
    <3>5. Pending(2) = 1 /\ 2 < 3
      BY DEF Pending
    <3>6. Promised!Refuse(always)
      BY <3>3, <3>4, <3>5 DEF Promised!Refuse
    <3> QED
      BY <2>1, <3>6 DEF Promised!Next
  <2> QED
    BY <1>1, <2>1, <2>2, <2>3, SizeAssumption DEF TypeOK, Reserved
<1>4. ASSUME flow # << >>, NEW c \in {0, 2, 3, 5}, Always(top, c, Innermost.always, Outer)
      PROVE  IF Promised!Innermost.always /\ c < 3
             THEN Promised!Always(Promised!Outer(Frames), Pending(c))
             ELSE Promised!End(Promised!Outer(Frames), Pending(c))
  <2>1. Innermost.always \in BOOLEAN
    BY <1>4, InnermostBlock DEF Block
  <2> QED
    BY <1>1, <1>4, <2>1, InnermostBlock, InnermostFrame, AlwaysPromised
<1>5. CASE LeaveTry
  <2>1. /\ flow # << >> /\ Innermost.region = "try" /\ event # "exit"
        /\ Always(top, 0, Innermost.always, Outer)
    BY <1>5, InnermostBlock DEF LeaveTry, Running
  <2>2. IF Promised!Innermost.always THEN Promised!Always(Promised!Outer(Frames), 0)
        ELSE Promised!End(Promised!Outer(Frames), 0)
    <3> Pending(0) = 0 /\ 0 < 3
      BY DEF Pending
    <3> QED
      BY <1>4, <2>1
  <2> QED
    BY <2>1, <2>2, InnermostFrame DEF Promised!Next, Promised!LeaveTry
<1>6. CASE LeaveAlways
  <2>1. /\ flow # << >> /\ Innermost.region = "always" /\ event # "exit"
        /\ Catch(top, code[top], Outer) /\ code' = code
    BY <1>6 DEF LeaveAlways, Running
  <2>2. /\ flow' = SubSeq(flow, 1, top)
        /\ event' = IF Pending(code[top]) = 1 THEN "caught" ELSE "left"
    BY <2>1, InnermostBlock DEF Catch, Pending
  <2>3. /\ Len(flow') = top /\ \A i \in 1..top : flow'[i] = flow[i]
    BY <1>1, <2>1, <2>2, InnermostBlock, OuterBlocks
  <2>4. \A i \in 1..top : Frame(i)' = Frame(i)
    BY <2>1, <2>3, InnermostBlock, FrameStays
  <2>5. Frames' = SubSeq(Frames, 1, top)
    <3>1. /\ Frames' \in Seq(Promised!Frame) /\ Len(Frames') = top
          /\ \A i \in 1..top : Frames'[i] = Frame(i)
      BY <1>2, <2>3, <2>4 DEF FramesOK
    <3>2. /\ Frames \in Seq(Promised!Frame) /\ Len(Frames) = top + 1
          /\ \A i \in 1..top : Frames[i] = Frame(i)
      BY <1>1, <1>2 DEF FramesOK
    <3>3. top \in Nat
      BY <2>1, InnermostBlock
    <3> QED
      BY <3>1, <3>2, <3>3
  <2>6. Promised!End(Promised!Outer(Frames), Promised!Innermost.pending)
    BY <2>1, <2>2, <2>5, InnermostFrame DEF Promised!End
  <2> QED
    BY <2>1, <2>6, InnermostFrame DEF Promised!Next, Promised!LeaveAlways
<1>7. ASSUME NEW e \in Errors, Throw(e) PROVE Promised!Next
  <2>1. top < Reserved /\ event # "exit"
    BY <1>7 DEF Throw, May, Running
  <2>2. CASE top < 0
    <3>1. event' = "exit" /\ code' = code /\ flow' = flow
      BY <1>7, <2>2 DEF Throw
    <3>2. Len(flow) = 0
      BY <1>1, <2>2
    <3>3. Frames' = << >> /\ Frames = << >>
      BY <1>2, <3>1, <3>2 DEF FramesOK
    <3> QED
      BY <2>1, <3>1, <3>3 DEF Promised!Next, Promised!Throw
  <2>3. CASE ~(top < 0)
    <3>1. flow # << >>
      BY <1>1, <2>3 DEF TypeOK
    <3>2. top \in set
      BY <1>1, <2>1, <3>1, InnermostBlock, SizeAssumption DEF Reserved
    <3>3. Always(top, Thrown(code[top]), Innermost.always, Outer)
      BY <1>7, <2>3, <3>2 DEF Throw
    <3>4. CASE Innermost.region = "try"
      <4>1. Thrown(code[top]) = 2 /\ Pending(2) = 1 /\ 2 < 3
        BY <3>1, <3>4, InnermostBlock DEF Thrown, Pending
      <4>2. IF Promised!Innermost.always THEN Promised!Always(Promised!Outer(Frames), 1)
            ELSE Promised!End(Promised!Outer(Frames), 1)
        BY <1>4, <3>1, <3>3, <4>1
      <4> QED
        BY <2>1, <3>1, <3>4, <4>2, InnermostFrame DEF Promised!Next, Promised!Throw
    <3>5. CASE Innermost.region = "always"
      <4>1. /\ Thrown(code[top]) \in {3, 5} /\ ~(Thrown(code[top]) < 3)
            /\ Pending(Thrown(code[top])) = 1
        BY <3>1, <3>5, InnermostBlock DEF Thrown, Pending
      <4>2. Promised!End(Promised!Outer(Frames), 1)
        BY <1>4, <3>1, <3>3, <4>1
      <4>3. Promised!Innermost.region # "try"
        BY <3>1, <3>5, InnermostFrame
      <4> QED
        BY <2>1, <3>1, <4>2, <4>3, InnermostFrame DEF Promised!Next, Promised!Throw
    <3> QED
      BY <3>1, <3>4, <3>5, InnermostBlock DEF Block
  <2> QED
    BY <2>2, <2>3
<1>8. CASE UNCHANGED vars
  BY <1>8 DEF vars, Promised!vars, Frames, Frame
<1> QED
  BY <1>3, <1>5, <1>6, <1>7, <1>8 DEF Next

-----------------------------------------------------------------------------
(* Theorems                                                                *)

\* fz_try, fz_always and fz_catch: flow, top and codes stay in step, and the
\* program is never lost, as long as always blocks are careful.
THEOREM StaysInStep == Careful => (Spec => []IInv)
<1> SUFFICES ASSUME Careful PROVE Spec => []IInv
  OBVIOUS
<1>1. Init => IInv
  BY InitInStep
<1>2. IInv /\ [Next]_vars => IInv'
  BY NextInStep
<1> QED
  BY <1>1, <1>2, PTL DEF Spec

\* The same, of the two invariants that are model-checked.
THEOREM InStepHolds == Careful => (Spec => [](TypeOK /\ InStep))
<1> SUFFICES ASSUME Careful PROVE Spec => [](TypeOK /\ InStep)
  OBVIOUS
<1>1. IInv => TypeOK /\ InStep
  BY DEF IInv
<1> QED
  BY <1>1, StaysInStep, PTL

\* The macros of error.c and context.h keep the promise of docs/overview.txt:
\* ErrorStack implements TryCatch, for every size of the stack.
THEOREM Implements == Careful => (Spec => KeepsPromise)
<1> SUFFICES ASSUME Careful PROVE Spec => KeepsPromise
  OBVIOUS
<1>1. Init => Promised!Init
  <2> SUFFICES ASSUME Init PROVE Promised!Init
    OBVIOUS
  <2>1. flow = << >> /\ event = "none" /\ FramesOK
    BY InitInStep, FramesOf DEF Init
  <2>2. Frames = << >>
    BY <2>1 DEF FramesOK
  <2> QED
    BY <2>1, <2>2 DEF Promised!Init
<1>2. IInv /\ IInv' /\ [Next]_vars => [Promised!Next]_(Promised!vars)
  BY StepPromised
<1> QED
  BY <1>1, <1>2, StaysInStep, PTL DEF Spec, KeepsPromise, Promised!Spec
=============================================================================
