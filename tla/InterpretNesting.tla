---------------------------- MODULE InterpretNesting ----------------------------
(***************************************************************************)
(* Proofs about the brackets of Interpret: what each call has open on the   *)
(* device, and where (Nested).                                              *)
(*                                                                          *)
(* What a call still owes the device is a sum over the steps it has left,   *)
(* and Nested adds that up over all calls. Of InterpretProofs are the words *)
(* for it: Turns and Leads say what those steps do one by one to the        *)
(* brackets that are open, Bears that they lead from those the call has now *)
(* to those it is to leave. Laid puts the brackets and the clips of each    *)
(* call on the device after those of the call it was made by, at positions  *)
(* that Fits states, so that the sum over the calls is a difference of two  *)
(* positions (OwesIs). Here, Grows says that the states' clips only add up, *)
(* and which calls wait for which. There is a lemma for each action, then   *)
(* NestsStep brings them together, and NestsNested goes from the invariant  *)
(* to Nested.                                                               *)
(***************************************************************************)
EXTENDS InterpretProofs

-----------------------------------------------------------------------------
(* An exception                                                            *)

\* what a soft mask's call has to do in any case
MaskEnd == <<Do("end mask")>>
\* A call that is not a form's or a soft mask's closes nothing when it is thrown through.
Mends(f) ==
  /\ IsRec(f) /\ IsSeq(f.todo) /\ IsSeq(f.onErr)
  /\ f.fn \notin {"form", "mask"} => \A j \in 1..Len(f.onErr) : Quiet(f.fn, f.onErr[j])
  /\ f.fn = "mask" => f.onErr = MaskEnd
  /\ \A j \in 1..Len(f.onErr) : f.onErr[j] # Do("softmask")
\* a call and the one it waits for, where there are soft masks
Under(f, g) ==
  /\ f.fn = "mask" => f.todo = MaskEnd /\ g.fn = "form"
  /\ f.fn = "form" => f.onErr # << >>
  /\ f.fn = "form" => (Opening(f) <=> g.fn = "mask")
Unders(fs, e) ==
  /\ \A i \in 1..Len(fs) : Mends(fs[i])
  /\ \A i \in 1..Len(fs) - 1 : Under(fs[i], fs[i + 1])
  /\ fs # << >> => /\ fs[1].fn # "mask"
                   /\ fs[Len(fs)].fn = "mask" => fs[Len(fs)].todo = MaskEnd
                   /\ fs[Len(fs)].fn = "form" /\ e = "later" => fs[Len(fs)].onErr # << >>

LEMMA MaskEndIs ==
  ASSUME NEW fn, NEW m, NEW b, NEW w, NEW v, Leads(fn, m, b, MaskEnd, w, v)
  PROVE  w = <<"mask">>
<1>1. PICK K : Chain(fn, m, b, MaskEnd, w, v, K)
  BY DEF Leads
<1>2. PICK x : x = Do("end mask")
  OBVIOUS
<1>3. x[1] = "end mask"
  BY <1>2, StepNames, Zenon
<1>4. MaskEnd = <<x>>
  BY <1>2, Zenon DEF MaskEnd
<1>5. Len(MaskEnd) = 1 /\ MaskEnd[1] = x /\ 1 \in 1..1
  BY <1>4
<1>6. K[1] = w /\ Turns(fn, m, b, x, K[1], K[1 + 1])
  BY <1>1, <1>5 DEF Chain
<1> QED BY <1>3, <1>6, Zenon DEF Turns

\* of f, which has w open and r above it, g is left
Mended(f, g, b, w, r) ==
  /\ Closes(g) \in Int /\ g.fn = f.fn /\ g.base = f.base
  /\ f.fn \notin {"form", "mask"} =>
       Closes(g) = 0 /\ (w = << >> => Bears(g, b, w))
  /\ f.fn = "mask" => Closes(g) = 0 /\ Len(w) = 1 /\ Bears(g, b, w)
  /\ f.fn = "form" /\ ~Opening(f) => Closes(g) = Len(w) /\ Bears(g, b, w)
  /\ f.fn = "form" /\ Opening(f) => Closes(g) = Len(w) + Len(r) + 1
\* fz_catch closes what it finds open, and nothing else.
LEMMA CaughtBears ==
  ASSUME NEW f, Mends(f), NEW e, Stops(f, e), NEW b, NEW w \in Seq(Kinds), NEW r \in Seq(Kinds),
         Bears(f, b, w \o r), IsPaint(f.fn) => b = gs[f.base].blend,
         f.fn = "mask" => f.todo = MaskEnd /\ r = << >>,
         f.fn = "form" /\ ~Opening(f) => r = << >>,
         NEW g, g = Caught(f, e)
  PROVE  Mended(f, g, b, w, r)
<1> USE DEF Mended
<1>1. /\ IsRec(g) /\ Kin(f, g) /\ g.todo = f.onErr /\ g.soft = f.soft
      /\ f.fn \in {"stream", "mask"} => g.onErr = f.onErr /\ g.pend = f.pend
      /\ f.fn \notin {"stream", "mask"} => g.onErr = << >> /\ g.pend = e
  <2>1. IsRec(f)
    BY DEF Mends
  <2> QED BY <2>1, CaughtFields
<1>2. g.fn = f.fn /\ g.base = f.base /\ IsSeq(g.todo)
  BY <1>1 DEF Kin, Mends
<1>3. ASSUME NEW v, Leads(f.fn, f.soft, b, f.onErr, v, Final(f))
      PROVE  Closes(g) = Len(v) - Len(Final(f)) /\ v \in Seq(Kinds)
  <2>1. Leads(g.fn, g.soft, b, g.todo, v, Final(f))
    BY <1>1, <1>2, <1>3
  <2>2. IsPaint(g.fn) => b = gs[g.base].blend
    BY <1>2
  <2> QED BY <1>2, <2>1, <2>2, ClosesIs
<1>4. ASSUME NEW v, Leads(f.fn, f.soft, b, f.onErr, v, Final(f)), f.fn = "stream" => v = << >>
      PROVE  Bears(g, b, v)
  <2>1. Leads(g.fn, g.soft, b, g.todo, v, Final(g))
    BY <1>1, <1>2, <1>4 DEF Final
  <2>2. Softens(g, b)
    BY <1>1 DEF Softens, Mends
  <2>3. Rescues(g, b, v)
    BY <1>1, <1>2 DEF Rescues
  <2> QED BY <1>2, <1>4, <2>1, <2>2, <2>3 DEF Bears
<1>5. CASE f.fn \notin {"form", "mask"}
  <2>1. Final(f) = << >>
    BY <1>5 DEF Final
  <2>2. Leads(f.fn, f.soft, b, f.onErr, << >>, << >>)
    BY <1>5, KindSeqs, LeadsQuiet DEF Mends
  <2>3. Closes(g) = 0
    <3>1. Closes(g) = Len(<< >>) - Len(<< >>)
      BY <1>3, <2>1, <2>2
    <3>2. Len(<< >>) = 0
      OBVIOUS
    <3> QED BY <3>1, <3>2
  <2>4. Bears(g, b, << >>)
    BY <1>4, <2>1, <2>2
  <2> QED BY <1>2, <1>5, <2>3, <2>4
<1>6. CASE f.fn = "mask"
  <2>1. w \o r = w /\ f.onErr = f.todo
    BY <1>6, KindSeqs DEF Mends
  <2>2. Leads(f.fn, f.soft, b, f.onErr, w, Final(f))
    BY <2>1 DEF Bears
  <2>3. Bears(g, b, w)
    BY <1>4, <1>6, <2>2
  <2>4. Len(Final(f)) = 1
    BY <1>6 DEF Final
  <2>5. Len(w) = 1
    <3>1. Leads(f.fn, f.soft, b, MaskEnd, w, Final(f))
      BY <1>6, <2>1, <2>2
    <3>2. w = <<"mask">>
      BY <3>1, MaskEndIs
    <3> QED BY <3>2
  <2>6. Closes(g) = 0
    <3>1. Closes(g) = Len(w) - Len(Final(f))
      BY <1>3, <2>2
    <3> QED BY <2>4, <2>5, <3>1
  <2> QED BY <1>2, <1>6, <2>3, <2>5, <2>6
<1>7. CASE f.fn = "form"
  <2>1. f.onErr # << >>
    BY <1>7 DEF Stops
  <2>2. Leads(f.fn, f.soft, b, f.onErr, IF Opening(f) THEN Append(w \o r, "group") ELSE w \o r, << >>)
    BY <1>7, <2>1 DEF Bears, Rescues
  <2>3. Final(f) = << >> /\ Len(<< >>) = 0
    BY <1>7 DEF Final
  <2>4. CASE Opening(f)
    <3>1. Closes(g) = Len(Append(w \o r, "group"))
      <4>1. Closes(g) = Len(Append(w \o r, "group")) - Len(<< >>)
            /\ Append(w \o r, "group") \in Seq(Kinds)
        BY <1>3, <2>2, <2>3, <2>4
      <4> QED BY <2>3, <4>1
    <3>2. PICK x : x = w \o r
      OBVIOUS
    <3>3. x \in Seq(Kinds) /\ Len(x) = Len(w) + Len(r)
      BY <3>2, KindSeqs
    <3>4. \A s \in Seq(Kinds) : Len(Append(s, "group")) = Len(s) + 1
      OBVIOUS
    <3> QED BY <1>2, <1>7, <2>4, <3>1, <3>2, <3>3, <3>4
  <2>5. CASE ~Opening(f)
    <3>1. w \o r = w
      BY <1>7, <2>5, KindSeqs
    <3>2. Leads(f.fn, f.soft, b, f.onErr, w, Final(f))
      BY <2>2, <2>3, <2>5, <3>1
    <3>3. Closes(g) = Len(w) - Len(<< >>)
      BY <1>3, <2>3, <3>2
    <3>4. Bears(g, b, w)
      BY <1>4, <1>7, <3>2
    <3> QED BY <1>2, <1>7, <2>3, <2>5, <3>3, <3>4
  <2> QED BY <2>4, <2>5
<1> QED BY <1>5, <1>6, <1>7

LEMMA TotalNone ==
  ASSUME NEW fs, Len(fs) = 0
  PROVE  Owes(fs) = 0
<1> DEFINE ns == [i \in 1..Len(fs) |-> Closes(fs[i])]
           R == [i \in 0..0 |-> 0]
<1>1. R[0] = 0 /\ \A i \in 1..0 : FALSE
  OBVIOUS
<1>2. Owes(fs) = Total(0, ns)
  BY DEF Owes
<1> HIDE DEF R, ns
<1>3. Sums(ns, 0, R)
  BY <1>1 DEF Sums
<1>4. Total(0, ns) = R[0]
  BY <1>3, TotalIs
<1> QED BY <1>1, <1>2, <1>4

\* Where nothing that is owed is lost, the call that catches has what it had, and the
\* ones that are passed had nothing open.
LEMMA CatchesTop ==
  ASSUME NEW fs, IsSeq(fs), NEW n, n = Len(fs), n >= 1, NEW d, NEW own, NEW X,
         FitsWith(fs, gs, d, own, X), NEW e, Unders(fs, e),
         NEW k \in 1..n, Stops(fs[k], e), \A i \in k + 1..n : ~Stops(fs[i], e),
         NEW hs, IsSeq(hs), Len(hs) = k, hs[k] = Caught(fs[k], e),
         \A i \in 1..k : i # k => hs[i] = fs[i], Owes(fs) = Owes(hs)
  PROVE  /\ \A i \in k + 1..n : own[i] = << >>
         /\ Bears(hs[k], gs[hs[k].base].blend, own[k])
         /\ hs[k].fn = fs[k].fn /\ hs[k].base = fs[k].base
<1> DEFINE D == ClipsAt(fs, gs)
           f == fs[k]
           g == hs[k]
           r == Rest(fs, k)
           b == gs[f.base].blend
<1>1. n \in Nat /\ k \in Nat /\ k >= 1 /\ k <= n /\ fs # << >> /\ k \in 1..n + 1 /\ k + 1 \in 1..n + 1
      /\ n + 1 \in 1..n + 1
  BY SeqLen
<1>2. Laid(n, D, own, X, d)
  BY DEF FitsWith
<1>3. /\ \A i \in 1..n + 1 : X[i] \in Nat /\ D[i] \in Nat
      /\ \A i \in 1..n : /\ own[i] \in Seq(Kinds) /\ Len(own[i]) \in Nat
                         /\ X[i + 1] - D[i + 1] = (X[i] - D[i]) + Len(own[i])
  BY <1>1, <1>2, LaidSums
<1>4. fs[1].fn # "mask" /\ \A i \in 1..n : Mends(fs[i]) /\ IsSeq(fs[i].todo)
  BY <1>1 DEF Unders, Mends
<1>5. Bears(f, b, own[k] \o r) /\ own[k] \in Seq(Kinds) /\ r \in Seq(Kinds)
  <2>1. r \in Seq(Kinds)
    BY KindSeqs DEF Rest
  <2> QED BY <1>3, <2>1 DEF FitsWith
<1>6. k # n => Under(f, fs[k + 1]) /\ r = Final(fs[k + 1])
  <2> HAVE k # n
  <2>1. k \in 1..n - 1 /\ k < n
    BY <1>1
  <2> QED BY <2>1 DEF Unders, Rest
<1>7. k = n => /\ r = << >>
               /\ f.fn = "mask" => f.todo = MaskEnd
               /\ f.fn = "form" /\ e = "later" => f.onErr # << >>
  <2> HAVE k = n
  <2>1. r = << >>
    BY <1>1 DEF Rest
  <2> QED BY <1>1, <2>1 DEF Unders
<1> HIDE DEF D
<1>8. /\ f.fn = "mask" => f.todo = MaskEnd /\ r = << >>
      /\ f.fn = "form" /\ ~Opening(f) => r = << >>
  BY <1>6, <1>7 DEF Under, Final
<1>9. /\ Closes(g) \in Int /\ g.fn = f.fn /\ g.base = f.base
      /\ f.fn \notin {"form", "mask"} =>
           Closes(g) = 0 /\ (own[k] = << >> => Bears(g, b, own[k]))
      /\ f.fn = "mask" => Closes(g) = 0 /\ Len(own[k]) = 1 /\ Bears(g, b, own[k])
      /\ f.fn = "form" /\ ~Opening(f) => Closes(g) = Len(own[k]) /\ Bears(g, b, own[k])
      /\ f.fn = "form" /\ Opening(f) => Closes(g) = Len(own[k]) + Len(r) + 1
  <2>1. Mends(f)
    BY <1>4
  <2>2. PICK w : w = own[k]
    OBVIOUS
  <2>3. w \in Seq(Kinds) /\ Bears(f, b, w \o r)
    BY <1>5, <2>2
  <2> HIDE DEF f, g, r, b
  <2>4. IsPaint(f.fn) => b = gs[f.base].blend
    BY DEF b
  <2>5. g = Caught(f, e) /\ Stops(f, e)
    BY DEF f, g
  <2>6. r \in Seq(Kinds)
    BY <1>5
  <2>7. Mended(f, g, b, w, r)
    BY <1>8, <2>1, <2>3, <2>4, <2>5, <2>6, CaughtBears
  <2> QED BY <2>2, <2>7 DEF Mended
<1>10. X[n + 1] - D[n + 1] = (X[k] - D[k]) + Len(Final(f)) + Closes(g)
  <2>1. Owes(fs) = X[n + 1] - D[n + 1]
    BY <1>4, OwesIs, SMTT(30) DEF D
  <2>2. PICK c : c = Closes(g)
    OBVIOUS
  <2>3. c \in Int /\ Closes(hs[k]) = c
    BY <1>9, <2>2
  <2>4. Owes(hs) = (X[k] - D[k]) + Len(Final(fs[k])) + c
    BY <1>1, <1>4, <2>3, OwesPart DEF D
  <2> QED BY <2>1, <2>2, <2>4
<1>11. PICK s, t, a, q, c, z : /\ s = X[k] - D[k] /\ t = X[n + 1] - D[n + 1] /\ a = Len(own[k])
                               /\ q = Len(r) /\ c = Closes(g) /\ z = X[k + 1] - D[k + 1]
  OBVIOUS
<1>12. s \in Int /\ t \in Int /\ a \in Nat /\ q \in Nat /\ c \in Int /\ z \in Int /\ z = s + a
  <2>1. \A x, y \in Nat : x - y \in Int
    OBVIOUS
  <2>2. s \in Int /\ t \in Int /\ z \in Int
    BY <1>1, <1>3, <1>11, <2>1, Zenon
  <2>3. a \in Nat /\ q \in Nat
    BY <1>3, <1>5, <1>11, KindSeqs, Zenon
  <2>4. c \in Int
    BY <1>9, <1>11, Zenon
  <2>5. z = s + a
    BY <1>3, <1>11, Zenon
  <2> QED BY <2>2, <2>3, <2>4, <2>5
<1>13. t = s + Len(Final(f)) + c
  BY <1>10, <1>11, Zenon
<1>14. t <= z => \A i \in k + 1..n : own[i] = << >>
  BY <1>1, <1>2, <1>11, LaidNothing
<1>15. t <= s => \A i \in k..n : own[i] = << >>
  BY <1>1, <1>2, <1>11, LaidNothing
<1> HIDE DEF f, g, r, b
<1>16. CASE f.fn \notin {"form", "mask"}
  <2>1. Len(Final(f)) = 0
    BY <1>16 DEF Final
  <2>2. t <= s
    BY <1>9, <1>11, <1>12, <1>13, <1>16, <2>1
  <2>3. \A i \in k..n : own[i] = << >>
    BY <1>15, <2>2
  <2>4. k \in k..n /\ \A i \in k + 1..n : i \in k..n
    BY <1>1
  <2> QED BY <1>9, <1>16, <2>3, <2>4 DEF f, g, b
<1>17. CASE f.fn = "mask"
  <2>1. Len(Final(f)) = 1
    BY <1>17 DEF Final
  <2>2. c = 0 /\ a = 1
    BY <1>9, <1>11, <1>17
  <2>3. t <= z
    BY <1>12, <1>13, <2>1, <2>2
  <2> QED BY <1>9, <1>14, <1>17, <2>3 DEF f, g, b
<1>18. CASE f.fn = "form" /\ ~Opening(f)
  <2>1. Len(Final(f)) = 0
    BY <1>18 DEF Final
  <2>2. c = a
    BY <1>9, <1>11, <1>18
  <2>3. t <= z
    BY <1>12, <1>13, <2>1, <2>2
  <2> QED BY <1>9, <1>14, <1>18, <2>3 DEF f, g, b
<1>19. CASE f.fn = "form" /\ Opening(f)
  <2>1. Len(Final(f)) = 0
    BY <1>19 DEF Final
  <2>2. c = a + q + 1
    BY <1>9, <1>11, <1>19
  <2>3. t = z + q + 1
    BY <1>12, <1>13, <2>1, <2>2
  <2>4. CASE k = n
    <3>1. t = z
      BY <1>11, <2>4
    <3> QED BY <1>12, <2>3, <3>1
  <2>5. CASE k # n
    <3> DEFINE h == fs[k + 1]
    <3>1. h.fn = "mask" /\ k + 1 \in 1..n /\ k + 1 \in k + 1..n
      BY <1>1, <1>6, <1>19, <2>5 DEF Under
    <3>2. q = 1
      <4>1. r = <<"clip">>
        BY <1>6, <2>5, <3>1 DEF Final
      <4> QED BY <1>11, <4>1
    <3>3. e = "later"
      <4>1. ~Stops(h, e)
        BY <3>1
      <4> QED BY <3>1, <4>1 DEF Stops
    \* above the soft mask there is nothing, or its form, which catches what is thrown
    <3>4. k + 1 = n
      <4> SUFFICES ASSUME k + 1 # n PROVE FALSE
        OBVIOUS
      <4>1. k + 1 \in 1..n - 1 /\ k + 2 \in 1..n /\ k + 2 \in k + 1..n /\ (k + 1) + 1 = k + 2
            /\ (k + 2 # n => k + 2 \in 1..n - 1)
        BY <1>1, <3>1
      <4>2. Under(h, fs[k + 2])
        BY <4>1 DEF Unders
      <4>3. fs[k + 2].fn = "form"
        BY <3>1, <4>2 DEF Under
      <4>4. fs[k + 2].onErr # << >>
        <5>1. CASE k + 2 # n
          <6>1. Under(fs[k + 2], fs[(k + 2) + 1])
            BY <4>1, <5>1 DEF Unders
          <6> QED BY <4>3, <6>1 DEF Under
        <5>2. CASE k + 2 = n
          BY <1>1, <3>3, <4>3, <5>2 DEF Unders
        <5> QED BY <5>1, <5>2
      <4>5. Stops(fs[k + 2], e)
        BY <4>3, <4>4 DEF Stops
      <4> QED BY <4>1, <4>5
    <3>5. h.todo = MaskEnd
      BY <1>1, <3>1, <3>4 DEF Unders
    <3>6. Bears(h, gs[h.base].blend, own[n])
      <4>1. Rest(fs, k + 1) = << >>
        BY <1>1, <3>4 DEF Rest
      <4>2. Bears(h, gs[h.base].blend, own[n] \o << >>)
        BY <3>1, <3>4, <4>1 DEF FitsWith
      <4> QED BY <1>3, <3>1, <3>4, <4>2, KindSeqs
    <3>7. own[n] = <<"mask">>
      <4>1. Leads(h.fn, h.soft, gs[h.base].blend, MaskEnd, own[n], Final(h))
        BY <3>5, <3>6 DEF Bears
      <4> HIDE DEF h
      <4> QED BY <4>1, MaskEndIs
    <3>8. t = z + 1
      <4>1. Len(own[n]) = 1
        BY <3>7
      <4>2. X[(k + 1) + 1] - D[(k + 1) + 1] = (X[k + 1] - D[k + 1]) + Len(own[k + 1])
        BY <1>3, <3>1
      <4> QED BY <1>11, <3>4, <4>1, <4>2
    <3> QED BY <1>12, <2>3, <3>2, <3>8
  <2> QED BY <2>4, <2>5
<1> QED BY <1>16, <1>17, <1>18, <1>19

LEMMA FitsUnwind ==
  ASSUME NEW fs, IsSeq(fs), NEW d, Fits(fs, gs, d), NEW e, Unders(fs, e),
         NEW us, us = Unwound(fs, e), Owes(fs) = Owes(us)
  PROVE  Fits(us, gs, d)
<1>1. PICK own, X : FitsWith(fs, gs, d, own, X)
  BY DEF Fits
<1> DEFINE n == Len(fs)
           D == ClipsAt(fs, gs)
           D2 == ClipsAt(us, gs)
<1>2. n \in Nat /\ (n >= 1 => fs # << >>) /\ (n = 0 => fs = << >>)
  BY SeqLen
<1>3. Laid(n, D, own, X, d)
  BY <1>1 DEF FitsWith
<1>4. \A i \in 1..n : D[i] = ClipsOf(gs, fs[i].base)
  BY ClipsAtIs
<1>5. D[n + 1] = ClipsOf(gs, Len(gs))
  BY ClipsAtIs
<1>6. \A i \in 1..n : IsSeq(fs[i].todo)
  BY DEF Unders, Mends
<1>7. CASE n >= 1 /\ us = << >>
  <2>1. Owes(fs) = 0
    <3>1. Len(us) = 0
      BY <1>7
    <3> QED BY <3>1, TotalNone
  <2>2. fs[1].fn # "mask"
    BY <1>2, <1>7 DEF Unders
  <2>3. X[n + 1] - D[n + 1] = 0
    BY <1>1, <1>6, <1>7, <2>1, <2>2, OwesIs
  <2>4. X[1] = D[1] /\ X[1] \in Nat /\ 1 \in 1..n + 1
    <3>1. 1 \in 1..n + 1
      BY <1>2
    <3> QED BY <1>3, <3>1 DEF Laid
  <2>5. \A i \in 1..n : own[i] = << >>
    <3>1. X[n + 1] - D[n + 1] <= X[1] - D[1]
      BY <2>3, <2>4
    <3> QED BY <1>2, <1>3, <2>4, <3>1, LaidNothing
  <2>6. Len(us) = 0 /\ IsSeq(us)
    <3>1. << >> \in Seq({})
      OBVIOUS
    <3> QED BY <1>7, <3>1 DEF IsSeq
  <2>7. D2[1] = D[n + 1]
    <3>1. D2[0 + 1] = ClipsOf(gs, Len(gs))
      BY <2>6, ClipsAtIs
    <3> QED BY <1>5, <3>1
  <2> HIDE DEF D, D2, n
  <2>8. PICK X2 : Laid(0, D2, own, X2, d)
    BY <1>2, <1>3, <1>7, <2>5, <2>7, LaidNone
  <2>9. FitsWith(us, gs, d, own, X2)
    <3>1. \A i \in 1..0 : FALSE
      OBVIOUS
    <3> QED BY <2>6, <2>8, <3>1 DEF FitsWith, D2
  <2> QED BY <2>9 DEF Fits
<1>8. CASE n = 0
  <2>1. us = << >>
    <3>1. us = << >> \/ \E k \in 1..n : TRUE
      BY UnwoundIs, Zenon
    <3> QED BY <1>8, <3>1
  <2> QED BY <1>2, <1>8, <2>1
<1>9. CASE n >= 1 /\ us # << >>
  <2>1. PICK k \in 1..n :
          /\ Stops(fs[k], e) /\ \A i \in k + 1..n : ~Stops(fs[i], e)
          /\ IsSeq(us) /\ Len(us) = k /\ us[k] = Caught(fs[k], e)
          /\ \A i \in 1..k - 1 : us[i] = fs[i]
    <3>1. Unwound(fs, e) # << >>
      BY <1>9
    <3>2. \E k \in 1..Len(fs) :
            /\ Stops(fs[k], e) /\ \A i \in k + 1..Len(fs) : ~Stops(fs[i], e)
            /\ IsSeq(Unwound(fs, e)) /\ Len(Unwound(fs, e)) = k /\ Unwound(fs, e) # << >>
            /\ Unwound(fs, e)[k] = Caught(fs[k], e)
            /\ \A i \in 1..k - 1 : Unwound(fs, e)[i] = fs[i]
      BY <3>1, UnwoundIs
    <3> HIDE DEF n
    <3>3. n = Len(fs)
      BY DEF n
    <3> QED BY <3>2, <3>3, Zenon
  <2>2. k \in Nat /\ k \in 1..k /\ \A i \in 1..k : i # k => i \in 1..k - 1 /\ i + 1 \in 1..k /\ i < k /\ i \in 1..n /\ i < n
    BY <1>2
  <2>3. \A i \in 1..k : i # k => us[i] = fs[i]
    BY <2>1, <2>2
  <2>4. /\ \A i \in k + 1..n : own[i] = << >>
        /\ Bears(us[k], gs[us[k].base].blend, own[k])
        /\ us[k].fn = fs[k].fn /\ us[k].base = fs[k].base
    BY <1>1, <1>9, <2>1, <2>3, CatchesTop
  <2>5. \A i \in 1..k : us[i].fn = fs[i].fn /\ us[i].base = fs[i].base
    BY <2>3, <2>4
  <2>6. D2[k + 1] = D[n + 1] /\ \A i \in 1..k : D2[i] = D[i]
    <3>1. /\ \A i \in 1..k : D2[i] = ClipsOf(gs, us[i].base)
          /\ D2[k + 1] = ClipsOf(gs, Len(gs))
      <4>1. IsSeq(us) /\ Len(us) = k
        BY <2>1
      <4>2. /\ \A i \in 1..Len(us) : D2[i] = ClipsOf(gs, us[i].base)
            /\ D2[Len(us) + 1] = ClipsOf(gs, Len(gs))
        BY <4>1, ClipsAtIs, Zenon
      <4> QED BY <4>1, <4>2
    <3>2. \A i \in 1..k : D[i] = ClipsOf(gs, fs[i].base)
      BY <1>4
    <3> QED BY <1>5, <2>5, <3>1, <3>2
  <2> HIDE DEF D, D2
  <2>7. PICK X2 : Laid(k, D2, own, X2, d)
    BY <1>2, <1>3, <2>4, <2>6, LaidCut
  <2>8. \A i \in 1..k : Bears(us[i], gs[us[i].base].blend, own[i] \o Rest(us, i))
    <3> TAKE i \in 1..k
    <3>1. CASE i = k
      <4>1. Rest(us, k) = << >>
        BY <2>1, <2>2 DEF Rest
      <4>2. own[k] \in Seq(Kinds)
        BY <2>2, <2>7 DEF Laid
      <4>3. own[k] \o << >> = own[k]
        BY <4>2
      <4> QED BY <2>4, <3>1, <4>1, <4>3
    <3>2. CASE i # k
      <4>1. us[i] = fs[i] /\ i < k /\ i < n /\ i \in 1..n
        BY <2>2, <2>3, <3>2
      <4>2. us[i + 1].fn = fs[i + 1].fn
        BY <2>2, <2>5, <3>2
      <4>3. Rest(us, i) = Rest(fs, i)
        BY <2>1, <4>1, <4>2 DEF Rest, Final
      <4> QED BY <1>1, <4>1, <4>3 DEF FitsWith
    <3> QED BY <3>1, <3>2
  <2>9. FitsWith(us, gs, d, own, X2)
    BY <2>1, <2>7, <2>8 DEF FitsWith, D2
  <2> QED BY <2>9 DEF Fits
<1> QED BY <1>2, <1>7, <1>8, <1>9

-----------------------------------------------------------------------------
(* The device                                                              *)

\* m of the brackets are closed, which are all of one kind
Cut(m, kind, d) ==
  /\ IsDev(d) /\ Len(d.open) + d.err = (Len(dev.open) + dev.err) - m
  /\ Len(d.open) <= Len(dev.open) /\ \A p \in 1..Len(d.open) : d.open[p] = dev.open[p]
LEMMA LeastGreatest ==
  ASSUME NEW a \in Int, NEW b \in Int
  PROVE  Min({a, b}) = (IF a <= b THEN a ELSE b) /\ Max({a, b}) = (IF a >= b THEN a ELSE b)
<1>1. PICK x \in {a, b} : x = (IF a <= b THEN a ELSE b)
  OBVIOUS
<1>2. PICK y \in {a, b} : y = (IF a >= b THEN a ELSE b)
  OBVIOUS
<1>3. \A z \in {a, b} : x <= z
  BY <1>1
<1>4. \A z \in {a, b} : y >= z
  BY <1>2
<1> QED BY <1>1, <1>2, <1>3, <1>4 DEF Min, Max

LEMMA DevIs ==
  ASSUME NEW d, NEW o, NEW r, NEW w, d = [open |-> o, err |-> r, wrong |-> w]
  PROVE  d.open = o /\ d.err = r /\ d = [open |-> d.open, err |-> d.err, wrong |-> w]
OBVIOUS

LEMMA Closing ==
  ASSUME IsDev(dev), NEW m \in Nat, m <= Len(dev.open) + dev.err, NEW kind,
         \A p \in 1..Len(dev.open) : p > (Len(dev.open) + dev.err) - m => dev.open[p] = kind,
         NEW d, d = Closed(m, kind)
  PROVE  Cut(m, kind, d)
<1> DEFINE s == dev.open
           L == Len(dev.open)
           r == dev.err
           skipped == IF m <= r THEN m ELSE r
           rest == L - (m - skipped)
<1>1. s \in Seq(Kinds) /\ L \in Nat /\ r \in Nat /\ dev.wrong = FALSE /\ L = Len(s)
  <2>1. dev = [open |-> dev.open, err |-> dev.err, wrong |-> FALSE]
    BY DEF IsDev
  <2>2. dev.wrong = FALSE
    BY <2>1
  <2> QED BY <2>2 DEF IsDev
<1>2. skipped \in Nat /\ Min({m, r}) = skipped /\ skipped <= r
  BY <1>1, LeastGreatest
<1>3. rest \in Int /\ rest >= 0 /\ rest <= L
  BY <1>1, <1>2
<1>4. Max({rest, 0}) = rest
  <2>1. ASSUME NEW a \in Int, a >= 0
        PROVE  Max({a, 0}) = a
    <3>1. 0 \in Int /\ a \in Int
      OBVIOUS
    <3>2. Max({a, 0}) = (IF a >= 0 THEN a ELSE 0)
      BY <3>1, LeastGreatest, Zenon
    <3> QED BY <2>1, <3>2, Zenon
  <2> HIDE DEF rest
  <2> QED BY <1>3, <2>1
<1>5. rest + (r - skipped) = (L + r) - m
  BY <1>1, <1>2
<1>6. m <= r => rest = L
  BY <1>1, <1>2
<1>7. ~(m <= r) => rest = (L + r) - m
  BY <1>1, <1>2
<1>8. d = [open |-> SubSeq(s, 1, rest), err |-> r - skipped,
           wrong |-> dev.wrong \/ rest < 0 \/ \E i \in rest + 1..L : s[i] # kind]
  BY <1>2, <1>4 DEF Closed
<1> HIDE DEF rest, skipped
<1>9. ~(\E i \in rest + 1..L : s[i] # kind)
  <2>1. CASE m <= r
    BY <1>1, <1>6, <2>1
  <2>2. CASE ~(m <= r)
    <3> SUFFICES ASSUME NEW i \in rest + 1..L
                 PROVE  s[i] = kind
      OBVIOUS
    <3>1. i \in 1..L /\ i > (L + r) - m
      BY <1>1, <1>3, <1>7, <2>2
    <3> QED BY <3>1
  <2> QED BY <2>1, <2>2
<1>10. (dev.wrong \/ rest < 0 \/ \E i \in rest + 1..L : s[i] # kind) = FALSE
  BY <1>1, <1>3, <1>9
<1>11. /\ SubSeq(s, 1, rest) \in Seq(Kinds) /\ Len(SubSeq(s, 1, rest)) = rest
       /\ \A p \in 1..rest : SubSeq(s, 1, rest)[p] = s[p]
  BY <1>1, <1>3
<1>12. /\ d.open = SubSeq(s, 1, rest) /\ d.err = r - skipped
       /\ d = [open |-> d.open, err |-> d.err, wrong |-> FALSE]
  <2>1. d = [open |-> SubSeq(s, 1, rest), err |-> r - skipped, wrong |-> FALSE]
    BY <1>8, <1>10, Zenon
  <2> HIDE DEF s, rest, skipped, r
  <2> DEFINE o == SubSeq(s, 1, rest)
             q == r - skipped
  <2>2. d = [open |-> o, err |-> q, wrong |-> FALSE]
    BY <2>1
  <2> HIDE DEF o, q
  <2>3. d.open = o /\ d.err = q /\ d = [open |-> d.open, err |-> d.err, wrong |-> FALSE]
    BY <2>2
  <2> QED BY <2>3 DEF o, q
<1>13. r - skipped \in Nat
  BY <1>1, <1>2
<1> QED BY <1>3, <1>5, <1>11, <1>12, <1>13 DEF Cut, IsDev

\* a bracket is opened, or fails to be
Grown(kind, d) ==
  /\ IsDev(d) /\ Len(d.open) + d.err = (Len(dev.open) + dev.err) + 1
  /\ Keeps(dev, d, Len(dev.open) + dev.err)
  /\ (Len(dev.open) + dev.err) + 1 <= Len(d.open)
       => d.open[(Len(dev.open) + dev.err) + 1] = kind
LEMMA Growing ==
  ASSUME IsDev(dev), NEW kind \in Kinds, NEW d, d \in Opened(kind)
  PROVE  Grown(kind, d)
<1> DEFINE s == dev.open
           L == Len(dev.open)
           r == dev.err
<1>1. s \in Seq(Kinds) /\ L \in Nat /\ r \in Nat /\ L = Len(s)
  BY DEF IsDev
<1>2. dev = [open |-> s, err |-> r, wrong |-> FALSE]
  BY DEF IsDev
<1>3. \/ r > 0 /\ d = [open |-> s, err |-> r + 1, wrong |-> FALSE]
      \/ r = 0 /\ d = [open |-> Append(s, kind), err |-> r, wrong |-> FALSE]
      \/ r = 0 /\ d = [open |-> s, err |-> 1, wrong |-> FALSE]
  <2>1. /\ [dev EXCEPT !.err = r + 1] = [open |-> s, err |-> r + 1, wrong |-> FALSE]
        /\ [dev EXCEPT !.open = Append(s, kind)] = [open |-> Append(s, kind), err |-> r, wrong |-> FALSE]
        /\ [dev EXCEPT !.err = 1] = [open |-> s, err |-> 1, wrong |-> FALSE]
    <3> HIDE DEF s, r
    <3>1. ASSUME NEW w, dev = [open |-> s, err |-> r, wrong |-> w], NEW v
          PROVE  /\ [dev EXCEPT !.open = v] = [open |-> v, err |-> r, wrong |-> w]
                 /\ [dev EXCEPT !.err = v] = [open |-> s, err |-> v, wrong |-> w]
      BY <3>1
    <3> QED BY <1>2, <3>1, Zenon
  <2>2. /\ [dev EXCEPT !.err = @ + 1] = [dev EXCEPT !.err = r + 1]
        /\ [dev EXCEPT !.open = Append(@, kind)] = [dev EXCEPT !.open = Append(s, kind)]
    OBVIOUS
  <2> QED BY <1>1, <2>1, <2>2 DEF Opened
<1>4. /\ Append(s, kind) \in Seq(Kinds) /\ Len(Append(s, kind)) = L + 1
      /\ Append(s, kind)[L + 1] = kind /\ \A p \in 1..L : Append(s, kind)[p] = s[p]
  BY <1>1
<1>5. CASE r > 0 /\ d = [open |-> s, err |-> r + 1, wrong |-> FALSE]
  BY <1>1, <1>5 DEF Grown, IsDev, Keeps
<1>6. CASE r = 0 /\ d = [open |-> Append(s, kind), err |-> r, wrong |-> FALSE]
  BY <1>1, <1>4, <1>6 DEF Grown, IsDev, Keeps
<1>7. CASE r = 0 /\ d = [open |-> s, err |-> 1, wrong |-> FALSE]
  BY <1>1, <1>7 DEF Grown, IsDev, Keeps
<1> QED BY <1>3, <1>5, <1>6, <1>7

\* what is opened or closed on top of the innermost call's x
LEMMA TopOpens ==
  ASSUME NEW x, NEW w, Top(dev, x, w, 0), NEW kind \in Kinds, NEW d, d \in Opened(kind)
  PROVE  Top(d, x, Append(w, kind), 0) /\ Keeps(dev, d, x)
<1> DEFINE v == Append(w, kind)
           y == Len(dev.open) + dev.err
<1>1. IsDev(dev) /\ x \in Nat /\ w \in Seq(Kinds) /\ y = x + Len(w) + 0
      /\ Shows(dev, x, x + Len(w) + 0, w) /\ Len(w) \in Nat
  BY DEF Top
<1>2. Grown(kind, d)
  BY <1>1, Growing
<1>3. v \in Seq(Kinds) /\ Len(v) = Len(w) + 1 /\ v[Len(w) + 1] = kind
      /\ \A i \in 1..Len(w) : v[i] = w[i]
  BY <1>1
<1>4. /\ IsDev(d) /\ Len(d.open) + d.err = y + 1
      /\ \A p \in 1..y : p <= Len(d.open) => p <= Len(dev.open) /\ d.open[p] = dev.open[p]
      /\ y + 1 <= Len(d.open) => d.open[y + 1] = kind
  BY <1>2 DEF Grown, Keeps
<1>5. \A p \in x + 1..x + Len(w) + 0 : p <= Len(dev.open) =>
        dev.open[p] = IF p <= x + Len(w) THEN w[p - x] ELSE "clip"
  BY <1>1 DEF Shows
<1> HIDE DEF v, y
<1>6. y = x + Len(w) /\ Len(d.open) + d.err = x + Len(v) + 0
  BY <1>1, <1>3, <1>4
<1>7. Len(d.open) \in Nat
  BY <1>4 DEF IsDev
<1>8. Shows(d, x, x + Len(v) + 0, v)
  <2> SUFFICES ASSUME NEW p \in x + 1..x + Len(v) + 0, p <= Len(d.open)
               PROVE  d.open[p] = IF p <= x + Len(v) THEN v[p - x] ELSE "clip"
    BY DEF Shows
  <2>1. p \in Nat /\ p <= x + Len(v) /\ p - x \in 1..Len(w) + 1
    BY <1>1, <1>3
  <2>2. CASE p <= y
    <3>1. p \in 1..y /\ p \in x + 1..x + Len(w) + 0 /\ p <= x + Len(w) /\ p - x \in 1..Len(w)
      BY <1>1, <1>6, <2>1, <2>2
    <3>2. p <= Len(dev.open) /\ d.open[p] = dev.open[p]
      BY <1>4, <3>1
    <3>3. d.open[p] = w[p - x]
      BY <1>5, <3>1, <3>2
    <3> QED BY <1>3, <2>1, <3>1, <3>3
  <2>3. CASE ~(p <= y)
    <3>1. p = y + 1 /\ p - x = Len(w) + 1
      BY <1>1, <1>3, <1>6, <2>1, <2>3
    <3>2. d.open[p] = kind
      BY <1>4, <3>1
    <3>3. v[p - x] = kind
      BY <1>3, <3>1
    <3> QED BY <2>1, <3>2, <3>3
  <2> QED BY <2>2, <2>3
<1>9. Keeps(dev, d, x)
  <2>1. \A p \in 1..x : p \in 1..y
    BY <1>1, <1>6
  <2> QED BY <1>4, <2>1 DEF Keeps
<1>10. Top(d, x, v, 0)
  BY <1>1, <1>3, <1>4, <1>6, <1>8 DEF Top
<1> QED BY <1>9, <1>10 DEF v

LEMMA TopClips ==
  ASSUME NEW x, NEW w, NEW e, Top(dev, x, w, e), NEW d, d \in Opened("clip")
  PROVE  Top(d, x, w, e + 1) /\ Keeps(dev, d, x) /\ ClipOpened(dev, d)
<1> DEFINE y == Len(dev.open) + dev.err
<1>1. IsDev(dev) /\ x \in Nat /\ e \in Nat /\ w \in Seq(Kinds) /\ y = x + Len(w) + e
      /\ Shows(dev, x, x + Len(w) + e, w) /\ Len(w) \in Nat
  BY DEF Top
<1>2. Grown("clip", d)
  BY <1>1, KindSeqs, Growing
<1>3. ClipOpened(dev, d)
  BY <1>2 DEF Grown, ClipOpened
<1>4. /\ IsDev(d) /\ Len(d.open) + d.err = y + 1
      /\ \A p \in 1..y : p <= Len(d.open) => p <= Len(dev.open) /\ d.open[p] = dev.open[p]
      /\ y + 1 <= Len(d.open) => d.open[y + 1] = "clip"
  BY <1>2 DEF Grown, Keeps
<1>5. \A p \in x + 1..x + Len(w) + e : p <= Len(dev.open) =>
        dev.open[p] = IF p <= x + Len(w) THEN w[p - x] ELSE "clip"
  BY <1>1 DEF Shows
<1> HIDE DEF y
<1>6. Len(d.open) + d.err = x + Len(w) + (e + 1)
  BY <1>1, <1>4
<1>7. Len(d.open) \in Nat
  BY <1>4 DEF IsDev
<1>8. Shows(d, x, x + Len(w) + (e + 1), w)
  <2> SUFFICES ASSUME NEW p \in x + 1..x + Len(w) + (e + 1), p <= Len(d.open)
               PROVE  d.open[p] = IF p <= x + Len(w) THEN w[p - x] ELSE "clip"
    BY DEF Shows
  <2>1. CASE p <= y
    <3>1. p \in 1..y /\ p \in x + 1..x + Len(w) + e
      BY <1>1, <2>1
    <3>2. p <= Len(dev.open) /\ d.open[p] = dev.open[p]
      BY <1>4, <3>1
    <3> QED BY <1>5, <3>1, <3>2
  <2>2. CASE ~(p <= y)
    <3>1. p = y + 1 /\ ~(p <= x + Len(w))
      BY <1>1, <2>2
    <3> QED BY <1>4, <3>1
  <2> QED BY <2>1, <2>2
<1>9. Keeps(dev, d, x)
  <2>1. \A p \in 1..x : p \in 1..y
    BY <1>1
  <2> QED BY <1>4, <2>1 DEF Keeps
<1>10. Top(d, x, w, e + 1)
  BY <1>1, <1>4, <1>6, <1>8 DEF Top
<1> QED BY <1>3, <1>9, <1>10

LEMMA TopDrops ==
  ASSUME NEW x, NEW w, NEW e, Top(dev, x, w, e), NEW m \in 0..e, NEW d, d = Closed(m, "clip")
  PROVE  Top(d, x, w, e - m) /\ Keeps(dev, d, x)
<1> DEFINE y == Len(dev.open) + dev.err
<1>1. IsDev(dev) /\ x \in Nat /\ e \in Nat /\ w \in Seq(Kinds) /\ y = x + Len(w) + e
      /\ Shows(dev, x, x + Len(w) + e, w) /\ Len(w) \in Nat
  BY DEF Top
<1>2. dev.err \in Nat /\ Len(dev.open) \in Nat
  BY <1>1 DEF IsDev
<1>3. \A p \in x + 1..x + Len(w) + e : p <= Len(dev.open) =>
        dev.open[p] = IF p <= x + Len(w) THEN w[p - x] ELSE "clip"
  BY <1>1 DEF Shows
<1>4. \A p \in 1..Len(dev.open) : p > y - m => dev.open[p] = "clip"
  <2> SUFFICES ASSUME NEW p \in 1..Len(dev.open), p > y - m
               PROVE  dev.open[p] = "clip"
    OBVIOUS
  <2>1. p \in x + 1..x + Len(w) + e /\ ~(p <= x + Len(w)) /\ p <= Len(dev.open)
    BY <1>1, <1>2, SMTT(30)
  <2> QED BY <1>3, <2>1
<1>5. m \in Nat /\ m <= y
  BY <1>1
<1>6. Cut(m, "clip", d)
  BY <1>1, <1>4, <1>5, Closing
<1>7. /\ IsDev(d) /\ Len(d.open) + d.err = y - m /\ Len(d.open) <= Len(dev.open)
      /\ \A p \in 1..Len(d.open) : d.open[p] = dev.open[p]
  BY <1>6 DEF Cut
<1>8. d.err \in Nat /\ Len(d.open) \in Nat
  BY <1>7 DEF IsDev
<1> HIDE DEF y
<1>9. Len(d.open) + d.err = x + Len(w) + (e - m) /\ e - m \in Nat
  BY <1>1, <1>7
<1>10. Shows(d, x, x + Len(w) + (e - m), w)
  <2> SUFFICES ASSUME NEW p \in x + 1..x + Len(w) + (e - m), p <= Len(d.open)
               PROVE  d.open[p] = IF p <= x + Len(w) THEN w[p - x] ELSE "clip"
    BY DEF Shows
  <2>1. p \in 1..Len(d.open) /\ p \in x + 1..x + Len(w) + e /\ p <= Len(dev.open)
    BY <1>1, <1>2, <1>7, <1>8, SMTT(30)
  <2> QED BY <1>3, <1>7, <2>1
<1>11. Keeps(dev, d, x)
  <2> SUFFICES ASSUME NEW p \in 1..x, p <= Len(d.open)
               PROVE  p <= Len(dev.open) /\ d.open[p] = dev.open[p]
    BY Zenon DEF Keeps
  <2>1. p \in 1..Len(d.open)
    BY <1>1, <1>8
  <2>2. Len(d.open) <= Len(dev.open)
    BY <1>7
  <2>3. p <= Len(dev.open)
    BY <1>1, <1>2, <1>8, <2>2
  <2> QED BY <1>7, <2>1, <2>3
<1> QED BY <1>1, <1>7, <1>9, <1>10, <1>11 DEF Top

LEMMA TopCloses ==
  ASSUME NEW x, NEW v \in Seq(Kinds), NEW kind, NEW w, w = Append(v, kind), Top(dev, x, w, 0),
         NEW d, d = Closed(1, kind)
  PROVE  Top(d, x, v, 0) /\ Keeps(dev, d, x)
<1> DEFINE y == Len(dev.open) + dev.err
<1>1. IsDev(dev) /\ x \in Nat /\ w \in Seq(Kinds) /\ y = x + Len(w) + 0
      /\ Shows(dev, x, x + Len(w) + 0, w) /\ Len(w) \in Nat
  BY DEF Top
<1>2. dev.err \in Nat /\ Len(dev.open) \in Nat
  BY <1>1 DEF IsDev
<1>3. \A p \in x + 1..x + Len(w) + 0 : p <= Len(dev.open) =>
        dev.open[p] = IF p <= x + Len(w) THEN w[p - x] ELSE "clip"
  BY <1>1 DEF Shows
<1>4. /\ Len(v) \in Nat /\ Len(w) = Len(v) + 1 /\ w[Len(v) + 1] = kind
      /\ \A i \in 1..Len(v) : w[i] = v[i]
  OBVIOUS
<1>5. \A p \in 1..Len(dev.open) : p > y - 1 => dev.open[p] = kind
  <2> SUFFICES ASSUME NEW p \in 1..Len(dev.open), p > y - 1
               PROVE  dev.open[p] = kind
    OBVIOUS
  <2>1. /\ p \in x + 1..x + Len(w) + 0 /\ p <= x + Len(w) /\ p <= Len(dev.open)
        /\ p - x = Len(v) + 1
    BY <1>1, <1>2, <1>4
  <2>2. dev.open[p] = w[p - x]
    BY <1>3, <2>1
  <2> QED BY <1>4, <2>1, <2>2
<1>6. 1 \in Nat /\ 1 <= y
  BY <1>1, <1>4
<1>7. Cut(1, kind, d)
  BY <1>1, <1>5, <1>6, Closing
<1>8. /\ IsDev(d) /\ Len(d.open) + d.err = y - 1 /\ Len(d.open) <= Len(dev.open)
      /\ \A p \in 1..Len(d.open) : d.open[p] = dev.open[p]
  BY <1>7 DEF Cut
<1>9. d.err \in Nat /\ Len(d.open) \in Nat
  BY <1>8 DEF IsDev
<1> HIDE DEF y
<1>10. Len(d.open) + d.err = x + Len(v) + 0
  BY <1>1, <1>4, <1>8
<1>11. Shows(d, x, x + Len(v) + 0, v)
  <2> SUFFICES ASSUME NEW p \in x + 1..x + Len(v) + 0, p <= Len(d.open)
               PROVE  d.open[p] = IF p <= x + Len(v) THEN v[p - x] ELSE "clip"
    BY DEF Shows
  <2>1. /\ p \in 1..Len(d.open) /\ p \in x + 1..x + Len(w) + 0 /\ p <= Len(dev.open)
        /\ p <= x + Len(w) /\ p <= x + Len(v) /\ p - x \in 1..Len(v)
    BY <1>1, <1>2, <1>4, <1>8, <1>9
  <2>2. d.open[p] = w[p - x]
    BY <1>3, <1>8, <2>1
  <2> QED BY <1>4, <2>1, <2>2
<1>12. Keeps(dev, d, x)
  BY <1>1, <1>2, <1>8, <1>9 DEF Keeps
<1>13. 0 \in Nat
  OBVIOUS
<1> QED BY <1>1, <1>8, <1>10, <1>11, <1>12, <1>13 DEF Top

\* a soft mask becomes a clip
MaskedDev ==
  IF dev.err > 0 THEN dev
  ELSE [dev EXCEPT !.open[Len(dev.open)] = "clip",
                   !.wrong = @ \/ Last(dev.open) # "mask"]
LEMMA TopMasks ==
  ASSUME NEW x, Top(dev, x, <<"mask">>, 0), NEW d, d = MaskedDev
  PROVE  Top(d, x, <<"clip">>, 0) /\ Keeps(dev, d, x)
<1> DEFINE s == dev.open
           L == Len(dev.open)
           t == [s EXCEPT ![L] = "clip"]
<1>1. IsDev(dev) /\ x \in Nat /\ L + dev.err = x + 1 + 0 /\ Shows(dev, x, x + 1 + 0, <<"mask">>)
  <2>1. Len(<<"mask">>) = 1
    OBVIOUS
  <2> QED BY <2>1 DEF Top
<1>2. s \in Seq(Kinds) /\ L \in Nat /\ dev.err \in Nat /\ L = Len(s)
  BY <1>1 DEF IsDev
<1>3. <<"clip">> \in Seq(Kinds) /\ Len(<<"clip">>) = 1 /\ <<"clip">>[1] = "clip"
      /\ Len(<<"mask">>) = 1 /\ <<"mask">>[1] = "mask" /\ 0 \in Nat
  BY KindSeqs
<1>4. CASE dev.err > 0
  <2>1. d = dev
    BY <1>4 DEF MaskedDev
  <2>2. L <= x
    BY <1>1, <1>2, <1>4
  <2>3. Shows(dev, x, x + 1 + 0, <<"clip">>)
    BY <1>1, <1>2, <2>2 DEF Shows
  <2>4. Keeps(dev, dev, x)
    BY DEF Keeps
  <2> QED BY <1>1, <1>3, <2>1, <2>3, <2>4 DEF Top
<1>5. CASE ~(dev.err > 0)
  <2>1. L = x + 1 /\ dev.err = 0 /\ L \in 1..L /\ L - x = 1
    BY <1>1, <1>2, <1>5
  <2>2. s[L] = "mask"
    <3>1. L \in x + 1..x + 1 + 0 /\ L <= Len(dev.open) /\ L <= x + Len(<<"mask">>)
      BY <1>1, <1>3, <2>1
    <3>2. s[L] = IF L <= x + Len(<<"mask">>) THEN <<"mask">>[L - x] ELSE "clip"
      BY <1>1, <3>1 DEF Shows
    <3> QED BY <1>3, <2>1, <3>1, <3>2
  <2>3. Last(s) = "mask"
    BY <2>2 DEF Last
  <2>4. t \in Seq(Kinds) /\ Len(t) = L /\ t[L] = "clip" /\ \A i \in 1..L : i # L => t[i] = s[i]
    BY <1>2, <2>1, KindSeqs
  <2>5. d.open = t /\ d.err = 0 /\ d = [open |-> d.open, err |-> d.err, wrong |-> FALSE]
    <3>1. dev = [open |-> s, err |-> dev.err, wrong |-> FALSE]
      BY <1>1 DEF IsDev
    <3>2. d = [dev EXCEPT !.open[L] = "clip", !.wrong = @ \/ Last(s) # "mask"]
      BY <1>5 DEF MaskedDev
    <3>3. d = [[dev EXCEPT !.open = t] EXCEPT !.wrong = @ \/ Last(s) # "mask"]
      BY <3>2, <3>1
    <3>4. PICK c : c = [dev EXCEPT !.open = t]
      OBVIOUS
    <3>5. ASSUME NEW w, dev = [open |-> s, err |-> dev.err, wrong |-> w]
          PROVE  c = [open |-> t, err |-> dev.err, wrong |-> w]
      <4> HIDE DEF s, t
      <4> QED BY <3>4, <3>5
    <3>6. c = [open |-> t, err |-> dev.err, wrong |-> FALSE]
      BY <3>1, <3>5, Zenon
    <3>7. d = [c EXCEPT !.wrong = @ \/ Last(s) # "mask"]
      BY <3>3, <3>4
    <3>8. (c.wrong \/ Last(s) # "mask") = FALSE
      <4>1. c.wrong = FALSE
        BY <3>6
      <4> QED BY <4>1, <2>3
    <3>9. PICK w : w = (c.wrong \/ Last(s) # "mask")
      OBVIOUS
    <3>10. d = [c EXCEPT !.wrong = w]
      BY <3>7, <3>9, Zenon
    <3>11. d = [open |-> t, err |-> dev.err, wrong |-> w]
      <4> HIDE DEF s, t
      <4>1. ASSUME NEW z, c = [open |-> t, err |-> dev.err, wrong |-> z]
            PROVE  d = [open |-> t, err |-> dev.err, wrong |-> w]
        BY <3>10, <4>1
      <4> QED BY <3>6, <4>1, Zenon
    <3>12. w = FALSE
      BY <3>8, <3>9, Zenon
    <3>13. d = [open |-> t, err |-> dev.err, wrong |-> FALSE]
      BY <3>11, <3>12, Zenon
    <3>14. \A o, r, z : d = [open |-> o, err |-> r, wrong |-> z]
             => d.open = o /\ d.err = r /\ d = [open |-> d.open, err |-> d.err, wrong |-> z]
      BY DevIs
    <3>15. /\ d.open = t /\ d.err = dev.err
           /\ d = [open |-> d.open, err |-> d.err, wrong |-> FALSE]
      BY <3>13, <3>14, Zenon
    <3> HIDE DEF s, t
    <3> QED BY <2>1, <3>15
  <2> HIDE DEF t
  <2>6. IsDev(d) /\ Len(d.open) + d.err = x + 1 + 0
    <3>1. d.open \in Seq(Kinds) /\ d.err \in Nat
      <4>1. d.open = t /\ d.err = 0 /\ t \in Seq(Kinds)
        BY <2>4, <2>5, Zenon
      <4>2. 0 \in Nat
        OBVIOUS
      <4> QED BY <4>1, <4>2, Zenon
    <3>2. IsDev(d)
      BY <2>5, <3>1 DEF IsDev
    <3>3. Len(d.open) = L
      BY <2>4, <2>5
    <3> HIDE DEF L
    <3> QED BY <1>1, <2>1, <2>5, <3>2, <3>3
  <2>7. Shows(d, x, x + 1 + 0, <<"clip">>)
    <3> SUFFICES ASSUME NEW p \in x + 1..x + 1 + 0
                 PROVE  d.open[p] = IF p <= x + Len(<<"clip">>) THEN <<"clip">>[p - x] ELSE "clip"
      BY DEF Shows
    <3>1. p = L /\ p - x = 1
      BY <1>1, <2>1
    <3> QED BY <1>3, <2>4, <2>5, <3>1
  <2>8. Keeps(dev, d, x)
    <3>1. \A p \in 1..x : p \in 1..L /\ p # L /\ p <= L
      BY <1>1, <2>1
    <3> QED BY <2>4, <2>5, <3>1 DEF Keeps
  <2> QED BY <1>1, <1>3, <2>6, <2>7, <2>8 DEF Top
<1> QED BY <1>4, <1>5

-----------------------------------------------------------------------------
(* The clips of the states                                                 *)

\* a form before its contents, and a pattern before fz_always: the state of its own has
\* no clip of its own
Entering(f) ==
  f.todo # << >> /\ f.todo[1] \in {Do("softmask"), Open("group"), Do("reset"), Do("clip")}
Raised(f) == (f.fn = "form" /\ Entering(f)) \/ (f.fn = "pattern" /\ f.onErr # << >>)
\* the states up to here are the call's and its callers'
Floor(f) == IF Raised(f) THEN f.base + 1 ELSE f.base
\* a call and the one it waits for
Above(f, g) ==
  /\ g.fn = "stream" => Floor(f) < g.base
  /\ IsPaint(g.fn) => f.fn = "stream"
  /\ f.fn = "form" /\ Opening(f) => g.fn = "mask"
  /\ g.fn = "mask" => IsPaint(f.fn) \/ (f.fn = "form" /\ Opening(f))
  /\ f.fn = "mask" => f.todo = MaskEnd
\* A state has the clips of the state below it, and its own.
Rising(s) == \A i \in 1..Len(s) : s[i].clips \in Nat /\ ClipsOf(s, i - 1) <= ClipsOf(s, i)
Even(s, i) == ClipsOf(s, i + 1) = ClipsOf(s, i)
Grows(fs, s) ==
  /\ fs # << >> => fs[1].fn # "mask"
  /\ Rising(s)
  /\ \A i \in 1..Len(fs) : Raised(fs[i]) => Even(s, fs[i].base)
  /\ \A i \in 1..Len(fs) - 1 : Above(fs[i], fs[i + 1])
\* the calls are made at levels that rise
Ordered(fs, n) ==
  /\ \A i \in 1..Len(fs) : /\ fs[i].base \in Nat /\ Floor(fs[i]) \in Nat
                           /\ fs[i].base <= Floor(fs[i]) /\ Floor(fs[i]) <= n
  /\ \A i, j \in 1..Len(fs) : i < j => Floor(fs[i]) <= fs[j].base

LEMMA FloorAt ==
  ASSUME NEW f, Shaped(f), NEW n \in Nat, NEW gb, NEW gp, At(f, n, gb, gp), Patient
  PROVE  /\ f.base \in Nat /\ Floor(f) \in Nat /\ f.base <= Floor(f) /\ Floor(f) <= n
         /\ f.base >= 1 \/ f.fn \in Outer
<1>1. WeakAt(f, f.todo, f.onErr, f.pend, n, gb) /\ StrongAt(f, f.todo, f.onErr, f.pend, n, gb, gp)
  BY DEF At, LevelAt
<1>2. f.base \in Nat /\ (f.base >= 1 \/ f.fn \in Outer)
  BY <1>1 DEF WeakAt
<1>3. CASE f.fn \in Outer
  <2>1. f.base = 0 /\ ~Raised(f)
    BY <1>1, <1>3 DEF StrongAt, PageAt, Raised, Outer
  <2> QED BY <1>2, <2>1 DEF Floor
<1>4. CASE f.fn = "stream"
  <2>1. n >= f.base /\ ~Raised(f)
    BY <1>1, <1>4 DEF StrongAt, StreamAt, Raised
  <2> QED BY <1>2, <2>1 DEF Floor
<1>5. CASE f.fn = "form"
  <2>1. FormAt(f, f.todo, f.onErr, f.pend, n, gb, gp)
    BY <1>1, <1>5 DEF StrongAt
  <2>2. n >= f.base
    <3>1. n = f.base + 1 \/ n >= f.base + 1 \/ n = f.base
      BY <2>1, Zenon DEF FormAt
    <3> QED BY <1>2, <3>1
  <2>3. Entering(f) => n = f.base + 1
    <3> SUFFICES ASSUME Entering(f)
                 PROVE  n = f.base + 1
      OBVIOUS
    <3>1. f.todo # << >> /\ f.todo[1][1] \in {"softmask", "open", "reset", "clip"}
      BY StepNames DEF Entering
    <3>2. f.todo \in Before(f.form) /\ f.todo # FormEnd(f.form)
      <4>1. FormEnd(f.form)[1][1] = "always"
        BY EndNext
      <4> QED BY <1>5, <3>1, <4>1, FormStep
    <3>3. f.todo \notin Unmarked /\ f.todo \notin Leaving(f.form)
      <4>1. f.todo \in Unmarked => f.todo[1][1] \in {"close", "unmask"}
        BY <3>1, UnmarkedTail
      <4>2. f.todo \in Leaving(f.form) => f.todo[1][1] = "down" \/ f.todo[1][1] = "leave form"
        BY LeavingTail, Zenon
      <4>3. f.todo[1][1] # "leave form"
        BY <3>1, Zenon
      <4> QED BY <3>1, <4>1, <4>2, <4>3
    <3> QED BY <2>1, <3>2, <3>3 DEF FormAt, Leaving
  <2> QED BY <1>2, <1>5, <2>2, <2>3 DEF Floor, Raised
<1>6. CASE f.fn = "pattern"
  <2>1. PatternAt(f, f.todo, f.onErr, f.pend, n, gb, gp)
    BY <1>1, <1>6 DEF StrongAt
  <2>2. n >= f.base /\ (f.onErr # << >> => n >= f.base + 1)
    BY <1>2, <2>1 DEF PatternAt
  <2> QED BY <1>2, <1>6, <2>2 DEF Floor, Raised
<1>7. CASE f.fn = "cell"
  <2>1. n >= f.base /\ ~Raised(f)
    BY <1>1, <1>2, <1>7 DEF StrongAt, CellAt, Raised
  <2> QED BY <1>2, <2>1 DEF Floor
<1>8. CASE f.fn = "mask"
  <2>1. n = f.base
    BY <1>1, <1>8, Zenon DEF StrongAt, MaskAt
  <2>2. ~Raised(f)
    BY <1>8 DEF Raised
  <2> QED BY <1>2, <2>1, <2>2 DEF Floor
<1>9. CASE f.fn \notin Outer \cup Named
  <2>1. n >= f.base /\ ~Raised(f)
    BY <1>1, <1>2, <1>9 DEF StrongAt, PaintAt, Raised, Named
  <2> QED BY <1>2, <2>1 DEF Floor
<1> QED BY <1>3, <1>4, <1>5, <1>6, <1>7, <1>8, <1>9 DEF Named

LEMMA OrderedIs ==
  ASSUME NEW fs, IsSeq(fs), \A i \in 1..Len(fs) : Shaped(fs[i]), NEW n \in Nat, NEW gb, NEW gp,
         Levelled(fs, n, gb, gp), Patient
  PROVE  Ordered(fs, n) /\ \A i \in 1..Len(fs) : fs[i].base >= 1 \/ fs[i].fn \in Outer
<1> DEFINE L == Len(fs)
           R == [i \in 1..L |-> fs[i].base]
<1>1. L \in Nat
  BY SeqLen
<1>2. ASSUME NEW i \in 1..L
      PROVE  /\ fs[i].base \in Nat /\ Floor(fs[i]) \in Nat /\ fs[i].base <= Floor(fs[i])
             /\ fs[i].base >= 1 \/ fs[i].fn \in Outer
             /\ i = L => Floor(fs[i]) <= n
             /\ i + 1 \in 1..L => Floor(fs[i]) <= fs[i + 1].base
  <2>1. CASE i = L
    <3>1. At(fs[i], n, gb, gp)
      BY <1>1, <2>1, SeqLen DEF Levelled
    <3> QED BY <1>1, <2>1, <3>1, FloorAt
  <2>2. CASE i # L
    <3>1. i \in 1..L - 1 /\ i + 1 \in 1..L
      BY <1>1, <2>2
    <3>2. At(fs[i], fs[i + 1].base, fs[i + 1].gbot, fs[i + 1].gparent)
      BY <3>1 DEF Levelled
    <3>3. fs[i + 1].base \in Nat
      BY <3>1 DEF Shaped, IsFrame
    <3>4. Shaped(fs[i])
      OBVIOUS
    <3> QED BY <2>2, <3>2, <3>3, <3>4, FloorAt
  <2> QED BY <2>1, <2>2
<1>3. \A i, j \in 1..L : i <= j => R[i] <= R[j]
  <2>1. ASSUME NEW i \in 1..L PROVE R[i] \in Int /\ R[i] = fs[i].base
    BY <1>2
  <2>2. ASSUME NEW i \in 1..L, i + 1 \in 1..L PROVE R[i] <= R[i + 1]
    <3>1. fs[i].base <= Floor(fs[i]) /\ Floor(fs[i]) <= fs[i + 1].base
          /\ fs[i].base \in Nat /\ Floor(fs[i]) \in Nat /\ fs[i + 1].base \in Nat
      BY <1>2, <2>2
    <3>2. R[i] = fs[i].base /\ R[i + 1] = fs[i + 1].base
      BY <2>1, <2>2
    <3> HIDE DEF R
    <3> QED BY <3>1, <3>2
  <2> HIDE DEF R, L
  <2> QED BY <1>1, <2>1, <2>2, Rises
<1>4. ASSUME NEW i \in 1..L, NEW j \in 1..L, i < j
      PROVE  Floor(fs[i]) <= fs[j].base
  <2>1. i + 1 \in 1..L /\ i + 1 <= j
    BY <1>1, <1>4
  <2>2. R[i + 1] <= R[j]
    BY <1>3, <2>1
  <2>3. Floor(fs[i]) <= fs[i + 1].base
    BY <1>2, <2>1
  <2>4. fs[i + 1].base \in Nat /\ fs[j].base \in Nat /\ Floor(fs[i]) \in Nat
    BY <1>2, <2>1
  <2>5. fs[i + 1].base <= fs[j].base
    BY <2>1, <2>2
  <2> QED BY <2>3, <2>4, <2>5
<1>5. ASSUME NEW i \in 1..L
      PROVE  Floor(fs[i]) <= n
  <2>1. L \in 1..L
    BY <1>1
  <2>2. Floor(fs[L]) <= n /\ fs[L].base <= Floor(fs[L]) /\ fs[L].base \in Nat
        /\ Floor(fs[L]) \in Nat /\ Floor(fs[i]) \in Nat
    BY <1>2, <2>1
  <2>3. i < L => Floor(fs[i]) <= fs[L].base
    BY <1>4, <2>1
  <2>4. i = L \/ i < L
    BY <1>1
  <2> QED BY <2>2, <2>3, <2>4
<1> HIDE DEF L
<1>6. /\ \A i \in 1..L : /\ fs[i].base \in Nat /\ Floor(fs[i]) \in Nat
                         /\ fs[i].base <= Floor(fs[i]) /\ Floor(fs[i]) <= n
      /\ \A i, j \in 1..L : i < j => Floor(fs[i]) <= fs[j].base
  BY <1>2, <1>4, <1>5
<1> QED BY <1>2, <1>6 DEF Ordered, L

-----------------------------------------------------------------------------
(* What holds of calls, states and device together                         *)

Nests(fs, s, d, l) == Grows(fs, s) /\ (~l => Fits(fs, s, d))

\* There are more states, with the clips of the last one.
Widened(s, s2) ==
  /\ Len(s) \in Nat /\ Len(s2) \in Nat /\ Len(s) <= Len(s2)
  /\ \A i \in 1..Len(s2) : s2[i].clips = ClipsOf(s, IF i <= Len(s) THEN i ELSE Len(s))
BlendKept(fs, s, s2) ==
  \A i \in 1..Len(fs) : IsPaint(fs[i].fn) => s2[fs[i].base].blend = s[fs[i].base].blend
LEMMA WidenedIs ==
  ASSUME NEW s, NEW s2, Widened(s, s2)
  PROVE  /\ \A i \in 0..Len(s) : ClipsOf(s2, i) = ClipsOf(s, i)
         /\ ClipsOf(s2, Len(s2)) = ClipsOf(s, Len(s))
         /\ Rising(s) => Rising(s2)
<1>1. Len(s) \in Nat /\ Len(s2) \in Nat /\ Len(s) <= Len(s2)
  BY DEF Widened
<1>2. ASSUME NEW i \in 0..Len(s2)
      PROVE  ClipsOf(s2, i) = ClipsOf(s, IF i <= Len(s) THEN i ELSE Len(s))
  <2>1. CASE i = 0
    BY <1>1, <2>1 DEF ClipsOf
  <2>2. CASE i # 0
    <3>1. i \in 1..Len(s2)
      BY <1>1, <2>2
    <3>2. s2[i].clips = ClipsOf(s, IF i <= Len(s) THEN i ELSE Len(s))
      BY <3>1, Zenon DEF Widened
    <3> QED BY <2>2, <3>2 DEF ClipsOf
  <2> QED BY <2>1, <2>2
<1>3. \A i \in 0..Len(s) : ClipsOf(s2, i) = ClipsOf(s, i)
  BY <1>1, <1>2
<1>4. ClipsOf(s2, Len(s2)) = ClipsOf(s, Len(s))
  <2>1. Len(s2) \in 0..Len(s2)
    BY <1>1
  <2>2. Len(s2) <= Len(s) => Len(s2) = Len(s)
    BY <1>1
  <2> QED BY <1>2, <2>1, <2>2
<1>5. ASSUME Rising(s)
      PROVE  Rising(s2)
  <2>1. ASSUME NEW i \in 1..Len(s)
        PROVE  ClipsOf(s, i) \in Nat /\ ClipsOf(s, i - 1) <= ClipsOf(s, i)
    <3>1. s[i].clips \in Nat /\ ClipsOf(s, i - 1) <= ClipsOf(s, i)
      BY <1>5 DEF Rising
    <3> QED BY <1>1, <3>1 DEF ClipsOf
  <2>2. ASSUME NEW i \in 0..Len(s)
        PROVE  ClipsOf(s, i) \in Nat
    BY <1>1, <2>1 DEF ClipsOf
  <2>3. ASSUME NEW i \in 1..Len(s2)
        PROVE  s2[i].clips \in Nat /\ ClipsOf(s2, i - 1) <= ClipsOf(s2, i)
    <3>1. i \in 0..Len(s2) /\ i - 1 \in 0..Len(s2) /\ i # 0
      BY <1>1
    <3>2. ClipsOf(s2, i) = s2[i].clips
      BY <3>1 DEF ClipsOf
    <3>3. CASE i <= Len(s)
      <4>1. i \in 1..Len(s) /\ i - 1 <= Len(s)
        BY <1>1, <3>3
      <4>2. ClipsOf(s2, i) = ClipsOf(s, i) /\ ClipsOf(s2, i - 1) = ClipsOf(s, i - 1)
        BY <1>2, <3>1, <3>3, <4>1
      <4> QED BY <2>1, <3>2, <4>1, <4>2
    <3>4. CASE ~(i <= Len(s))
      <4>1. ClipsOf(s2, i) = ClipsOf(s, Len(s))
        BY <1>2, <3>1, <3>4
      <4>2. i - 1 <= Len(s) => i - 1 = Len(s)
        BY <1>1, <3>4
      <4>3. ClipsOf(s2, i - 1) = ClipsOf(s, Len(s))
        BY <1>2, <3>1, <4>2
      <4>4. ClipsOf(s, Len(s)) \in Nat
        BY <1>1, <2>2
      <4> QED BY <3>2, <4>1, <4>3, <4>4
    <3> QED BY <3>3, <3>4
  <2> QED BY <2>3 DEF Rising
<1> QED BY <1>3, <1>4, <1>5

LEMMA NestsLike ==
  ASSUME NEW fs, IsSeq(fs), NEW s, NEW s2, Ordered(fs, Len(s)), Widened(s, s2),
         BlendKept(fs, s, s2), NEW d, NEW l, Nests(fs, s, d, l)
  PROVE  Nests(fs, s2, d, l)
<1>1. /\ Len(s) \in Nat /\ \A i \in 0..Len(s) : ClipsOf(s2, i) = ClipsOf(s, i)
      /\ ClipsOf(s2, Len(s2)) = ClipsOf(s, Len(s)) /\ (Rising(s) => Rising(s2))
  BY WidenedIs DEF Widened
<1>2. ASSUME NEW i \in 1..Len(fs)
      PROVE  fs[i].base \in 0..Len(s) /\ (Raised(fs[i]) => fs[i].base + 1 \in 0..Len(s))
  <2>1. /\ fs[i].base \in Nat /\ Floor(fs[i]) \in Nat
        /\ fs[i].base <= Floor(fs[i]) /\ Floor(fs[i]) <= Len(s)
    BY DEF Ordered
  <2>2. Raised(fs[i]) => Floor(fs[i]) = fs[i].base + 1
    BY DEF Floor
  <2> QED BY <1>1, <2>1, <2>2
<1>3. Grows(fs, s2)
  <2>1. Grows(fs, s)
    BY DEF Nests
  <2>2. ASSUME NEW i \in 1..Len(fs), Raised(fs[i])
        PROVE  Even(s2, fs[i].base)
    <3>1. Even(s, fs[i].base)
      BY <2>1, <2>2 DEF Grows
    <3> QED BY <1>1, <1>2, <2>2, <3>1 DEF Even
  <2> QED BY <1>1, <2>1, <2>2 DEF Grows
<1>4. ASSUME ~l
      PROVE  Fits(fs, s2, d)
  <2>1. Fits(fs, s, d)
    BY <1>4 DEF Nests
  <2>2. \A i \in 1..Len(fs) : ClipsOf(s2, fs[i].base) = ClipsOf(s, fs[i].base)
    BY <1>1, <1>2
  <2> QED BY <1>1, <2>1, <2>2, FitsSame DEF BlendKept
<1> QED BY <1>3, <1>4 DEF Nests

\* The innermost call goes on as g.
LEMMA GrowsTop ==
  ASSUME NEW fs, IsSeq(fs), NEW n, n = Len(fs), n >= 1, NEW s, Grows(fs, s), NEW s2, Rising(s2),
         NEW f, f = fs[n], NEW g, g.fn = f.fn, g.base = f.base,
         \A i \in 1..n : i # n /\ Raised(fs[i]) => Even(s2, fs[i].base),
         Raised(g) => Even(s2, g.base)
  PROVE  Grows(Replaced(fs, n, g), s2)
<1> DEFINE hs == Replaced(fs, n, g)
<1>1. n \in Nat /\ n \in 1..n
  BY SeqLen
<1>2. Len(hs) = n /\ hs[n] = g /\ (\A i \in 1..n : i # n => hs[i] = fs[i])
  BY <1>1, ReplacedSeq
<1>3. fs[1].fn # "mask"
  <2>1. fs # << >>
    BY <1>1, SeqLen
  <2> QED BY <2>1 DEF Grows
<1> HIDE DEF hs
<1>4. hs[1].fn # "mask"
  <2>1. 1 \in 1..n
    BY <1>1
  <2>2. CASE n = 1
    BY <1>2, <1>3, <2>2
  <2>3. CASE n # 1
    BY <1>2, <1>3, <2>1, <2>3
  <2> QED BY <2>2, <2>3
<1>5. ASSUME NEW i \in 1..n, Raised(hs[i])
      PROVE  Even(s2, hs[i].base)
  <2>1. CASE i = n
    BY <1>2, <1>5, <2>1
  <2>2. CASE i # n
    <3>1. hs[i] = fs[i]
      BY <1>2, <2>2
    <3> QED BY <1>5, <2>2, <3>1
  <2> QED BY <2>1, <2>2
<1>6. ASSUME NEW i \in 1..n - 1
      PROVE  Above(hs[i], hs[i + 1])
  <2>1. i \in 1..n /\ i + 1 \in 1..n /\ i # n
    BY <1>1
  <2>2. hs[i] = fs[i] /\ Above(fs[i], fs[i + 1])
    BY <1>2, <2>1 DEF Grows
  <2>3. hs[i + 1].fn = fs[i + 1].fn /\ hs[i + 1].base = fs[i + 1].base
    BY <1>2, <2>1
  <2> QED BY <2>2, <2>3 DEF Above
<1> QED BY <1>2, <1>4, <1>5, <1>6 DEF Grows, hs

\* It makes a call.
LEMMA GrowsPush ==
  ASSUME NEW fs, IsSeq(fs), NEW n, n = Len(fs), n >= 1, NEW s, Grows(fs, s),
         NEW h, Above(fs[n], h), Raised(h) => Even(s, h.base)
  PROVE  Grows(Append(fs, h), s)
<1> DEFINE hs == Append(fs, h)
<1>1. n \in Nat /\ n \in 1..n
  BY SeqLen
<1>2. Len(hs) = n + 1 /\ hs[n + 1] = h /\ (\A i \in 1..n : hs[i] = fs[i])
  BY <1>1, AppendSeq
<1>3. fs[1].fn # "mask" /\ Rising(s)
  <2>1. fs # << >>
    BY <1>1, SeqLen
  <2> QED BY <2>1 DEF Grows
<1> HIDE DEF hs
<1>4. hs[1].fn # "mask"
  <2>1. 1 \in 1..n
    BY <1>1
  <2> QED BY <1>2, <1>3, <2>1
<1>5. ASSUME NEW i \in 1..n + 1, Raised(hs[i])
      PROVE  Even(s, hs[i].base)
  <2>1. i = n + 1 \/ i \in 1..n
    BY <1>1
  <2>2. CASE i = n + 1
    BY <1>2, <1>5, <2>2
  <2>3. CASE i \in 1..n
    <3>1. hs[i] = fs[i]
      BY <1>2, <2>3
    <3> QED BY <1>5, <2>3, <3>1 DEF Grows
  <2> QED BY <2>1, <2>2, <2>3
<1>6. ASSUME NEW i \in 1..n
      PROVE  Above(hs[i], hs[i + 1])
  <2>1. i = n \/ (i \in 1..n - 1 /\ i + 1 \in 1..n)
    BY <1>1
  <2>2. CASE i = n
    BY <1>2, <2>2
  <2>3. CASE i \in 1..n - 1 /\ i + 1 \in 1..n
    <3>1. hs[i] = fs[i] /\ hs[i + 1] = fs[i + 1]
      BY <1>2, <2>3
    <3> QED BY <2>3, <3>1 DEF Grows
  <2> QED BY <2>1, <2>2, <2>3
<1>7. (n + 1) - 1 = n
  BY <1>1
<1> QED BY <1>2, <1>3, <1>4, <1>5, <1>6, <1>7 DEF Grows, hs

\* It is done.
LEMMA GrowsFront ==
  ASSUME NEW fs, IsSeq(fs), fs # << >>, NEW s, Grows(fs, s)
  PROVE  Grows(Front(fs), s)
<1> DEFINE hs == Front(fs)
           n == Len(fs)
<1>1. n \in Nat /\ n >= 1
  BY SeqLen
<1>2. Len(hs) = n - 1 /\ (\A i \in 1..n - 1 : hs[i] = fs[i]) /\ IsSeq(hs)
  BY FrontSeq
<1>3. hs # << >> => Len(hs) # 0
  BY <1>2, SeqLen
<1> HIDE DEF hs, n
<1>4. ASSUME hs # << >>
      PROVE  hs[1].fn # "mask"
  <2>1. 1 \in 1..n - 1
    BY <1>1, <1>2, <1>3, <1>4
  <2> QED BY <1>2, <2>1 DEF Grows
<1>5. ASSUME NEW i \in 1..n - 1, Raised(hs[i])
      PROVE  Even(s, hs[i].base)
  <2>1. i \in 1..n /\ hs[i] = fs[i]
    BY <1>1, <1>2
  <2> QED BY <1>5, <2>1 DEF Grows, n
<1>6. ASSUME NEW i \in 1..(n - 1) - 1
      PROVE  Above(hs[i], hs[i + 1])
  <2>1. i \in 1..n - 1 /\ i + 1 \in 1..n - 1
    BY <1>1
  <2>2. hs[i] = fs[i] /\ hs[i + 1] = fs[i + 1] /\ Above(fs[i], fs[i + 1])
    BY <1>2, <2>1 DEF Grows, n
  <2> QED BY <2>2
<1>7. Rising(s)
  BY DEF Grows
<1> QED BY <1>2, <1>4, <1>5, <1>6, <1>7 DEF Grows, hs

\* fz_catch leaves nothing to enter.
LEMMA CaughtLow ==
  ASSUME NEW f, Shaped(f), NEW e, NEW g, g = Caught(f, e)
  PROVE  g.fn = f.fn /\ g.base = f.base /\ ~Raised(g)
<1>1. IsRec(f)
  BY DEF Shaped, IsFrame, IsRec
<1>2. /\ g.fn = f.fn /\ g.base = f.base /\ g.todo = f.onErr
      /\ f.fn = "pattern" => g.onErr = << >>
  <2>1. Kin(f, g) /\ g.todo = f.onErr /\ (f.fn \notin {"stream", "mask"} => g.onErr = << >>)
    BY <1>1, CaughtFields
  <2> QED BY <2>1 DEF Kin
<1>3. ASSUME f.fn = "form"
      PROVE  ~Entering(g)
  <2>1. f.onErr \in {FormEnd(f.form), << >>}
    BY <1>3, Zenon DEF Shaped, IsForm
  <2>2. FormEnd(f.form)[1][1] = "always"
    BY EndNext
  <2>3. g.todo # << >> => g.todo[1][1] = "always"
    BY <1>2, <2>1, <2>2
  <2>4. Entering(g) => g.todo # << >> /\ g.todo[1][1] \in {"softmask", "open", "reset", "clip"}
    BY StepNames DEF Entering
  <2> QED BY <2>3, <2>4
<1> QED BY <1>2, <1>3 DEF Raised

LEMMA GrowsUnwound ==
  ASSUME NEW fs, IsSeq(fs), \A i \in 1..Len(fs) : Shaped(fs[i]), NEW s, Grows(fs, s),
         NEW e, NEW us, us = Unwound(fs, e)
  PROVE  Grows(us, s)
<1>1. CASE us = << >>
  <2>1. Len(us) = 0
    BY <1>1
  <2> QED BY <1>1, <2>1 DEF Grows
<1>2. ASSUME NEW k \in 1..Len(fs), Len(us) = k, us[k] = Caught(fs[k], e),
             \A i \in 1..k - 1 : us[i] = fs[i]
      PROVE  Grows(us, s)
  <2>1. Len(fs) \in Nat /\ k \in Nat /\ k >= 1 /\ k <= Len(fs)
    BY SeqLen
  <2>2. us[k].fn = fs[k].fn /\ us[k].base = fs[k].base /\ ~Raised(us[k])
    BY <1>2, CaughtLow
  <2>3. fs[1].fn # "mask"
    <3>1. fs # << >>
      BY <2>1, SeqLen
    <3> QED BY <3>1 DEF Grows
  <2>4. us[1].fn # "mask"
    <3>1. k = 1 \/ 1 \in 1..k - 1
      BY <2>1
    <3> QED BY <1>2, <2>2, <2>3, <3>1
  <2>5. ASSUME NEW i \in 1..k, Raised(us[i])
        PROVE  Even(s, us[i].base)
    <3>1. i # k
      BY <2>2, <2>5
    <3>2. i \in 1..k - 1 /\ i \in 1..Len(fs)
      BY <2>1, <3>1
    <3>3. us[i] = fs[i]
      BY <1>2, <3>2
    <3> QED BY <2>5, <3>2, <3>3 DEF Grows
  <2>6. ASSUME NEW i \in 1..k - 1
        PROVE  Above(us[i], us[i + 1])
    <3>1. i \in 1..Len(fs) - 1 /\ (i + 1 = k \/ i + 1 \in 1..k - 1)
      BY <2>1
    <3>2. us[i] = fs[i] /\ Above(fs[i], fs[i + 1])
      BY <1>2, <3>1 DEF Grows
    <3>3. us[i + 1].fn = fs[i + 1].fn /\ us[i + 1].base = fs[i + 1].base
      BY <1>2, <2>2, <3>1
    <3> QED BY <3>2, <3>3 DEF Above
  <2>7. Rising(s)
    BY DEF Grows
  <2> QED BY <1>2, <2>4, <2>5, <2>6, <2>7 DEF Grows
<1>3. us = << >> \/ \E k \in 1..Len(fs) : /\ Len(us) = k /\ us[k] = Caught(fs[k], e)
                                          /\ \A i \in 1..k - 1 : us[i] = fs[i]
  BY UnwoundIs
<1> QED BY <1>1, <1>2, <1>3

-----------------------------------------------------------------------------
(* The invariant, with a step of the innermost call                        *)

NInv == Patient => Nests(calls, gs, dev, lost)

\* From the device d to d2, with the state s current when the innermost call is where it is,
\* its first step is done.
Done(s, d2) ==
  \A w \in Seq(Kinds), v \in Seq(Kinds), x \in Nat :
    LET b == s[Here.base].blend
        e == ClipsOf(s, Len(s)) - ClipsOf(s, Here.base)
    IN  /\ Turns(Here.fn, Here.soft, b, Here.todo[1], w, v) /\ Bears(Here, b, w)
        /\ Top(dev, x, w, e) /\ ClipsOf(s, Len(s)) \in Nat
        => Top(d2, x, v, e) /\ Keeps(dev, d2, x)
\* the innermost call as it will be after that
Advances(g) ==
  /\ g.fn = Here.fn /\ g.base = Here.base /\ g.soft = Here.soft
  /\ g.todo = Tail(Here.todo) /\ g.onErr \in {Here.onErr, << >>}
LEMMA GoesIs ==
  ASSUME NEW g
  PROVE  Goes(g) = Replaced(calls, Len(calls), g)
BY DEF Goes, Replaced
LEMMA HereIn ==
  ASSUME LInv, calls # << >>
  PROVE  /\ IsSeq(calls) /\ Len(calls) \in Nat /\ Len(calls) >= 1 /\ Len(calls) \in 1..Len(calls)
         /\ Here = calls[Len(calls)] /\ Shaped(Here) /\ IsRec(Here) /\ Here.base \in Nat
         /\ IsSeq(gs) /\ Len(gs) \in Nat
<1>1. /\ IsSeq(calls) /\ Len(calls) \in Nat /\ Len(calls) \in 1..Len(calls)
      /\ Shaped(Here) /\ IsRec(Here) /\ Here.base \in Nat /\ IsSeq(gs) /\ Len(gs) \in Nat
  BY ReadyLevel
<1>2. Len(calls) >= 1
  BY <1>1
<1> QED BY <1>1, <1>2 DEF Here

\* A form's next step does not take it back to before its contents, nor a pattern's.
LEMMA LowersPast ==
  ASSUME LInv, calls # << >>, Here.todo # << >>, NEW g, Advances(g)
  PROVE  Raised(g) => Raised(Here)
<1>1. Shaped(Here)
  BY HereIn
<1>2. ASSUME Here.fn = "form", Entering(g)
      PROVE  Entering(Here)
  <2>1. Tail(Here.todo) # << >>
        /\ Tail(Here.todo)[1] \in {Do("softmask"), Open("group"), Do("reset"), Do("clip")}
    BY <1>2 DEF Entering, Advances
  <2>2. Tail(Here.todo)[1][1] \in {"softmask", "open", "reset", "clip"}
    BY <2>1, StepNames
  <2>3. ASSUME NEW x, Tail(Here.todo) \in Leaving(x)
        PROVE  FALSE
    <3>1. Tail(Here.todo)[1][1] = "down" \/ Tail(Here.todo)[1][1] = "leave form"
      BY <2>3, LeavingTail, Zenon
    <3>2. Tail(Here.todo)[1][1] # "leave form"
      BY <2>2, Zenon
    <3> QED BY <2>2, <3>1, <3>2
  <2>4. ASSUME Tail(Here.todo) \in Unmarked
        PROVE  FALSE
    <3>1. Tail(Here.todo)[1][1] \in {"close", "unmask"}
      BY <2>1, <2>4, UnmarkedTail
    <3> QED BY <2>2, <3>1
  <2>5. Here.todo \in Before(Here.form) /\ Here.todo[1][1] # "always"
    <3>1. \/ /\ Here.todo[1][1] \in {"softmask", "open", "reset", "clip", "contents"}
             /\ Here.todo \in Before(Here.form)
          \/ Tail(Here.todo) \in Leaving(Here.form)
          \/ Tail(Here.todo) \in Unmarked
      BY <1>1, <1>2, FormStep, Zenon
    <3> QED BY <2>3, <2>4, <3>1
  <2>6. Tail(Here.todo) # << >> /\ InOrder(Here.todo[1], Tail(Here.todo)[1])
    <3>1. Here.todo[1] # Do("always")
      BY <2>5, StepNames
    <3> QED BY <2>5, <3>1, FormHeads
  <2>7. Here.todo[1] # Do("contents")
    <3> SUFFICES ASSUME Here.todo[1] = Do("contents")
                 PROVE  FALSE
      OBVIOUS
    <3>1. PICK a, c : a = Here.todo[1] /\ c = Tail(Here.todo)[1]
      OBVIOUS
    <3>2. c = Do("always")
      <4>1. Do("contents")[1] = "contents" /\ Do("clip")[1] = "clip" /\ Do("reset")[1] = "reset"
            /\ Open("group")[1] = "open" /\ Do("softmask")[1] = "softmask"
        BY StepNames
      <4>2. InOrder(a, c) /\ a = Do("contents")
        BY <2>6, <3>1
      <4> QED BY <4>1, <4>2 DEF InOrder
    <3>3. c[1] = "always"
      BY <3>2, StepNames
    <3> QED BY <2>2, <3>1, <3>3
  <2>8. Here.todo[1] \in {Do("softmask"), Open("group"), Do("reset"), Do("clip")}
    BY <2>6, <2>7, Zenon DEF InOrder
  <2> QED BY <2>8 DEF Entering
<1> QED BY <1>2 DEF Raised, Advances

\* the same, whatever is done
Gives(s, g, d2) ==
  \A w, x :
    LET b == s[Here.base].blend
        e == ClipsOf(s, Len(s)) - ClipsOf(s, Here.base)
    IN  Bears(Here, b, w) /\ Top(dev, x, w, e) /\ ClipsOf(s, Len(s)) \in Nat
          => \E v \in Seq(Kinds) : Bears(g, b, v) /\ Top(d2, x, v, e) /\ Keeps(dev, d2, x)
LEMMA NestsGo ==
  ASSUME LInv, calls # << >>, NEW s, NEW l, Nests(calls, s, dev, l),
         NEW g, g.fn = Here.fn, g.base = Here.base, Raised(g) => Raised(Here),
         NEW d2, NEW l2, ~l2 => ~l /\ Gives(s, g, d2)
  PROVE  Nests(Goes(g), s, d2, l2)
<1>1. /\ IsSeq(calls) /\ Len(calls) \in Nat /\ Len(calls) >= 1 /\ Len(calls) \in 1..Len(calls)
      /\ Here = calls[Len(calls)] /\ Shaped(Here)
  BY HereIn
<1>3. Grows(calls, s) /\ Rising(s)
  BY DEF Nests, Grows
<1>4. \A i \in 1..Len(calls) : Raised(calls[i]) => Even(s, calls[i].base)
  BY <1>3 DEF Grows
<1>5. Raised(g) => Even(s, g.base)
  <2>1. Raised(Here) => Even(s, Here.base)
    BY <1>1, <1>4
  <2> QED BY <2>1
<1>6. Grows(Goes(g), s)
  BY <1>1, <1>3, <1>4, <1>5, GrowsTop, GoesIs
<1>7. ASSUME ~l2
      PROVE  Fits(Goes(g), s, d2)
  <2> DEFINE n == Len(calls)
             b == s[Here.base].blend
             e == ClipsOf(s, Here.base)
             c == ClipsOf(s, Len(s))
  <2>1. Fits(calls, s, dev) /\ Gives(s, g, d2)
    BY <1>7 DEF Nests
  <2>2. c \in Nat /\ e \in Nat /\ e <= c
    <3>1. PICK own, X : FitsWith(calls, s, dev, own, X)
      BY <2>1 DEF Fits
    <3>2. Laid(n, ClipsAt(calls, s), own, X, dev)
      BY <3>1 DEF FitsWith
    <3>3. n \in 1..n /\ n \in 1..n + 1 /\ n + 1 \in 1..n + 1
      BY <1>1
    <3>4. ClipsAt(calls, s)[n] = e /\ ClipsAt(calls, s)[n + 1] = c
      BY <1>1, ClipsAtIs
    <3>5. PICK D : D = ClipsAt(calls, s)
      OBVIOUS
    <3>6. D[n] \in Nat /\ D[n + 1] \in Nat /\ D[n] <= D[n + 1]
      BY <3>2, <3>3, <3>5 DEF Laid
    <3> QED BY <3>4, <3>5, <3>6
  <2>3. ASSUME NEW w, NEW x, Bears(Here, b, w), Top(dev, x, w, c - e)
        PROVE  \E v : /\ Bears(g, b, v) /\ v \in Seq(Kinds)
                      /\ Top(d2, x, v, c - e) /\ Keeps(dev, d2, x)
    BY <2>1, <2>2, <2>3, Zenon DEF Gives
  <2> HIDE DEF b, e, c, n
  <2>4. /\ e = ClipsOf(s, Here.base) /\ c = ClipsOf(s, Len(s)) /\ b = s[Here.base].blend
        /\ n = Len(calls)
    BY DEF b, e, c, n
  <2>5. Fits(Replaced(calls, n, g), s, d2)
    BY <1>1, <2>1, <2>2, <2>3, <2>4, FitsTop
  <2> QED BY <2>4, <2>5, GoesIs
<1> QED BY <1>6, <1>7 DEF Nests

LEMMA NestsPast ==
  ASSUME LInv, calls # << >>, Here.todo # << >>, NEW s, NEW l, Nests(calls, s, dev, l),
         NEW g, Advances(g), NEW d2, NEW l2, ~l2 => ~l /\ Done(s, d2)
  PROVE  Nests(Goes(g), s, d2, l2)
<1>1. g.fn = Here.fn /\ g.base = Here.base
  BY DEF Advances
<1>2. ASSUME Done(s, d2)
      PROVE  Gives(s, g, d2)
  <2> SUFFICES ASSUME NEW w, NEW x, NEW b, b = s[Here.base].blend, NEW e,
                      e = ClipsOf(s, Len(s)) - ClipsOf(s, Here.base),
                      Bears(Here, b, w), Top(dev, x, w, e), ClipsOf(s, Len(s)) \in Nat
               PROVE  \E v \in Seq(Kinds) : Bears(g, b, v) /\ Top(d2, x, v, e) /\ Keeps(dev, d2, x)
    BY Zenon DEF Gives
  <2>1. PICK v \in Seq(Kinds) : Turns(Here.fn, Here.soft, b, Here.todo[1], w, v) /\ Bears(g, b, v)
    BY HereIn, BearsPast DEF Advances
  <2>2. w \in Seq(Kinds) /\ x \in Nat
    BY DEF Top
  <2>3. Top(d2, x, v, e) /\ Keeps(dev, d2, x)
    BY <1>2, <2>1, <2>2, Zenon DEF Done
  <2> QED BY <2>1, <2>3
<1> QED BY <1>1, <1>2, NestsGo, LowersPast

-----------------------------------------------------------------------------
(* Steps that leave the states alone                                       *)

\* A call that has come to a bracket of its own has no state of its own with a clip.
Flat == ClipsOf(gs, Len(gs)) = ClipsOf(gs, Here.base)
LEMMA FlatHere ==
  ASSUME LInv, Patient, Grows(calls, gs), calls # << >>, Here.todo # << >>,
         \/ Here.todo[1][1] \in {"open", "close", "unmask"}
         \/ Here.fn \notin Outer \cup {"stream", "form", "pattern", "cell"}
  PROVE  Flat
<1> DEFINE n == Len(gs)
           f == Here
           w == Here.todo[1][1]
<1>1. /\ At(f, n, csi.gbot, csi.gparent) /\ Shaped(f) /\ n \in Nat /\ f.base \in Nat
      /\ Len(calls) \in 1..Len(calls) /\ f = calls[Len(calls)] /\ csi.gbot \in Nat
  BY ReadyLevel, HereIn
<1>2. /\ WeakAt(f, f.todo, f.onErr, f.pend, n, csi.gbot)
      /\ StrongAt(f, f.todo, f.onErr, f.pend, n, csi.gbot, csi.gparent)
  BY <1>1 DEF At, LevelAt
<1>3. ASSUME n = f.base
      PROVE  Flat
  BY <1>3 DEF Flat
<1>4. ASSUME n = f.base + 1, Raised(f)
      PROVE  Flat
  <2>1. Even(gs, f.base)
    BY <1>1, <1>4 DEF Grows
  <2> QED BY <1>4, <2>1 DEF Even, Flat
<1>5. CASE f.fn \in Outer
  <2>1. f.base = 0 /\ w \in {"open", "close", "unmask"}
    BY <1>2, <1>5 DEF StrongAt, PageAt
  <2>2. ~NeedsAt(f.fn, f.todo)
    BY <1>5, <2>1 DEF NeedsAt, RunWords
  <2>3. ~(n >= 1)
    BY <1>2, <2>2 DEF WeakAt
  <2> QED BY <1>1, <1>3, <2>1, <2>3
<1>6. CASE f.fn = "stream"
  BY <1>1, <1>6, StepIn
<1>7. CASE f.fn = "form"
  <2>1. w \in {"open", "close", "unmask"}
    BY <1>7
  <2>2. CASE w = "open"
    <3>1. f.todo \in Before(f.form) /\ f.todo[1][1] = "open"
      BY <1>1, <1>7, <2>2, FormStep, Zenon
    <3>2. f.todo[1] = Open("group")
      <4>1. f.todo[1] # Do("always")
        BY <3>1, StepNames
      <4>2. InOrder(f.todo[1], Tail(f.todo)[1])
        BY <3>1, <4>1, FormHeads
      <4>3. PICK a, c : a = f.todo[1] /\ c = Tail(f.todo)[1]
        OBVIOUS
      <4>4. InOrder(a, c) /\ a[1] = "open"
        BY <3>1, <4>2, <4>3
      <4>5. Do("contents")[1] = "contents" /\ Do("clip")[1] = "clip" /\ Do("reset")[1] = "reset"
            /\ Do("softmask")[1] = "softmask"
        BY StepNames
      <4>6. a = Open("group")
        BY <4>4, <4>5 DEF InOrder
      <4> QED BY <4>3, <4>6
    <3>3. Raised(f)
      BY <1>7, <3>2 DEF Raised, Entering
    <3>4. Floor(f) <= n /\ Floor(f) = f.base + 1
      BY <1>1, <3>3, FloorAt DEF Floor
    <3>5. f.onErr = FormEnd(f.form) /\ f.todo # FormEnd(f.form)
      <4>1. f.onErr = FormEnd(f.form)
        BY <1>1, <1>7, <2>2, FormStep, Zenon
      <4>2. FormEnd(f.form)[1][1] = "always"
        BY EndNext
      <4> QED BY <2>2, <4>1, <4>2
    <3>6. f.onErr # << >>
      BY <3>5, EndNext
    <3>7. n = f.base + 1
      <4>1. FormAt(f, f.todo, f.onErr, f.pend, n, csi.gbot, csi.gparent)
        BY <1>2, <1>7 DEF StrongAt
      <4> QED BY <3>5, <3>6, <4>1 DEF FormAt
    <3> QED BY <1>4, <3>3, <3>7
  <2>3. CASE w \in {"close", "unmask"}
    <3>1. f.onErr = << >>
      BY <1>1, <1>7, <2>3, FormStep, Zenon
    <3>2. w \notin {"always", "down", "leave form"}
      BY <2>3, Zenon
    <3>3. n = f.base
      BY <1>1, <1>7, <3>1, <3>2, HeadFacts
    <3> QED BY <1>3, <3>3
  <2> QED BY <2>1, <2>2, <2>3
<1>8. CASE f.fn = "pattern"
  <2>1. w \in {"open", "close", "unmask"}
    BY <1>8
  <2>2. PatternAt(f, f.todo, f.onErr, f.pend, n, csi.gbot, csi.gparent)
    BY <1>2, <1>8 DEF StrongAt
  <2>3. f.todo \notin TileUp
    BY <2>1, UpNext
  <2>4. f.todo # <<Do("always")>> /\ f.todo # <<Do("grestore")>>
    <3>1. <<Do("always")>>[1][1] = "always" /\ <<Do("grestore")>>[1][1] = "grestore"
      BY Tuples, StepNames
    <3> QED BY <2>1, <3>1
  <2>5. f.onErr = <<Do("always")>> /\ n = f.base + 1
    BY <2>2, <2>3, <2>4, Zenon DEF PatternAt
  <2>6. Raised(f)
    BY <1>8, <2>5, Tuples DEF Raised
  <2> QED BY <1>4, <2>5, <2>6
<1>9. CASE f.fn = "cell"
  BY <1>1, <1>9, HeadFacts
<1>10. CASE f.fn = "mask"
  <2>1. n = f.base
    BY <1>2, <1>10, Zenon DEF StrongAt, MaskAt
  <2> QED BY <1>3, <2>1
<1>11. CASE f.fn \notin Outer \cup Named
  <2>1. n = f.base
    BY <1>2, <1>11 DEF StrongAt, PaintAt
  <2> QED BY <1>3, <2>1
<1> QED BY <1>5, <1>6, <1>7, <1>8, <1>9, <1>10, <1>11 DEF Named

\* Nothing is opened or closed.
LEMMA DoneQuiet ==
  ASSUME NEW s, \/ Here.todo[1][1] \in Resting
                \/ Here.todo[1][1] = "leave form" \/ Here.todo[1][1] = "clip text"
                \/ Here.todo[1][1] = "unmask" /\ Here.soft = None
  PROVE  Done(s, dev)
<1>1. ASSUME NEW w \in Seq(Kinds), NEW v \in Seq(Kinds), NEW b,
             Turns(Here.fn, Here.soft, b, Here.todo[1], w, v)
      PROVE  v = w
  <2>1. CASE Here.todo[1][1] \in Resting
    BY <1>1, <2>1, TurnsRest
  <2>2. CASE Here.todo[1][1] = "leave form" \/ Here.todo[1][1] = "clip text"
    <3>1. ASSUME Here.todo[1][1] = "leave form"
          PROVE  v = w
      <4>1. Here.todo[1][1] \notin {"open", "close", "unmask", "end blend", "end mask"}
        BY <3>1, Zenon
      <4> QED BY <1>1, <4>1, Zenon DEF Turns
    <3>2. ASSUME Here.todo[1][1] = "clip text"
          PROVE  v = w
      <4>1. Here.todo[1][1] \notin {"open", "close", "unmask", "end blend", "end mask"}
        BY <3>2, Zenon
      <4> QED BY <1>1, <4>1, Zenon DEF Turns
    <3> QED BY <2>2, <3>1, <3>2, Zenon
  <2>3. CASE Here.todo[1][1] = "unmask" /\ Here.soft = None
    <3>1. w = v \o SoftOf(Here.soft)
      BY <1>1, <2>3, TurnsWhat
    <3>2. SoftOf(Here.soft) = << >>
      BY <2>3 DEF SoftOf
    <3> QED BY <3>1, <3>2, KindSeqs
  <2> QED BY <2>1, <2>2, <2>3
<1>2. ASSUME NEW x
      PROVE  Keeps(dev, dev, x)
  BY DEF Keeps
<1> QED BY <1>1, <1>2, Zenon DEF Done

LEMMA FlatNone ==
  ASSUME Flat, ClipsOf(gs, Len(gs)) \in Nat
  PROVE  ClipsOf(gs, Len(gs)) - ClipsOf(gs, Here.base) = 0
<1>1. PICK a \in Nat, c \in Nat :
        a = ClipsOf(gs, Len(gs)) /\ c = ClipsOf(gs, Here.base) /\ a = c
  BY DEF Flat
<1> QED BY <1>1

LEMMA DoneOpen ==
  ASSUME Flat, NEW kind \in Kinds, Here.todo[1] = Open(kind), NEW d2 \in Opened(kind)
  PROVE  Done(gs, d2)
<1> SUFFICES ASSUME NEW w \in Seq(Kinds), NEW v \in Seq(Kinds), NEW x \in Nat, NEW b, NEW e,
                    e = ClipsOf(gs, Len(gs)) - ClipsOf(gs, Here.base), ClipsOf(gs, Len(gs)) \in Nat,
                    Turns(Here.fn, Here.soft, b, Here.todo[1], w, v), Top(dev, x, w, e)
             PROVE  Top(d2, x, v, e) /\ Keeps(dev, d2, x)
  BY Zenon DEF Done
<1>1. e \in Nat
  BY Zenon DEF Top
<1>2. e = 0
  BY FlatNone
<1>3. v = Append(w, kind)
  BY TurnsOpen
<1> QED BY <1>2, <1>3, TopOpens

LEMMA DoneClose ==
  ASSUME Flat, Here.todo[1][1] = "close", NEW d2, d2 = Closed(1, Here.todo[1][2])
  PROVE  Done(gs, d2)
<1> SUFFICES ASSUME NEW w \in Seq(Kinds), NEW v \in Seq(Kinds), NEW x \in Nat, NEW b, NEW e,
                    e = ClipsOf(gs, Len(gs)) - ClipsOf(gs, Here.base), ClipsOf(gs, Len(gs)) \in Nat,
                    Turns(Here.fn, Here.soft, b, Here.todo[1], w, v), Top(dev, x, w, e)
             PROVE  Top(d2, x, v, e) /\ Keeps(dev, d2, x)
  BY Zenon DEF Done
<1>1. e = 0
  BY FlatNone
<1>2. w = Append(v, Here.todo[1][2])
  BY TurnsWhat
<1>3. Top(dev, x, w, 0)
  BY <1>1
<1>4. Top(d2, x, v, 0) /\ Keeps(dev, d2, x)
  BY <1>2, <1>3, TopCloses
<1> QED BY <1>1, <1>4

LEMMA DoneMask ==
  ASSUME Flat, Here.todo[1][1] = "end mask", NEW d2, d2 = MaskedDev
  PROVE  Done(gs, d2)
<1> SUFFICES ASSUME NEW w \in Seq(Kinds), NEW v \in Seq(Kinds), NEW x \in Nat, NEW b, NEW e,
                    e = ClipsOf(gs, Len(gs)) - ClipsOf(gs, Here.base), ClipsOf(gs, Len(gs)) \in Nat,
                    Turns(Here.fn, Here.soft, b, Here.todo[1], w, v), Top(dev, x, w, e)
             PROVE  Top(d2, x, v, e) /\ Keeps(dev, d2, x)
  BY Zenon DEF Done
<1>1. e = 0
  BY FlatNone, Zenon
<1>2. w = <<"mask">> /\ v = <<"clip">>
  BY Zenon DEF Turns
<1>3. Top(dev, x, <<"mask">>, 0)
  BY <1>1, <1>2, Zenon
<1>4. Top(d2, x, <<"clip">>, 0) /\ Keeps(dev, d2, x)
  BY <1>3, TopMasks, Zenon
<1> QED BY <1>1, <1>2, <1>4, Zenon

-----------------------------------------------------------------------------
(* Exceptions that steps throw                                             *)

EndWords ==
  {Do("token"), Do("down"), Do("leave"), Do("always"), Do("grestore"), Do("free")}
FormEndWords ==
  {Do("always"), Do("down"), Do("leave form"), Close("group"), Do("unmask")}
LEMMA EndWordsAre ==
  ASSUME NEW fn
  PROVE  /\ \A z \in EndWords : Quiet(fn, z) /\ z # Do("softmask")
         /\ \A z \in FormEndWords : z # Do("softmask")
         /\ StreamSteps \in Seq(EndWords) /\ FreeSteps \in Seq(EndWords)
         /\ <<Do("always")>> \in Seq(EndWords) /\ <<Do("grestore"), Do("down")>> \in Seq(EndWords)
         /\ << >> \in Seq(EndWords) /\ << >> \in Seq(FormEndWords)
<1>1. ASSUME NEW z \in EndWords
      PROVE  Quiet(fn, z) /\ z # Do("softmask")
  <2>1. z[1] \in {"token", "down", "leave", "always", "grestore", "free"}
    BY StepNames DEF EndWords
  <2>2. z # Do("softmask")
    BY <2>1, StepNames
  <2>3. z[1] \notin {"open", "close", "unmask", "end blend", "end mask", "softmask", "clip text"}
        /\ z[1] # "clip"
    BY <2>1, Zenon
  <2> QED BY <2>2, <2>3, Zenon DEF Quiet
<1>2. ASSUME NEW z \in FormEndWords
      PROVE  z # Do("softmask")
  <2>1. z[1] \in {"always", "down", "leave form", "close", "unmask"}
    BY StepNames, Zenon DEF FormEndWords
  <2>2. z[1] # "softmask"
    BY <2>1, Zenon
  <2> QED BY <2>2, StepNames, Zenon
<1>3. /\ Do("token") \in EndWords /\ Do("down") \in EndWords /\ Do("leave") \in EndWords
      /\ Do("always") \in EndWords /\ Do("grestore") \in EndWords /\ Do("free") \in EndWords
  BY DEF EndWords
<1> DEFINE S == EndWords
<1>4. \A a, b, c \in S : <<a>> \in Seq(S) /\ <<a, b>> \in Seq(S) /\ <<a, b, c>> \in Seq(S)
  BY ThreeWords
<1> HIDE DEF S
<1>5. StreamSteps \in Seq(S)
  BY <1>3, <1>4 DEF StreamSteps, S
<1>6. FreeSteps \in Seq(S)
  BY <1>3, <1>4 DEF FreeSteps, S
<1>7. <<Do("always")>> \in Seq(S) /\ <<Do("grestore"), Do("down")>> \in Seq(S)
  BY <1>3, <1>4 DEF S
<1> QED BY <1>1, <1>2, <1>5, <1>6, <1>7, LenZero DEF S

LEMMA FormEndIn ==
  ASSUME NEW x
  PROVE  FormEnd(x) \in Seq(FormEndWords)
<1> DEFINE S == FormEndWords
<1>1. /\ Do("always") \in S /\ Do("down") \in S /\ Do("leave form") \in S
      /\ Close("group") \in S /\ Do("unmask") \in S
  BY Zenon DEF FormEndWords
<1>2. PICK a, b, c, d, e : /\ a = Do("always") /\ b = Do("down") /\ c = Do("leave form")
                           /\ d = Close("group") /\ e = Do("unmask")
  BY Zenon
<1>3. a \in S /\ b \in S /\ c \in S /\ d \in S /\ e \in S
  BY <1>1, <1>2, Zenon
<1> HIDE DEF S
<1>4. <<a, b, c>> \in Seq(S) /\ <<d, e>> \in Seq(S)
  BY <1>3, ThreeWords
<1>5. <<a, b, c>> \o <<d, e>> \in Seq(S) /\ <<a, b, c>> \o << >> \in Seq(S)
  BY <1>4, ConcatIn, LenZero
<1>6. FormEnd(x) = <<a, b, c>> \o (IF x \in Groups THEN <<d, e>> ELSE << >>)
  BY <1>2, Zenon DEF FormEnd
<1> QED BY <1>5, <1>6 DEF S

LEMMA MendsAt ==
  ASSUME NEW f, Shaped(f), NEW n \in Nat, NEW gb, NEW gp, At(f, n, gb, gp), Patient
  PROVE  Mends(f)
<1>1. /\ WeakAt(f, f.todo, f.onErr, f.pend, n, gb)
      /\ StrongAt(f, f.todo, f.onErr, f.pend, n, gb, gp)
  BY DEF At, LevelAt
<1>2. IsRec(f) /\ IsSeq(f.todo) /\ IsSeq(f.onErr)
  BY ShapedSeqs
<1>3. ASSUME f.onErr \in Seq(EndWords)
      PROVE  \A j \in 1..Len(f.onErr) : Quiet(f.fn, f.onErr[j]) /\ f.onErr[j] # Do("softmask")
  <2>1. ASSUME NEW j \in 1..Len(f.onErr) PROVE f.onErr[j] \in EndWords
    BY <1>3
  <2> QED BY <2>1, EndWordsAre
<1>4. CASE f.fn \notin {"form", "mask"}
  <2>1. f.onErr \in Seq(EndWords)
    <3>1. CASE f.fn \in Outer
      <4>1. OuterAt(f.todo, f.onErr, f.keep)
        BY <1>1, <3>1 DEF WeakAt
      <4>2. f.onErr \in {FreeSteps, << >>}
        BY <4>1 DEF OuterAt
      <4> QED BY <4>2, EndWordsAre
    <3>2. CASE f.fn = "stream"
      BY <1>1, <3>2, EndWordsAre DEF StrongAt, StreamAt
    <3>3. CASE f.fn = "pattern"
      <4>1. PatternAt(f, f.todo, f.onErr, f.pend, n, gb, gp)
        BY <1>1, <3>3 DEF StrongAt
      <4>2. f.onErr \in {<<Do("always")>>, << >>}
        BY <4>1, Zenon DEF PatternAt
      <4> QED BY <4>2, EndWordsAre
    <3>4. CASE f.fn = "cell"
      <4>1. f.onErr \in {<<Do("grestore"), Do("down")>>, << >>}
        BY <1>1, <3>4 DEF StrongAt, CellAt
      <4> QED BY <4>1, EndWordsAre
    <3>5. CASE f.fn \notin Outer \cup Named
      <4>1. f.onErr = << >>
        BY <1>1, <3>5 DEF StrongAt, PaintAt
      <4> QED BY <4>1, EndWordsAre
    <3> QED BY <1>4, <3>1, <3>2, <3>3, <3>4, <3>5 DEF Named
  <2> QED BY <1>2, <1>3, <1>4, <2>1 DEF Mends
<1>5. CASE f.fn = "form"
  <2>1. f.onErr = FormEnd(f.form) \/ f.onErr = << >>
    BY <1>5, Zenon DEF Shaped, IsForm
  <2>2. f.onErr \in Seq(FormEndWords)
    BY <2>1, FormEndIn, EndWordsAre
  <2>3. ASSUME NEW j \in 1..Len(f.onErr) PROVE f.onErr[j] # Do("softmask")
    <3>1. f.onErr[j] \in FormEndWords
      BY <2>2
    <3> QED BY <3>1, EndWordsAre
  <2> QED BY <1>2, <1>5, <2>3 DEF Mends
<1>6. CASE f.fn = "mask"
  <2>1. f.onErr = MaskEnd
    BY <1>1, <1>6, Zenon DEF StrongAt, MaskAt, MaskEnd
  <2>2. ASSUME NEW j \in 1..Len(f.onErr) PROVE f.onErr[j] # Do("softmask")
    <3>1. PICK z : z = Do("end mask")
      BY Zenon
    <3>2. f.onErr = <<z>>
      BY <2>1, <3>1, Zenon DEF MaskEnd
    <3>3. f.onErr[j] = z
      BY <2>2, <3>2
    <3>4. z # Do("softmask")
      <4>1. z[1] = "end mask" /\ Do("softmask")[1] = "softmask"
        BY <3>1, StepNames, Zenon
      <4> QED BY <4>1, Zenon
    <3> QED BY <3>3, <3>4
  <2> QED BY <1>2, <1>6, <2>1, <2>2 DEF Mends
<1> QED BY <1>4, <1>5, <1>6

LEMMA UndersAll ==
  ASSUME LInv, Patient, NEW s, Grows(calls, s)
  PROVE  /\ \A i \in 1..Len(calls) : Mends(calls[i])
         /\ \A i \in 1..Len(calls) - 1 : Under(calls[i], calls[i + 1])
<1> DEFINE L == Len(calls)
<1>1. /\ IsSeq(calls) /\ L \in Nat /\ (\A i \in 1..L : Shaped(calls[i]))
      /\ \A i \in 1..L - 1 : Waits(calls[i])
  <2>1. Stacked(calls, Len(gs), csi.gbot, marked)
    BY DEF LInv, IInv
  <2> QED BY <2>1, SeqLen DEF Stacked
<1>2. Levelled(calls, Len(gs), csi.gbot, csi.gparent) /\ Len(gs) \in Nat
  <2>1. IsSeq(gs)
    BY DEF LInv, IInv
  <2> QED BY <2>1, SeqLen DEF LInv, Levels
<1>3. ASSUME NEW i \in 1..L
      PROVE  Mends(calls[i])
  <2>1. CASE i = L
    <3>1. calls # << >>
      BY <1>1, SeqLen
    <3>2. At(calls[i], Len(gs), csi.gbot, csi.gparent)
      BY <1>2, <2>1, <3>1 DEF Levelled
    <3> QED BY <1>1, <1>2, <3>2, MendsAt
  <2>2. CASE i # L
    <3>1. i \in 1..L - 1 /\ i + 1 \in 1..L
      BY <1>1, <2>2
    <3>2. At(calls[i], calls[i + 1].base, calls[i + 1].gbot, calls[i + 1].gparent)
      BY <1>2, <3>1 DEF Levelled
    <3>3. calls[i + 1].base \in Nat
      BY <1>1, <3>1 DEF Shaped, IsFrame
    <3> QED BY <1>1, <3>2, <3>3, MendsAt
  <2> QED BY <2>1, <2>2
<1>4. ASSUME NEW i \in 1..L - 1
      PROVE  Under(calls[i], calls[i + 1])
  <2> DEFINE f == calls[i]
             g == calls[i + 1]
  <2>1. Waits(f) /\ Between(f, g) /\ Above(f, g)
    BY <1>1, <1>2 DEF Levelled, Grows
  <2> HIDE DEF f, g
  <2>2. f.fn = "mask" => f.todo = MaskEnd /\ g.fn = "form"
    BY <2>1 DEF Between, Above
  <2>3. f.fn = "form" => f.onErr # << >>
    BY <2>1, FormEndIs DEF Waits
  <2>4. f.fn = "form" => (Opening(f) <=> g.fn = "mask")
    BY <2>1 DEF Above, IsPaint, Named
  <2> QED BY <2>2, <2>3, <2>4 DEF Under, f, g
<1> QED BY <1>3, <1>4

\* what throws when it is innermost
Throwable(g, e) ==
  /\ g.fn = "mask" => g.todo = MaskEnd
  /\ g.fn = "form" /\ e = "later" => g.onErr # << >>
LEMMA UndersTop ==
  ASSUME LInv, Patient, NEW s, Grows(calls, s), calls # << >>,
         NEW g, IsRec(g), g.fn = Here.fn, g.onErr = Here.onErr, IsSeq(g.todo),
         NEW e, Throwable(g, e)
  PROVE  Unders(Goes(g), e)
<1> DEFINE L == Len(calls)
           hs == Goes(g)
<1>1. /\ L \in Nat /\ L \in 1..L /\ Here = calls[L]
      /\ Len(hs) = L /\ hs[L] = g /\ (\A i \in 1..L : i # L => hs[i] = calls[i])
  BY HereIn, GoesSeq
<1>2. /\ \A i \in 1..L : Mends(calls[i])
      /\ \A i \in 1..L - 1 : Under(calls[i], calls[i + 1])
  BY UndersAll
<1> HIDE DEF hs
<1>3. Mends(g)
  <2>1. Mends(Here)
    BY <1>1, <1>2
  <2> QED BY <2>1 DEF Mends
<1>4. \A i \in 1..L : Mends(hs[i])
  BY <1>1, <1>2, <1>3
<1>5. ASSUME NEW i \in 1..L - 1
      PROVE  Under(hs[i], hs[i + 1])
  <2>1. i \in 1..L /\ i # L /\ i + 1 \in 1..L
    BY <1>1
  <2>2. hs[i] = calls[i] /\ Under(calls[i], calls[i + 1])
    BY <1>1, <1>2, <2>1
  <2>3. hs[i + 1].fn = calls[i + 1].fn
    BY <1>1, <2>1
  <2> QED BY <2>2, <2>3 DEF Under
<1>6. hs[1].fn # "mask"
  <2>1. calls[1].fn # "mask" /\ 1 \in 1..L
    BY <1>1 DEF Grows
  <2> QED BY <1>1, <2>1
<1> QED BY <1>1, <1>4, <1>5, <1>6 DEF Unders, Throwable, hs

LEMMA UndersFront ==
  ASSUME LInv, Patient, NEW s, Grows(calls, s), calls # << >>, NEW e
  PROVE  Unders(Front(calls), e)
<1> DEFINE L == Len(calls)
           hs == Front(calls)
<1>1. /\ L \in Nat /\ L \in 1..L
      /\ Len(hs) = L - 1 /\ (\A i \in 1..L - 1 : hs[i] = calls[i])
  BY HereIn, FrontSeq
<1>2. /\ \A i \in 1..L : Mends(calls[i])
      /\ \A i \in 1..L - 1 : Under(calls[i], calls[i + 1])
  BY UndersAll
<1>3. hs # << >> => L - 1 \in 1..L - 1
  <2>1. IsSeq(hs)
    BY HereIn, FrontSeq
  <2> QED BY <1>1, <2>1, SeqLen
<1> HIDE DEF hs
<1>4. ASSUME NEW i \in 1..L - 1 PROVE Mends(hs[i])
  <2>1. i \in 1..L
    BY <1>1
  <2> QED BY <1>1, <1>2, <2>1
<1>5. ASSUME NEW i \in 1..(L - 1) - 1
      PROVE  Under(hs[i], hs[i + 1])
  <2>1. i \in 1..L - 1 /\ i + 1 \in 1..L - 1
    BY <1>1
  <2> QED BY <1>1, <1>2, <2>1
<1>6. ASSUME hs # << >>
      PROVE  /\ hs[1].fn # "mask"
             /\ hs[L - 1].fn = "mask" => hs[L - 1].todo = MaskEnd
             /\ hs[L - 1].fn = "form" => hs[L - 1].onErr # << >>
  <2>1. L - 1 \in 1..L - 1 /\ 1 \in 1..L - 1
    BY <1>1, <1>3, <1>6
  <2>2. Under(calls[L - 1], calls[(L - 1) + 1])
    BY <1>2, <2>1
  <2>3. calls[1].fn # "mask"
    BY DEF Grows
  <2> QED BY <1>1, <2>1, <2>2, <2>3 DEF Under
<1> QED BY <1>1, <1>4, <1>5, <1>6 DEF Unders, hs

LEMMA NestsThrow ==
  ASSUME NEW fs, IsSeq(fs), \A i \in 1..Len(fs) : Shaped(fs[i]), NEW d, Nests(fs, gs, d, lost),
         NEW e, Unders(fs, e), Throw(fs, e)
  PROVE  Nests(calls', gs, d, lost')
<1>1. calls' = Unwound(fs, e) /\ lost' = (lost \/ Owes(fs) # Owes(Unwound(fs, e)))
  BY DEF Throw
<1>2. Grows(calls', gs)
  BY <1>1, GrowsUnwound DEF Nests
<1>3. ASSUME ~lost'
      PROVE  Fits(calls', gs, d)
  <2>1. ~lost /\ Owes(fs) = Owes(Unwound(fs, e))
    BY <1>1, <1>3, Zenon
  <2>2. Fits(fs, gs, d)
    BY <2>1 DEF Nests
  <2> QED BY <1>1, <2>1, <2>2, FitsUnwind
<1> QED BY <1>2, <1>3 DEF Nests

LEMMA NestsThrowTop ==
  ASSUME LInv, Patient, calls # << >>, NEW s, Grows(calls, s), NEW g, Shaped(g), g.fn = Here.fn,
         g.onErr = Here.onErr, NEW e, Throwable(g, e), NEW d, Nests(Goes(g), gs, d, lost),
         Throw(Goes(g), e)
  PROVE  Nests(calls', gs, d, lost')
<1>1. IsRec(g) /\ IsSeq(g.todo)
  BY ShapedSeqs
<1>2. Unders(Goes(g), e)
  BY <1>1, UndersTop
<1>3. IsSeq(Goes(g)) /\ \A i \in 1..Len(Goes(g)) : Shaped(Goes(g)[i])
  <2>1. /\ IsSeq(Goes(g)) /\ Len(Goes(g)) = Len(calls) /\ Goes(g)[Len(calls)] = g
        /\ \A i \in 1..Len(calls) : i # Len(calls) => Goes(g)[i] = calls[i]
    BY GoesSeq
  <2>2. \A i \in 1..Len(calls) : Shaped(calls[i])
    BY DEF LInv, IInv, Stacked
  <2> QED BY <2>1, <2>2
<1> QED BY <1>2, <1>3, NestsThrow

LEMMA ThrowableAt ==
  ASSUME LInv, Patient, calls # << >>, Here.todo # << >>,
         Here.todo[1][1] \notin {"open", "form", "end mask"},
         NEW e, e = "later" => Here.todo[1][1] = "contents",
         NEW g, g.fn = Here.fn, g.onErr = Here.onErr
  PROVE  Throwable(g, e)
<1>1. /\ At(Here, Len(gs), csi.gbot, csi.gparent) /\ Shaped(Here) /\ Len(gs) \in Nat
  BY ReadyLevel
<1>2. Here.fn # "mask"
  <2>1. Here.fn = "mask" => Here.todo[1][1] \in {"open", "form", "end mask"}
    BY <1>1, HeadFacts, Zenon
  <2> QED BY <2>1, Zenon
<1>3. ASSUME Here.fn = "form", e = "later"
      PROVE  Here.onErr # << >>
  <2>1. Here.todo[1][1] = "contents"
    BY <1>3
  <2>2. \/ Here.onErr = FormEnd(Here.form)
        \/ Here.todo[1][1] = "always" \/ Here.todo[1][1] = "down" \/ Here.todo[1][1] = "leave form"
        \/ Here.todo[1][1] \in {"close", "unmask"}
    BY <1>1, <1>3, FormStep, Zenon
  <2>3. Here.onErr = FormEnd(Here.form)
    BY <2>1, <2>2, Zenon
  <2> QED BY <2>3, FormEndIs
<1> QED BY <1>2, <1>3 DEF Throwable

LEMMA NInvIs ==
  ASSUME NInv, Patient
  PROVE  Nests(calls, gs, dev, lost) /\ Grows(calls, gs) /\ Rising(gs)
BY DEF NInv, Nests, Grows

LEMMA ReturnNests ==
  ASSUME LInv, NInv, Patient, Return
  PROVE  Nests(calls', gs', dev', lost')
<1>1. calls # << >> /\ Here.todo = << >> /\ gs' = gs /\ dev' = dev
      /\ IF Here.pend = "none" THEN calls' = Front(calls) /\ UNCHANGED lost
         ELSE Throw(Front(calls), Here.pend)
  BY DEF Return
<1>2. Nests(calls, gs, dev, lost) /\ Grows(calls, gs)
  BY NInvIs
<1>3. /\ IsSeq(calls) /\ Len(calls) \in Nat /\ Len(calls) >= 1 /\ Here = calls[Len(calls)]
  BY <1>1, HereIn
<1>4. Nests(Front(calls), gs, dev, lost)
  <2>1. calls[1].fn # "mask"
    BY <1>1, <1>2 DEF Grows
  <2>2. Fits(calls, gs, dev) => Fits(Front(calls), gs, dev)
    BY <1>1, <1>3, <2>1, FitsReturn
  <2> QED BY <1>1, <1>2, <1>3, <2>2, GrowsFront DEF Nests
<1>5. CASE Here.pend = "none"
  BY <1>1, <1>4, <1>5
<1>6. CASE Here.pend # "none"
  <2>1. Throw(Front(calls), Here.pend)
    BY <1>1, <1>6
  <2>2. IsSeq(Front(calls)) /\ \A i \in 1..Len(Front(calls)) : Shaped(Front(calls)[i])
    <3>1. /\ IsSeq(Front(calls)) /\ Len(Front(calls)) = Len(calls) - 1
          /\ \A i \in 1..Len(calls) - 1 : Front(calls)[i] = calls[i]
      BY <1>1, <1>3, FrontSeq
    <3>2. \A i \in 1..Len(calls) : Shaped(calls[i])
      BY DEF LInv, IInv, Stacked
    <3>3. \A i \in 1..Len(calls) - 1 : i \in 1..Len(calls)
      BY <1>3
    <3> QED BY <3>1, <3>2, <3>3
  <2>3. Nests(calls', gs, dev, lost')
    BY <1>1, <1>2, <1>4, <2>1, <2>2, UndersFront, NestsThrow
  <2> QED BY <1>1, <2>3
<1> QED BY <1>5, <1>6

-----------------------------------------------------------------------------
(* The steps of the device                                                 *)

LEMMA OpenKind ==
  ASSUME NEW f, Shaped(f), f.todo # << >>, f.todo[1][1] = "open"
  PROVE  f.todo[1][2] \in Kinds /\ f.todo[1] = Open(f.todo[1][2])
<1> DEFINE z == f.todo[1]
<1>1. z \in OuterSteps \cup StreamWords \cup FormWords \cup InnerSteps
  BY StepIn, Zenon DEF StepsOf
<1>2. z \in {Open("clip"), Open("group"), Open("tile"), Open("mask")}
  <2>1. ASSUME NEW a, z = Do(a)
        PROVE  a = "open"
    BY <2>1, StepNames
  <2>2. ASSUME NEW a, z = Close(a)
        PROVE  FALSE
    BY <2>2, StepNames
  <2> HIDE DEF z
  <2> QED BY <1>1, <2>1, <2>2, Zenon DEF OuterSteps, StreamWords, FormWords, InnerSteps
<1>3. \A k : Open(k)[2] = k
  BY DEF Open
<1> QED BY <1>2, <1>3 DEF Kinds

LEMMA PastAdvances ==
  ASSUME LInv, calls # << >>, Here.todo # << >>
  PROVE  /\ Past = Goes(Shorter(Here)) /\ Advances(Shorter(Here))
         /\ Shorter(Here).fn = Here.fn /\ Shorter(Here).onErr = Here.onErr
         /\ (Here.fn = "form" => Here.todo[1][1] \notin {"always", "leave form"})
            => Shaped(Shorter(Here))
<1>1. LET g == Shorter(Here)
      IN  /\ Past = Goes(g) /\ Kin(Here, g) /\ g.todo = Tail(Here.todo)
          /\ g.onErr = Here.onErr /\ g.soft = Here.soft
  BY PastGoes
<1>2. PICK g : g = Shorter(Here)
  OBVIOUS
<1>3. Kin(Here, g) /\ g.todo = Tail(Here.todo) /\ g.onErr = Here.onErr /\ g.soft = Here.soft
  BY <1>1, <1>2, Zenon
<1>4. Advances(g) /\ g.fn = Here.fn /\ g.onErr = Here.onErr
  BY <1>3 DEF Advances, Kin
<1>5. (Here.fn = "form" => Here.todo[1][1] \notin {"always", "leave form"}) => Shaped(Shorter(Here))
  BY HereIn, ShorterHere, Zenon
<1> QED BY <1>1, <1>2, <1>4, <1>5, Zenon

\* A step that leaves the states alone, and goes on.
LEMMA PastNests ==
  ASSUME LInv, NInv, Patient, calls # << >>, Here.todo # << >>, gs' = gs, calls' = Past,
         Done(gs, dev'), ~lost' => ~lost
  PROVE  Nests(calls', gs', dev', lost')
<1>1. PICK g : g = Shorter(Here)
  OBVIOUS
<1>2. Past = Goes(g) /\ Advances(g)
  BY <1>1, PastAdvances, Zenon
<1>3. Nests(Goes(g), gs, dev', lost')
  BY <1>2, NInvIs, NestsPast
<1> QED BY <1>2, <1>3

LEMMA QuietNests ==
  ASSUME LInv, NInv, Patient, Leave \/ EndOfStream
  PROVE  Nests(calls', gs', dev', lost')
<1>1. /\ calls # << >> /\ Here.todo # << >> /\ Here.todo[1][1] \in {"leave", "token"}
      /\ gs' = gs /\ calls' = Past /\ dev' = dev /\ lost' = lost
  BY NextGoes DEF Leave, EndOfStream
<1>2. Done(gs, dev')
  BY <1>1, DoneQuiet DEF Resting
<1> QED BY <1>1, <1>2, PastNests

LEMMA AlwaysNests ==
  ASSUME LInv, NInv, Patient, Always
  PROVE  Nests(calls', gs', dev', lost')
<1>1. /\ calls # << >> /\ Here.todo # << >> /\ Here.todo[1][1] = "always" /\ gs' = gs
      /\ dev' = dev /\ lost' = lost
  BY NextGoes DEF Always
<1>2. PICK o, t : o = << >> /\ t = Tail(Here.todo)
  OBVIOUS
<1>3. PICK g : g = WithTodo(WithOnErr(Here, o), t)
  OBVIOUS
<1>4. calls' = Goes(g)
  BY <1>2, <1>3 DEF Always, WithTodo, WithOnErr
<1>5. Advances(g)
  <2> DEFINE f == Here
  <2>1. IsRec(f)
    BY <1>1, HereIn
  <2> HIDE DEF f
  <2>2. g = WithTodo(WithOnErr(f, o), t)
    BY <1>3 DEF f
  <2>3. Kin(f, g) /\ g.todo = t /\ g.onErr = o /\ g.soft = f.soft
    BY <2>1, <2>2, StepFields
  <2> QED BY <1>2, <2>3 DEF Advances, Kin, f
<1>6. Done(gs, dev')
  BY <1>1, DoneQuiet DEF Resting
<1>7. Nests(Goes(g), gs, dev', lost')
  BY <1>1, <1>5, <1>6, NInvIs, NestsPast
<1> QED BY <1>1, <1>4, <1>7

LEMMA OpenNests ==
  ASSUME LInv, NInv, Patient, OpenBracket
  PROVE  Nests(calls', gs', dev', lost')
<1>1. /\ calls # << >> /\ Here.todo # << >> /\ Here.todo[1][1] = "open" /\ gs' = gs
      /\ calls' = Past /\ dev' \in Opened(Here.todo[1][2]) /\ lost' = lost
  BY NextGoes DEF OpenBracket
<1>2. Here.todo[1][2] \in Kinds /\ Here.todo[1] = Open(Here.todo[1][2])
  BY <1>1, HereIn, OpenKind
<1>3. Flat
  BY <1>1, NInvIs, FlatHere
<1>4. Done(gs, dev')
  BY <1>1, <1>2, <1>3, DoneOpen
<1> QED BY <1>1, <1>4, PastNests

LEMMA EndMaskNests ==
  ASSUME LInv, NInv, Patient, EndMask
  PROVE  Nests(calls', gs', dev', lost')
<1>1. /\ calls # << >> /\ Here.todo # << >> /\ Here.todo[1][1] = "end mask"
  BY NextGoes, Zenon DEF EndMask
<1>2. gs' = gs /\ calls' = Past /\ dev' = MaskedDev /\ lost' = lost
  BY Zenon DEF EndMask, MaskedDev
<1>3. /\ At(Here, Len(gs), csi.gbot, csi.gparent) /\ Shaped(Here) /\ Len(gs) \in Nat
  BY <1>1, ReadyLevel
<1>4. Here.fn \notin Outer \cup {"stream", "form"}
  <2>1. Here.todo[1][1] \in {"gsave", "grestore", "draw", "pattern", "cell", "form",
                             "end mask", "end blend", "clip text"}
    BY <1>1, Zenon
  <2> QED BY <1>1, <1>3, <2>1, StepIn, Zenon
<1>5. Here.fn # "cell"
  <2>1. Here.fn = "cell" => Here.todo[1][1] \in {"gsave", "contents", "grestore", "down"}
    BY <1>1, <1>3, HeadFacts, Zenon
  <2>2. Here.todo[1][1] \notin {"gsave", "contents", "grestore", "down"}
    BY <1>1, Zenon
  <2> QED BY <2>1, <2>2, Zenon
<1>6. Here.fn # "pattern"
  <2> SUFFICES ASSUME Here.fn = "pattern"
               PROVE  FALSE
    BY Zenon
  <2> DEFINE t == Here.todo
  <2>1. PatternAt(Here, t, Here.onErr, Here.pend, Len(gs), csi.gbot, csi.gparent)
    BY <1>3 DEF At, LevelAt, StrongAt
  <2>2. t \in TileUp \/ t \in TileFlat \/ t = <<Do("always")>> \/ t = <<Do("grestore")>>
    BY <1>1, <2>1, Zenon DEF PatternAt
  <2> HIDE DEF t
  <2>3. t[1][1] \in {"contents", "grestore", "open", "down", "close", "cell", "gsave", "always"}
    <3>1. <<Do("always")>>[1][1] = "always" /\ <<Do("grestore")>>[1][1] = "grestore"
      BY Tuples, StepNames
    <3> QED BY <2>2, <3>1, UpNext, FlatNext
  <2>4. t[1][1] \notin {"contents", "grestore", "open", "down", "close", "cell", "gsave", "always"}
    BY <1>1, Zenon DEF t
  <2> QED BY <2>3, <2>4, Zenon
<1>7. Here.fn \notin Outer \cup {"stream", "form", "pattern", "cell"}
  BY <1>4, <1>5, <1>6
<1>8. Flat
  BY <1>1, <1>7, NInvIs, FlatHere, Zenon
<1>9. Done(gs, dev')
  BY <1>1, <1>2, <1>8, DoneMask, Zenon
<1> QED BY <1>1, <1>2, <1>9, PastNests, Zenon

\* at a step that may throw
Throwing == Here.todo[1][1] \notin {"open", "form", "end mask", "always", "leave form"}
LEMMA ThrowPastNests ==
  ASSUME LInv, NInv, Patient, calls # << >>, Here.todo # << >>, gs' = gs, Done(gs, dev'),
         Throwing, NEW e, e = "later" => Here.todo[1][1] = "contents", Throw(Past, e)
  PROVE  Nests(calls', gs', dev', lost')
<1>1. PICK g : g = Shorter(Here)
  OBVIOUS
<1>2. Past = Goes(g) /\ Advances(g) /\ g.fn = Here.fn /\ g.onErr = Here.onErr
  BY <1>1, PastAdvances, Zenon
<1>3. Shaped(g)
  <2>1. Here.todo[1][1] \notin {"always", "leave form"}
    BY Zenon DEF Throwing
  <2> QED BY <1>1, <2>1, PastAdvances, Zenon
<1>4. Nests(Goes(g), gs, dev', lost)
  BY <1>2, NInvIs, NestsPast
<1>5. Throwable(g, e)
  <2>1. Here.todo[1][1] \notin {"open", "form", "end mask"}
    BY Zenon DEF Throwing
  <2> QED BY <1>2, <2>1, ThrowableAt, Zenon
<1>6. Throw(Goes(g), e)
  BY <1>2
<1>7. Nests(calls', gs, dev', lost')
  BY <1>2, <1>3, <1>4, <1>5, <1>6, NInvIs, NestsThrowTop
<1> QED BY <1>7

LEMMA CloseNests ==
  ASSUME LInv, NInv, Patient, CloseBracket
  PROVE  Nests(calls', gs', dev', lost')
<1>1. /\ calls # << >> /\ Here.todo # << >> /\ Here.todo[1][1] = "close" /\ gs' = gs
      /\ dev' = Closed(1, Here.todo[1][2])
      /\ IF dev.err = 1 THEN Throw(Past, "bad") ELSE calls' = Past /\ UNCHANGED lost
  BY NextGoes DEF CloseBracket
<1>2. Flat
  BY <1>1, NInvIs, FlatHere
<1>3. Done(gs, dev')
  BY <1>1, <1>2, DoneClose
<1>4. CASE dev.err # 1
  BY <1>1, <1>3, <1>4, PastNests
<1>5. CASE dev.err = 1
  <2>1. Throwing
    BY <1>1, Zenon DEF Throwing
  <2>2. Throw(Past, "bad")
    BY <1>1, <1>5
  <2> QED BY <1>1, <1>3, <2>1, <2>2, ThrowPastNests, Zenon
<1> QED BY <1>4, <1>5

LEMMA DrawNests ==
  ASSUME LInv, NInv, Patient, Draw
  PROVE  Nests(calls', gs', dev', lost')
<1>1. /\ calls # << >> /\ Here.todo # << >> /\ Here.todo[1][1] = "draw" /\ gs' = gs
      /\ dev' = dev /\ ((calls' = Past /\ UNCHANGED lost) \/ Throw(Past, "bad"))
  BY NextGoes DEF Draw
<1>2. Done(gs, dev')
  BY <1>1, DoneQuiet DEF Resting
<1>3. CASE calls' = Past /\ UNCHANGED lost
  BY <1>1, <1>2, <1>3, PastNests
<1>4. CASE Throw(Past, "bad")
  <2>1. Throwing
    BY <1>1, Zenon DEF Throwing
  <2> QED BY <1>1, <1>2, <1>4, <2>1, ThrowPastNests, Zenon
<1> QED BY <1>1, <1>3, <1>4

LEMMA LaterNests ==
  ASSUME LInv, NInv, Patient, Later
  PROVE  Nests(calls', gs', dev', lost')
<1>1. Next1("token") /\ Throw(calls, "later") /\ gs' = gs /\ dev' = dev
  BY DEF Later, Reads
<1>2. calls # << >> /\ Here.todo # << >> /\ Here.todo[1][1] = "token"
  BY <1>1, NextGoes
<1>3. Shaped(Here) /\ Here.fn = "stream"
  BY <1>2, HereIn, StepIn
<1>4. Throwable(Here, "later")
  BY <1>3 DEF Throwable
<1>5. Goes(Here) = calls
  BY <1>2, GoesHere
<1>6. Nests(calls', gs, dev, lost')
  BY <1>1, <1>2, <1>3, <1>4, <1>5, NInvIs, NestsThrowTop
<1> QED BY <1>1, <1>6

-----------------------------------------------------------------------------
(* Steps that change states, but no clips                                  *)

\* the fields of a state, when one of them is another
LEMMA StateFields ==
  ASSUME NEW s, NEW i, IsState(s, i), NEW v
  PROVE  /\ [s EXCEPT !.soft = v].clips = s.clips /\ [s EXCEPT !.soft = v].blend = s.blend
         /\ [s EXCEPT !.fill = v].clips = s.clips /\ [s EXCEPT !.fill = v].blend = s.blend
         /\ [s EXCEPT !.from = v].clips = s.clips /\ [s EXCEPT !.from = v].blend = s.blend
         /\ [s EXCEPT !.blend = v].clips = s.clips
         /\ [s EXCEPT !.clips = v].clips = v /\ [s EXCEPT !.clips = v].blend = s.blend
<1>1. s = StateOf(s.clips, s.soft, s.blend, s.fill, s.from)
  BY DEF IsState, StateOf
<1>2. PICK c, m, b, k, fr : /\ c = s.clips /\ m = s.soft /\ b = s.blend /\ k = s.fill
                            /\ fr = s.from
  OBVIOUS
<1>3. s = StateOf(c, m, b, k, fr)
  BY <1>1, <1>2
<1>4. /\ [StateOf(c, m, b, k, fr) EXCEPT !.clips = v] = StateOf(v, m, b, k, fr)
      /\ [StateOf(c, m, b, k, fr) EXCEPT !.blend = v] = StateOf(c, m, v, k, fr)
      /\ [StateOf(c, m, b, k, fr) EXCEPT !.fill = v] = StateOf(c, m, b, v, fr)
      /\ [StateOf(c, m, b, k, fr) EXCEPT !.soft = v] = StateOf(c, v, b, k, fr)
      /\ [StateOf(c, m, b, k, fr) EXCEPT !.from = v] = StateOf(c, m, b, k, v)
  BY SMT DEF StateOf
<1>5. \A c1, m1, b1, k1, f1 : /\ StateOf(c1, m1, b1, k1, f1).clips = c1
                              /\ StateOf(c1, m1, b1, k1, f1).blend = b1
  BY SMT DEF StateOf
<1>6. /\ [s EXCEPT !.clips = v] = StateOf(v, m, b, k, fr)
      /\ [s EXCEPT !.blend = v] = StateOf(c, m, v, k, fr)
      /\ [s EXCEPT !.fill = v] = StateOf(c, m, b, v, fr)
      /\ [s EXCEPT !.soft = v] = StateOf(c, v, b, k, fr)
      /\ [s EXCEPT !.from = v] = StateOf(c, m, b, k, v)
  BY <1>3, <1>4
<1> QED BY <1>2, <1>5, <1>6

\* what paints has its state among those that there are
LEMMA BasesIn ==
  ASSUME LInv, Patient
  PROVE  /\ Ordered(calls, Len(gs)) /\ Len(gs) \in Nat /\ IsSeq(gs) /\ IsSeq(calls)
         /\ \A i \in 1..Len(calls) : IsPaint(calls[i].fn) => calls[i].base \in 1..Len(gs)
<1>1. /\ IsSeq(gs) /\ IsSeq(calls) /\ Len(gs) \in Nat
      /\ \A i \in 1..Len(calls) : Shaped(calls[i])
  BY Seqs
<1>2. Levelled(calls, Len(gs), csi.gbot, csi.gparent)
  BY DEF LInv, Levels
<1>3. /\ Ordered(calls, Len(gs))
      /\ \A i \in 1..Len(calls) : calls[i].base >= 1 \/ calls[i].fn \in Outer
  BY <1>1, <1>2, OrderedIs
<1>4. ASSUME NEW i \in 1..Len(calls), IsPaint(calls[i].fn)
      PROVE  calls[i].base \in 1..Len(gs)
  <2>1. calls[i].base \in Nat /\ Floor(calls[i]) \in Nat /\ calls[i].base <= Floor(calls[i])
        /\ Floor(calls[i]) <= Len(gs)
    BY <1>3 DEF Ordered
  <2>2. calls[i].base >= 1
    BY <1>3, <1>4 DEF IsPaint
  <2> QED BY <1>1, <2>1, <2>2
<1> QED BY <1>1, <1>3, <1>4

\* Where content is run, and at the begin of a form, nothing paints with the current state.
LEMMA NonePaints ==
  ASSUME LInv, Patient, calls # << >>, Grows(calls, gs), Here.fn = "stream" \/ Raised(Here)
  PROVE  \A i \in 1..Len(calls) : IsPaint(calls[i].fn) => calls[i].base # Len(gs)
<1> DEFINE n == Len(calls)
<1>1. n \in Nat /\ n \in 1..n /\ Here = calls[n] /\ Shaped(Here)
  BY HereIn
<1>2. Ordered(calls, Len(gs)) /\ Len(gs) \in Nat
  BY BasesIn
<1>3. ~IsPaint(Here.fn)
  BY DEF IsPaint, Named, Raised
<1>4. ASSUME NEW i \in 1..n, IsPaint(calls[i].fn)
      PROVE  calls[i].base # Len(gs)
  <2>1. i # n
    BY <1>1, <1>3, <1>4
  <2>2. i \in 1..n - 1 /\ n - 1 \in 1..n /\ n - 1 \in 1..n - 1 /\ (n - 1) + 1 = n
    BY <1>1, <2>1
  <2>3. /\ calls[i].base \in Nat /\ Floor(calls[i]) \in Nat /\ calls[i].base <= Floor(calls[i])
        /\ calls[n - 1].base \in Nat /\ Floor(calls[n - 1]) \in Nat
        /\ calls[n - 1].base <= Floor(calls[n - 1])
        /\ Here.base \in Nat /\ Floor(Here) \in Nat /\ Here.base <= Floor(Here)
        /\ Floor(Here) <= Len(gs)
    BY <1>1, <1>2, <2>2 DEF Ordered
  <2>4. Floor(calls[i]) <= Here.base /\ Floor(calls[n - 1]) <= Here.base
    BY <1>1, <1>2, <2>2, SMTT(30) DEF Ordered
  <2>5. Above(calls[n - 1], Here)
    BY <1>1, <2>2 DEF Grows
  <2>6. i # n - 1 => Floor(calls[i]) <= calls[n - 1].base
    <3>1. \A j, k \in 1..n : j < k => Floor(calls[j]) <= calls[k].base
      BY <1>2 DEF Ordered
    <3> HIDE DEF n
    <3>2. i # n - 1 => i < n - 1
      BY <1>1, <2>2
    <3> QED BY <2>2, <3>1, <3>2
  <2>7. CASE Raised(Here)
    <3>1. Floor(Here) = Here.base + 1
      BY <2>7 DEF Floor
    <3> QED BY <1>2, <2>3, <2>4, <3>1
  <2>8. CASE Here.fn = "stream"
    <3>1. Floor(calls[n - 1]) < Here.base
      BY <2>5, <2>8 DEF Above
    <3>2. calls[i].base <= Floor(calls[n - 1])
      BY <2>3, <2>6, SMTT(30)
    <3> QED BY <1>2, <2>3, <3>1, <3>2
  <2> QED BY <2>7, <2>8
<1> QED BY <1>4

\* the current state is another, with as many clips
LEMMA NestsSet ==
  ASSUME LInv, NInv, Patient, Len(gs) \in 1..Len(gs), NEW x, x.clips = State.clips,
         \/ x.blend = State.blend
         \/ \A i \in 1..Len(calls) : IsPaint(calls[i].fn) => calls[i].base # Len(gs)
  PROVE  Nests(calls, Replaced(gs, Len(gs), x), dev, lost)
<1> DEFINE n == Len(gs)
           s2 == Replaced(gs, n, x)
<1>1. n \in Nat /\ IsSeq(gs) /\ IsSeq(calls) /\ Ordered(calls, n)
      /\ \A i \in 1..Len(calls) : IsPaint(calls[i].fn) => calls[i].base \in 1..n
  BY BasesIn
<1>2. Len(s2) = n /\ s2[n] = x /\ \A i \in 1..n : i # n => s2[i] = gs[i]
  BY <1>1, ReplacedSeq
<1> HIDE DEF s2
<1>3. Widened(gs, s2)
  <2>1. ASSUME NEW i \in 1..n
        PROVE  s2[i].clips = ClipsOf(gs, IF i <= n THEN i ELSE n)
    <3>1. s2[i].clips = gs[i].clips
      BY <1>2 DEF State
    <3>2. i # 0 /\ i <= n
      BY <1>1
    <3> QED BY <3>1, <3>2 DEF ClipsOf
  <2> QED BY <1>1, <1>2, <2>1 DEF Widened
<1>4. BlendKept(calls, gs, s2)
  BY <1>1, <1>2 DEF BlendKept, State
<1> QED BY <1>1, <1>3, <1>4, NInvIs, NestsLike DEF s2

\* there is one more, with as many clips
LEMMA NestsSave ==
  ASSUME LInv, NInv, Patient, Len(gs) \in 1..Len(gs), NEW x, x.clips = State.clips
  PROVE  Nests(calls, Append(gs, x), dev, lost)
<1> DEFINE n == Len(gs)
           s2 == Append(gs, x)
<1>1. n \in Nat /\ IsSeq(gs) /\ IsSeq(calls) /\ Ordered(calls, n)
      /\ \A i \in 1..Len(calls) : IsPaint(calls[i].fn) => calls[i].base \in 1..n
  BY BasesIn
<1>2. Len(s2) = n + 1 /\ s2[n + 1] = x /\ \A i \in 1..n : s2[i] = gs[i]
  BY <1>1, AppendSeq
<1> HIDE DEF s2
<1>3. Widened(gs, s2)
  <2>1. ASSUME NEW i \in 1..n + 1
        PROVE  s2[i].clips = ClipsOf(gs, IF i <= n THEN i ELSE n)
    <3>1. CASE i <= n
      <4>1. i \in 1..n /\ i # 0
        BY <1>1, <3>1
      <4> QED BY <1>2, <3>1, <4>1 DEF ClipsOf
    <3>2. CASE ~(i <= n)
      <4>1. i = n + 1 /\ n # 0
        BY <1>1, <3>2
      <4> QED BY <1>2, <3>2, <4>1 DEF ClipsOf, State
    <3> QED BY <3>1, <3>2
  <2> QED BY <1>1, <1>2, <2>1 DEF Widened
<1>4. BlendKept(calls, gs, s2)
  BY <1>1, <1>2 DEF BlendKept
<1> QED BY <1>1, <1>3, <1>4, NInvIs, NestsLike DEF s2

\* where the innermost call goes on after that
LEMMA SetPast ==
  ASSUME LInv, calls # << >>, Here.todo # << >>, Nests(calls, gs', dev, lost), Done(gs', dev),
         calls' = Past, dev' = dev, lost' = lost
  PROVE  Nests(calls', gs', dev', lost')
<1>1. PICK g : g = Shorter(Here)
  OBVIOUS
<1>2. Past = Goes(g) /\ Advances(g)
  BY <1>1, PastAdvances, Zenon
<1>3. Nests(Goes(g), gs', dev', lost')
  BY <1>2, NestsPast
<1> QED BY <1>2, <1>3

LEMMA SaveNests ==
  ASSUME LInv, SInv, NInv, Patient, GsaveStep \/ Run_q
  PROVE  Nests(calls', gs', dev', lost')
<1>1. PICK w : Next1(w) /\ w \in {"gsave", "token"}
  BY DEF GsaveStep, Run_q, Token, Reads
<1>2. /\ calls # << >> /\ Here.todo # << >> /\ Here.todo[1][1] \in {"gsave", "token"}
      /\ Len(gs) \in 1..Len(gs)
  BY <1>1, At1, NextGoes
<1>3. gs' = Append(gs, State) /\ dev' = dev /\ lost' = lost /\ (calls' = Past \/ calls' = calls)
  BY DEF GsaveStep, Run_q, Gsave
<1>4. Nests(calls, gs', dev, lost)
  BY <1>2, <1>3, NestsSave
<1>5. CASE calls' = calls
  BY <1>3, <1>4, <1>5
<1>6. CASE calls' = Past
  <2>1. Done(gs', dev)
    BY <1>2, DoneQuiet DEF Resting
  <2> QED BY <1>2, <1>3, <1>4, <1>6, <2>1, SetPast
<1> QED BY <1>3, <1>5, <1>6

LEMMA FieldNests ==
  ASSUME LInv, SInv, NInv, Patient, NEW m, SetSoftmask(m) \/ SetBlend
  PROVE  Nests(calls', gs', dev', lost')
<1>1. Next1("token") /\ calls' = calls /\ dev' = dev /\ lost' = lost
  BY DEF SetSoftmask, SetBlend, Token, Reads
<1>2. /\ calls # << >> /\ Here.todo # << >> /\ Here.todo[1][1] = "token"
      /\ Len(gs) \in 1..Len(gs) /\ IsState(State, Len(gs))
  BY <1>1, At1, NextGoes DEF SInv
<1>3. Here.fn = "stream"
  BY <1>2, HereIn, StepIn
<1>4. \A i \in 1..Len(calls) : IsPaint(calls[i].fn) => calls[i].base # Len(gs)
  BY <1>2, <1>3, NInvIs, NonePaints
<1>5. \/ \E v : gs' = Replaced(gs, Len(gs), [State EXCEPT !.soft = v])
      \/ \E v : gs' = Replaced(gs, Len(gs), [State EXCEPT !.blend = v])
  BY DEF SetSoftmask, SetBlend, Replaced, State
<1>6. \A v : /\ [State EXCEPT !.soft = v].clips = State.clips
             /\ [State EXCEPT !.blend = v].clips = State.clips
  BY <1>2, StateFields
<1>7. PICK x : gs' = Replaced(gs, Len(gs), x) /\ x.clips = State.clips
  BY <1>5, <1>6, Zenon
<1>8. Nests(calls, gs', dev, lost)
  BY <1>2, <1>4, <1>7, NestsSet
<1> QED BY <1>1, <1>8

LEMMA FillNests ==
  ASSUME LInv, SInv, NInv, Patient, NEW kind, SetFill(kind)
  PROVE  Nests(calls', gs', dev', lost')
<1>1. Next1("token") /\ calls' = calls /\ dev' = dev /\ lost' = lost
  BY DEF SetFill, Token, Reads
<1> DEFINE n == Len(gs)
<1>2. n \in 1..n /\ IsState(State, n) /\ IsSeq(gs)
  BY <1>1, At1, Seqs DEF SInv
<1> DEFINE v == IF kind = "colour" THEN 0 ELSE csi.gparent
           x == [State EXCEPT !.fill = kind]
           y == [x EXCEPT !.from = v]
<1>3. IsState(x, n) /\ x.clips = State.clips /\ x.blend = State.blend
  BY <1>2, StateWith, StateFields
<1>4. y.clips = x.clips /\ y.blend = x.blend
  <2> HIDE DEF v, x, n
  <2> QED BY <1>3, StateFields, ZenonT(60)
<1>5. gs' = Replaced(gs, n, y)
  <2>1. Replaced(gs, n, x)[n] = x
    BY <1>2, ReplacedSeq
  <2>2. gs' = Replaced(Replaced(gs, n, x), n, [Replaced(gs, n, x)[n] EXCEPT !.from = v])
    BY DEF SetFill, Replaced, State
  <2>3. gs' = Replaced(Replaced(gs, n, x), n, y)
    BY <2>1, <2>2
  <2> QED BY <1>2, <2>3, ReplacedTwice
<1> HIDE DEF y
<1>6. Nests(calls, gs', dev, lost)
  BY <1>2, <1>3, <1>4, <1>5, NestsSet
<1> QED BY <1>1, <1>6

LEMMA ResetNests ==
  ASSUME LInv, SInv, NInv, Patient, Reset
  PROVE  Nests(calls', gs', dev', lost')
<1>1. Next1("reset") /\ calls' = Past /\ dev' = dev /\ lost' = lost
  BY DEF Reset
<1>2. /\ calls # << >> /\ Here.todo # << >> /\ Here.todo[1][1] = "reset"
      /\ Len(gs) \in 1..Len(gs) /\ IsState(State, Len(gs)) /\ Shaped(Here)
  BY <1>1, At1, NextGoes, HereIn DEF SInv
<1>3. Here.todo[1] \in StepsOf(Here.fn)
  BY <1>2, StepIn
<1>4. Here.fn = "form" /\ Here.todo[1] = Do("reset")
  <2>1. PICK z : z = Here.todo[1]
    OBVIOUS
  <2>2. z \in OuterSteps \cup StreamWords \cup InnerSteps => FALSE
    <3>1. z[1] = "reset"
      BY <1>2, <2>1
    <3> QED BY <3>1, StepNames, ZenonT(30) DEF OuterSteps, StreamWords, InnerSteps
  <2>3. z \in FormWords => z = Do("reset")
    <3>1. z[1] = "reset"
      BY <1>2, <2>1
    <3> QED BY <3>1, StepNames, ZenonT(30) DEF FormWords
  <2> QED BY <1>3, <2>1, <2>2, <2>3 DEF StepsOf
<1>5. Raised(Here)
  BY <1>2, <1>4 DEF Raised, Entering
<1>6. \A i \in 1..Len(calls) : IsPaint(calls[i].fn) => calls[i].base # Len(gs)
  BY <1>2, <1>5, NInvIs, NonePaints
<1>7. PICK x : gs' = Replaced(gs, Len(gs), x) /\ x.clips = State.clips
  <2>1. \E v : gs' = Replaced(gs, Len(gs), [State EXCEPT !.blend = v])
    BY DEF Reset, Replaced, State
  <2>2. \A v : [State EXCEPT !.blend = v].clips = State.clips
    BY <1>2, StateFields
  <2>3. PICK v : gs' = Replaced(gs, Len(gs), [State EXCEPT !.blend = v])
    BY <2>1
  <2>4. PICK x : x = [State EXCEPT !.blend = v]
    OBVIOUS
  <2>5. gs' = Replaced(gs, Len(gs), x)
    BY <2>3, <2>4, Zenon
  <2>6. x.clips = State.clips
    BY <2>2, <2>4, Zenon
  <2> QED BY <2>5, <2>6
<1>8. Nests(calls, gs', dev, lost)
  BY <1>2, <1>6, <1>7, NestsSet
<1>9. Done(gs', dev)
  BY <1>2, DoneQuiet DEF Resting
<1> QED BY <1>1, <1>2, <1>8, <1>9, SetPast

\* pdf_new_csi
LEMMA NewNests ==
  ASSUME LInv, NInv, Patient, NewInterpreter
  PROVE  Nests(calls', gs', dev', lost')
<1>1. Next1("new") /\ calls' = Past /\ dev' = dev /\ lost' = lost /\ gs' = <<NewState, NewState>>
  BY DEF NewInterpreter
<1>2. /\ calls # << >> /\ Here.todo # << >> /\ Here.todo[1][1] = "new"
      /\ Shaped(Here) /\ Len(gs) \in Nat
  BY <1>1, NextGoes, HereIn
<1>3. Here.fn \in Outer
  BY <1>2, StepIn
<1>4. Len(gs) = 0
  <2>1. NeedsAt(Here.fn, Here.todo) <=> (Len(gs) >= 1)
    BY <1>2, ReadyLevel DEF At, LevelAt, WeakAt
  <2>2. ~NeedsAt(Here.fn, Here.todo)
    BY <1>2, <1>3 DEF NeedsAt, RunWords
  <2> QED BY <1>2, <2>1, <2>2
<1>5. IsSeq(calls) /\ Ordered(calls, Len(gs))
  BY BasesIn
<1>6. Widened(gs, gs')
  <2>1. Len(gs') = 2 /\ gs'[1] = NewState /\ gs'[2] = NewState
    BY <1>1
  <2>2. NewState.clips = 0
    BY DEF NewState
  <2>3. ASSUME NEW i \in 1..2
        PROVE  gs'[i].clips = ClipsOf(gs, IF i <= Len(gs) THEN i ELSE Len(gs))
    <3>1. ~(i <= Len(gs)) /\ (i = 1 \/ i = 2)
      BY <1>4
    <3> QED BY <1>4, <2>1, <2>2, <3>1 DEF ClipsOf
  <2> QED BY <1>4, <2>1, <2>3 DEF Widened
<1>7. BlendKept(calls, gs, gs')
  <2>1. \A i \in 1..Len(calls) : calls[i].fn \in Outer
    BY <1>2, <1>3, OuterOnly DEF LInv
  <2> QED BY <2>1 DEF BlendKept, IsPaint
<1>8. Nests(calls, gs', dev, lost)
  BY <1>5, <1>6, <1>7, NInvIs, NestsLike
<1>9. Done(gs', dev)
  BY <1>2, DoneQuiet DEF Resting
<1> QED BY <1>1, <1>2, <1>8, <1>9, SetPast

-----------------------------------------------------------------------------
(* States are dropped                                                      *)

LEMMA RisingAll ==
  ASSUME NEW s, Len(s) \in Nat, Rising(s)
  PROVE  /\ \A i \in 0..Len(s) : ClipsOf(s, i) \in Nat
         /\ \A i, j \in 0..Len(s) : i <= j => ClipsOf(s, i) <= ClipsOf(s, j)
<1> DEFINE n == Len(s)
           R == [k \in 1..n + 1 |-> ClipsOf(s, k - 1)]
<1>1. \A i \in 1..n : ClipsOf(s, i) \in Nat /\ ClipsOf(s, i - 1) <= ClipsOf(s, i)
  <2>1. \A i \in 1..n : s[i].clips \in Nat /\ ClipsOf(s, i - 1) <= ClipsOf(s, i)
    BY DEF Rising
  <2>2. \A i \in 1..n : i # 0
    OBVIOUS
  <2> QED BY <2>1, <2>2 DEF ClipsOf
<1>2. \A i \in 0..n : ClipsOf(s, i) \in Nat
  <2>1. ClipsOf(s, 0) = 0
    BY DEF ClipsOf
  <2>2. \A i \in 0..n : i = 0 \/ i \in 1..n
    OBVIOUS
  <2> QED BY <1>1, <2>1, <2>2
<1> HIDE DEF n
<1>3. n \in Nat /\ n + 1 \in Nat
  BY DEF n
<1>4. \A k \in 1..n + 1 : k - 1 \in 0..n /\ R[k] = ClipsOf(s, k - 1)
  BY <1>3
<1> HIDE DEF R
<1>5. \A k \in 1..n + 1 : R[k] \in Int
  BY <1>2, <1>4
<1>6. ASSUME NEW k \in 1..n + 1, k + 1 \in 1..n + 1
      PROVE  R[k] <= R[k + 1]
  <2>1. k \in 1..n /\ (k + 1) - 1 = k
    BY <1>3, <1>6
  <2> QED BY <1>1, <1>4, <1>6, <2>1
<1>7. \A i, j \in 1..n + 1 : i <= j => R[i] <= R[j]
  BY <1>3, <1>5, <1>6, Rises
<1>8. ASSUME NEW i \in 0..n, NEW j \in 0..n, i <= j
      PROVE  ClipsOf(s, i) <= ClipsOf(s, j)
  <2>1. i + 1 \in 1..n + 1 /\ j + 1 \in 1..n + 1 /\ i + 1 <= j + 1
        /\ (i + 1) - 1 = i /\ (j + 1) - 1 = j
    BY <1>3, <1>8
  <2>2. R[i + 1] <= R[j + 1] /\ R[i + 1] = ClipsOf(s, (i + 1) - 1)
        /\ R[j + 1] = ClipsOf(s, (j + 1) - 1)
    BY <1>4, <1>7, <2>1
  <2> QED BY <2>1, <2>2
<1> QED BY <1>2, <1>8 DEF n

\* s2 is the first of s
First(s, s2) ==
  /\ Len(s) \in Nat /\ Len(s2) \in 0..Len(s) /\ \A i \in 1..Len(s2) : s2[i] = s[i]
LEMMA FirstIs ==
  ASSUME NEW s, NEW s2, First(s, s2), Rising(s)
  PROVE  Rising(s2) /\ \A i \in 0..Len(s2) : i \in 0..Len(s) /\ ClipsOf(s2, i) = ClipsOf(s, i)
<1>1. \A i \in 0..Len(s2) : i \in 0..Len(s) /\ ClipsOf(s2, i) = ClipsOf(s, i)
  <2>1. ASSUME NEW i \in 0..Len(s2)
        PROVE  i \in 0..Len(s) /\ (i # 0 => i \in 1..Len(s2))
    BY DEF First
  <2> QED BY <2>1 DEF ClipsOf, First
<1>2. ASSUME NEW i \in 1..Len(s2)
      PROVE  s2[i].clips \in Nat /\ ClipsOf(s2, i - 1) <= ClipsOf(s2, i)
  <2>1. i \in 1..Len(s) /\ i \in 0..Len(s2) /\ i - 1 \in 0..Len(s2)
    BY DEF First
  <2>2. s[i].clips \in Nat /\ ClipsOf(s, i - 1) <= ClipsOf(s, i)
    BY <2>1 DEF Rising
  <2>3. s2[i] = s[i]
    BY DEF First
  <2> QED BY <1>1, <2>1, <2>2, <2>3
<1> QED BY <1>1, <1>2 DEF Rising

\* FitsTop, for the calls there are
TopGoes(f, g, e, c, c2, s, s2, d2) ==
  \A w, x : Bears(f, s[f.base].blend, w) /\ Top(dev, x, w, c - e)
    => \E v : /\ Bears(g, s2[f.base].blend, v) /\ v \in Seq(Kinds)
              /\ Top(d2, x, v, c2 - e) /\ Keeps(dev, d2, x)
StaysBelow(n, s, s2) ==
  /\ \A i \in 1..n : ClipsOf(s2, calls[i].base) = ClipsOf(s, calls[i].base)
  /\ \A i \in 1..n : i # n /\ IsPaint(calls[i].fn) =>
       s2[calls[i].base].blend = s[calls[i].base].blend
LEMMA FitsHere ==
  ASSUME IsSeq(calls), NEW n, n = Len(calls), n >= 1, NEW s, Fits(calls, s, dev),
         Here = calls[n], NEW g, g.fn = Here.fn, g.base = Here.base, NEW s2, NEW d2,
         StaysBelow(n, s, s2),
         NEW e, e = ClipsOf(s, Here.base), NEW c, c = ClipsOf(s, Len(s)),
         NEW c2 \in Nat, c2 = ClipsOf(s2, Len(s2)), e <= c2,
         TopGoes(Here, g, e, c, c2, s, s2, d2)
  PROVE  Fits(Replaced(calls, n, g), s2, d2)
<1>1. /\ \A i \in 1..n : ClipsOf(s2, calls[i].base) = ClipsOf(s, calls[i].base)
      /\ \A i \in 1..n : i # n /\ IsPaint(calls[i].fn) =>
           s2[calls[i].base].blend = s[calls[i].base].blend
  BY Zenon DEF StaysBelow
<1>2. \A w, x : Bears(Here, s[Here.base].blend, w) /\ e \in Nat /\ c \in Nat /\ Top(dev, x, w, c - e)
        => \E v : /\ Bears(g, s2[Here.base].blend, v) /\ v \in Seq(Kinds)
                  /\ Top(d2, x, v, c2 - e) /\ Keeps(dev, d2, x)
  BY Zenon DEF TopGoes
<1> QED BY <1>1, <1>2, FitsTop, SMTT(30)

\* The clips of the states that are dropped are closed.
LEMMA DropsTop ==
  ASSUME LInv, NInv, Patient, calls # << >>, NEW s2, First(gs, s2),
         NEW g, g.fn = Here.fn, g.base = Here.base, Raised(g) => Raised(Here),
         \A b, w : Bears(Here, b, w) => Bears(g, b, w), Ordered(Goes(g), Len(s2)),
         NEW d2, d2 = Closed(ClipsOf(gs, Len(gs)) - ClipsOf(gs, Len(s2)), "clip")
  PROVE  Nests(Goes(g), s2, d2, lost)
<1> DEFINE n == Len(calls)
<1>1. /\ IsSeq(calls) /\ n \in Nat /\ n >= 1 /\ n \in 1..n /\ Here = calls[n]
      /\ Len(gs) \in Nat /\ IsSeq(gs) /\ Here.base \in Nat
  BY HereIn
<1>2. /\ IsSeq(Goes(g)) /\ Len(Goes(g)) = n /\ Goes(g)[n] = g
      /\ \A i \in 1..n : i # n => Goes(g)[i] = calls[i]
  BY GoesSeq
<1>3. Nests(calls, gs, dev, lost) /\ Grows(calls, gs) /\ Rising(gs)
  BY NInvIs
<1>4. Rising(s2) /\ \A i \in 0..Len(s2) : i \in 0..Len(gs) /\ ClipsOf(s2, i) = ClipsOf(gs, i)
  BY <1>3, FirstIs
<1>5. /\ \A i \in 0..Len(gs) : ClipsOf(gs, i) \in Nat
      /\ \A i, j \in 0..Len(gs) : i <= j => ClipsOf(gs, i) <= ClipsOf(gs, j)
  BY <1>1, <1>3, RisingAll
<1>6. Len(s2) \in Nat /\ Len(s2) \in 0..Len(s2) /\ Len(s2) \in 0..Len(gs) /\ Len(gs) \in 0..Len(gs)
      /\ Len(s2) <= Len(gs)
  BY <1>1 DEF First
\* where the calls are made
<1>7. ASSUME NEW i \in 1..n
      PROVE  /\ calls[i].base \in 0..Len(s2)
             /\ (i # n /\ Raised(calls[i])) \/ (i = n /\ Raised(g))
                  => calls[i].base + 1 \in 0..Len(s2)
  <2> DEFINE f == Goes(g)[i]
  <2>1. f.base \in Nat /\ Floor(f) \in Nat /\ f.base <= Floor(f) /\ Floor(f) <= Len(s2)
    BY <1>2 DEF Ordered
  <2>2. f.base = calls[i].base
    BY <1>1, <1>2
  <2>3. (i # n /\ Raised(calls[i])) \/ (i = n /\ Raised(g)) => Raised(f)
    BY <1>2
  <2>4. Raised(f) => Floor(f) = f.base + 1
    BY DEF Floor
  <2> HIDE DEF f
  <2> QED BY <1>6, <2>1, <2>2, <2>3, <2>4
<1>8. ASSUME NEW i \in 1..n, (i # n /\ Raised(calls[i])) \/ (i = n /\ Raised(g))
      PROVE  Even(s2, calls[i].base)
  <2>1. Raised(calls[i])
    BY <1>1, <1>8
  <2>2. Even(gs, calls[i].base)
    BY <1>3, <2>1 DEF Grows
  <2> QED BY <1>4, <1>7, <1>8, <2>2 DEF Even
<1>9. Grows(Replaced(calls, n, g), s2)
  <2>1. \A i \in 1..n : i # n /\ Raised(calls[i]) => Even(s2, calls[i].base)
    BY <1>8
  <2>2. Raised(g) => Even(s2, g.base)
    BY <1>1, <1>8
  <2> QED BY <1>1, <1>3, <1>4, <2>1, <2>2, GrowsTop
<1>10. ASSUME ~lost
       PROVE  Fits(Replaced(calls, n, g), s2, d2)
  <2> DEFINE e == ClipsOf(gs, Here.base)
             c == ClipsOf(gs, Len(gs))
             c2 == ClipsOf(s2, Len(s2))
  <2>1. Fits(calls, gs, dev)
    BY <1>3, <1>10 DEF Nests
  <2>2. Here.base \in 0..Len(s2) /\ Here.base \in 0..Len(gs) /\ Here.base <= Len(s2)
    BY <1>1, <1>4, <1>6, <1>7
  <2>3. c2 = ClipsOf(gs, Len(s2))
    BY <1>4, <1>6
  <2>4. e \in Nat /\ c \in Nat /\ c2 \in Nat /\ e <= c2 /\ c2 <= c
    BY <1>5, <1>6, <2>2, <2>3
  <2>5. \A i \in 1..n : ClipsOf(s2, calls[i].base) = ClipsOf(gs, calls[i].base)
    BY <1>4, <1>7
  <2>6. ASSUME NEW i \in 1..n, IsPaint(calls[i].fn)
        PROVE  s2[calls[i].base].blend = gs[calls[i].base].blend
    <3>1. calls[i].base \in 1..Len(gs)
      BY <2>6, BasesIn
    <3>2. calls[i].base \in 1..Len(s2)
      BY <1>6, <1>7, <3>1
    <3> QED BY <3>2 DEF First
  <2>7. ASSUME NEW w, NEW x, Bears(Here, gs[Here.base].blend, w), Top(dev, x, w, c - e)
        PROVE  \E v : /\ Bears(g, s2[Here.base].blend, v) /\ v \in Seq(Kinds)
                      /\ Top(d2, x, v, c2 - e) /\ Keeps(dev, d2, x)
    <3> HIDE DEF e, c, c2
    <3>1. PICK m : m = c - c2
      OBVIOUS
    <3>2. m \in 0..(c - e) /\ (c - e) - m = c2 - e
      BY <2>4, <3>1
    <3>3. d2 = Closed(m, "clip")
      BY <2>3, <3>1 DEF c, c2
    <3>4. Top(d2, x, w, (c - e) - m) /\ Keeps(dev, d2, x)
      BY <2>7, <3>2, <3>3, TopDrops
    <3>5. Top(d2, x, w, c2 - e)
      BY <3>2, <3>4
    <3>6. Bears(g, s2[Here.base].blend, w)
      <4>1. Bears(g, gs[Here.base].blend, w)
        BY <2>7
      <4>2. CASE IsPaint(Here.fn)
        BY <1>1, <2>6, <4>1, <4>2
      <4>3. CASE ~IsPaint(Here.fn)
        BY <4>1, <4>3, BearsAny
      <4> QED BY <4>2, <4>3
    <3>7. w \in Seq(Kinds)
      BY <2>7 DEF Top
    <3> QED BY <3>4, <3>5, <3>6, <3>7
  <2> HIDE DEF e, c, c2, n
  <2>8. /\ e = ClipsOf(gs, Here.base) /\ c = ClipsOf(gs, Len(gs)) /\ c2 = ClipsOf(s2, Len(s2))
        /\ n = Len(calls)
    BY DEF e, c, c2, n
  <2>9. \A i \in 1..n : i # n /\ IsPaint(calls[i].fn) =>
          s2[calls[i].base].blend = gs[calls[i].base].blend
    BY <2>6
  <2>10. IsSeq(calls) /\ n \in Nat /\ n >= 1 /\ Here = calls[n] /\ n = Len(calls)
    BY <1>1, <2>8
  <2>11. /\ c2 \in Nat /\ c2 = ClipsOf(s2, Len(s2)) /\ e <= c2
         /\ e = ClipsOf(gs, Here.base) /\ c = ClipsOf(gs, Len(gs))
    BY <2>4, <2>8
  <2>12. TopGoes(Here, g, e, c, c2, gs, s2, d2)
    BY <2>7, Zenon DEF TopGoes
  <2>13. StaysBelow(n, gs, s2)
    BY <2>5, <2>9, Zenon DEF StaysBelow
  <2> QED BY <2>1, <2>10, <2>11, <2>12, <2>13, FitsHere
<1> QED BY <1>9, <1>10, GoesIs DEF Nests

LEMMA OrderedNext ==
  ASSUME LInv', Patient
  PROVE  Ordered(calls', Len(gs')) /\ IsSeq(gs') /\ IsSeq(calls') /\ Len(gs') \in Nat
<1>1. IsSeq(gs') /\ Stacked(calls', Len(gs'), csi'.gbot, marked')
  BY DEF LInv, IInv
<1>2. Levelled(calls', Len(gs'), csi'.gbot, csi'.gparent)
  BY DEF LInv, Levels
<1>3. IsSeq(calls') /\ \A i \in 1..Len(calls') : Shaped(calls'[i])
  BY <1>1 DEF Stacked
<1>4. Len(gs') \in Nat
  BY <1>1, SeqLen
<1> QED BY <1>1, <1>2, <1>3, <1>4, OrderedIs

\* past a step that opens and closes nothing
LEMMA BearsShorter ==
  ASSUME LInv, calls # << >>, Here.todo # << >>,
         Here.todo[1][1] \in Resting \/ Here.todo[1][1] = "leave form",
         NEW g, Advances(g), NEW b, NEW w, Bears(Here, b, w)
  PROVE  Bears(g, b, w)
<1>1. PICK v \in Seq(Kinds) : Turns(Here.fn, Here.soft, b, Here.todo[1], w, v) /\ Bears(g, b, v)
  BY HereIn, BearsPast DEF Advances
<1>2. v = w
  <2>1. CASE Here.todo[1][1] \in Resting
    BY <1>1, <2>1, TurnsRest
  <2>2. CASE Here.todo[1][1] = "leave form"
    <3>1. Here.todo[1][1] \notin {"open", "close", "unmask", "end blend", "end mask"}
      BY <2>2, Zenon
    <3> QED BY <1>1, <3>1, Zenon DEF Turns
  <2> QED BY <2>1, <2>2
<1> QED BY <1>1, <1>2

\* the innermost call as it was, or past a step
Keeping(g) ==
  /\ g.fn = Here.fn /\ g.base = Here.base /\ (Raised(g) => Raised(Here))
  /\ \A b, w : Bears(Here, b, w) => Bears(g, b, w)
\* where the current state is dropped
Dropping == Next1("grestore") \/ Next1("down") \/ Next1("leave form") \/ Next1("token")
LEMMA RestoreNests ==
  ASSUME LInv, LInv', NInv, Patient, Dropping, Grestore, calls' = Past \/ calls' = calls,
         lost' = lost
  PROVE  Nests(calls', gs', dev', lost')
<1>1. /\ calls # << >> /\ Here.todo # << >>
      /\ Here.todo[1][1] \in Resting \/ Here.todo[1][1] = "leave form"
  <2>1. PICK w : Next1(w) /\ (w \in {"grestore", "down", "token"} \/ w = "leave form")
    BY Zenon DEF Dropping
  <2>2. calls # << >> /\ Here.todo # << >> /\ Here.todo[1][1] = w
    BY <2>1, NextGoes
  <2>3. w \in {"grestore", "down", "token"} => w \in Resting
    BY DEF Resting
  <2> QED BY <2>1, <2>2, <2>3, Zenon
<1>2. CASE gs' = gs /\ dev' = dev
  <2>1. CASE calls' = calls
    BY <1>2, <2>1, NInvIs
  <2>2. CASE calls' = Past
    <3>1. Done(gs, dev')
      BY <1>1, <1>2, DoneQuiet
    <3> QED BY <1>1, <1>2, <2>2, <3>1, PastNests
  <2> QED BY <2>1, <2>2
<1>3. CASE ~(Len(gs) <= csi.gbot)
  <2>1. /\ gs' = Front(gs)
        /\ dev' = Closed(State.clips - gs[Len(gs) - 1].clips, "clip")
    BY <1>3 DEF Grestore, Drop
  <2>2. /\ Len(gs) \in Nat /\ csi.gbot \in Nat /\ csi.gbot >= 1 /\ IsSeq(gs)
    BY <1>1, ReadyLevel
  <2>3. Len(gs) >= 2 /\ gs # << >>
    <3>1. Len(gs) >= 2
      BY <1>3, <2>2
    <3> QED BY <2>2, <3>1, SeqLen
  <2>4. Len(gs') = Len(gs) - 1 /\ \A i \in 1..Len(gs) - 1 : gs'[i] = gs[i]
    BY <2>1, <2>2, <2>3, FrontSeq
  <2>5. First(gs, gs')
    BY <2>2, <2>3, <2>4 DEF First
  <2>6. dev' = Closed(ClipsOf(gs, Len(gs)) - ClipsOf(gs, Len(gs')), "clip")
    <3>1. PICK n : n = Len(gs)
      OBVIOUS
    <3>2. n \in Nat /\ n >= 2
      BY <2>2, <2>3, <3>1
    <3>3. n # 0 /\ n - 1 # 0
      BY <3>2
    <3> QED BY <2>1, <2>4, <3>1, <3>3 DEF ClipsOf, State
  <2>7. PICK g : calls' = Goes(g) /\ Keeping(g)
    <3>1. CASE calls' = calls
      <4>1. Goes(Here) = calls
        BY <1>1, GoesHere
      <4>2. Keeping(Here)
        BY DEF Keeping
      <4> QED BY <3>1, <4>1, <4>2
    <3>2. CASE calls' = Past
      <4>1. PICK g : g = Shorter(Here)
        OBVIOUS
      <4>2. Past = Goes(g) /\ Advances(g)
        BY <1>1, <4>1, PastAdvances, Zenon
      <4>3. \A b, w : Bears(Here, b, w) => Bears(g, b, w)
        BY <1>1, <4>2, BearsShorter
      <4>4. Raised(g) => Raised(Here)
        BY <1>1, <4>2, LowersPast
      <4>5. Keeping(g)
        BY <4>2, <4>3, <4>4 DEF Keeping, Advances
      <4> QED BY <3>2, <4>2, <4>5
    <3> QED BY <3>1, <3>2
  <2>8. Ordered(Goes(g), Len(gs'))
    BY <2>7, OrderedNext
  <2>9. /\ g.fn = Here.fn /\ g.base = Here.base /\ (Raised(g) => Raised(Here))
        /\ \A b, w : Bears(Here, b, w) => Bears(g, b, w)
    BY <2>7 DEF Keeping
  <2>10. Nests(Goes(g), gs', dev', lost)
    BY <1>1, <2>5, <2>6, <2>8, <2>9, DropsTop
  <2> QED BY <2>7, <2>10
<1>4. CASE Len(gs) <= csi.gbot
  <2>1. gs' = gs /\ dev' = dev
    BY <1>4 DEF Grestore
  <2> QED BY <1>2, <2>1
<1> QED BY <1>3, <1>4

LEMMA DropNests ==
  ASSUME LInv, LInv', NInv, Patient, GrestoreStep \/ GrestoreDown \/ LeaveForm \/ Run_Q
  PROVE  Nests(calls', gs', dev', lost')
<1>1. CASE GrestoreStep \/ LeaveForm \/ Run_Q
  <2>1. Dropping
    BY <1>1, Zenon DEF GrestoreStep, LeaveForm, Run_Q, Token, Reads, Dropping
  <2>2. Grestore /\ (calls' = Past \/ calls' = calls) /\ lost' = lost
    BY <1>1, Zenon DEF GrestoreStep, LeaveForm, Run_Q
  <2> QED BY <2>1, <2>2, RestoreNests
<1>2. CASE GrestoreDown
  <2>1. Next1("down") /\ lost' = lost
    BY <1>2 DEF GrestoreDown
  <2>2. Dropping
    BY <2>1 DEF Dropping
  <2>3. \/ Grestore /\ calls' = calls
        \/ calls' = Past /\ gs' = gs /\ dev' = dev
    BY <1>2 DEF GrestoreDown
  <2>4. CASE calls' = Past /\ gs' = gs /\ dev' = dev
    <3>1. calls # << >> /\ Here.todo # << >> /\ Here.todo[1][1] = "down"
      BY <2>1, NextGoes
    <3>2. Done(gs, dev')
      BY <2>4, <3>1, DoneQuiet DEF Resting
    <3> QED BY <2>1, <2>4, <3>1, <3>2, PastNests
  <2> QED BY <2>1, <2>2, <2>3, <2>4, RestoreNests
<1> QED BY <1>1, <1>2

\* pdf_free_csi
LEMMA FreeNests ==
  ASSUME LInv, LInv', NInv, Patient, FreeInterpreter
  PROVE  Nests(calls', gs', dev', lost')
<1>1. /\ Next1("free") /\ calls # << >> /\ Here.todo # << >> /\ Here.todo[1][1] = "free"
      /\ gs' = << >> /\ dev' = Closed(State.clips, "clip") /\ calls' = Past /\ lost' = lost
  BY NextGoes DEF FreeInterpreter
<1>2. Len(gs) \in Nat /\ Len(gs) \in 1..Len(gs)
  BY <1>1, Working
<1>3. PICK g : g = Shorter(Here)
  OBVIOUS
<1>4. Past = Goes(g) /\ Advances(g)
  BY <1>1, <1>3, PastAdvances, Zenon
<1>5. Here.todo[1][1] \in Resting
  BY <1>1 DEF Resting
<1>6. \A b, w : Bears(Here, b, w) => Bears(g, b, w)
  BY <1>1, <1>4, <1>5, BearsShorter
<1>7. Raised(g) => Raised(Here)
  BY <1>1, <1>4, LowersPast
<1>8. g.fn = Here.fn /\ g.base = Here.base
  BY <1>4 DEF Advances
<1>9. Len(gs') = 0
  BY <1>1
<1>10. First(gs, gs')
  BY <1>2, <1>9 DEF First
<1>11. Ordered(Goes(g), Len(gs'))
  BY <1>1, <1>4, OrderedNext
<1>12. dev' = Closed(ClipsOf(gs, Len(gs)) - ClipsOf(gs, Len(gs')), "clip")
  <2>1. PICK n : n = Len(gs)
    OBVIOUS
  <2>2. n # 0
    BY <1>2, <2>1
  <2>3. ClipsOf(gs, Len(gs)) = State.clips /\ ClipsOf(gs, Len(gs')) = 0
    BY <1>9, <2>1, <2>2 DEF ClipsOf, State
  <2>4. Rising(gs)
    BY NInvIs
  <2>5. State.clips \in Int
    BY <1>2, <2>4 DEF Rising, State
  <2>6. State.clips - 0 = State.clips
    BY <2>5
  <2> QED BY <1>1, <2>3, <2>6
<1>13. Nests(Goes(g), gs', dev', lost)
  BY <1>1, <1>6, <1>7, <1>8, <1>10, <1>11, <1>12, DropsTop
<1> QED BY <1>1, <1>4, <1>13

\* pdf_run_W, pdf_run_ET
LEMMA CsiNests ==
  ASSUME LInv, NInv, Patient, Run_W \/ Run_ET
  PROVE  Nests(calls', gs', dev', lost')
BY NInvIs DEF Run_W, Run_ET

-----------------------------------------------------------------------------
(* The current state is clipped                                            *)

\* s2 is s, but for a clip more in the last
Clipped(s, s2) ==
  /\ Len(s) \in Nat /\ Len(s) >= 1 /\ Len(s2) = Len(s)
  /\ \A i \in 1..Len(s) : i # Len(s) => s2[i] = s[i]
  /\ s2[Len(s)].clips = s[Len(s)].clips + 1 /\ s2[Len(s)].blend = s[Len(s)].blend
LEMMA ClippedIs ==
  ASSUME NEW s, NEW s2, Clipped(s, s2), Rising(s)
  PROVE  /\ Rising(s2)
         /\ \A i \in 0..Len(s) - 1 : ClipsOf(s2, i) = ClipsOf(s, i)
         /\ ClipsOf(s2, Len(s)) = ClipsOf(s, Len(s)) + 1
         /\ \A i \in 1..Len(s) : s2[i].blend = s[i].blend
         /\ \A i \in 0..Len(s) : i + 1 < Len(s) => (Even(s, i) => Even(s2, i))
<1>1. PICK n : n = Len(s)
  OBVIOUS
<1>2. /\ n \in Nat /\ n >= 1 /\ Len(s2) = n /\ (\A i \in 1..n : i # n => s2[i] = s[i])
      /\ s2[n].clips = s[n].clips + 1 /\ s2[n].blend = s[n].blend
  BY <1>1 DEF Clipped
<1>3. \A i \in 1..n : s[i].clips \in Nat /\ ClipsOf(s, i - 1) <= ClipsOf(s, i)
  BY <1>1 DEF Rising
<1>4. \A i \in 0..n - 1 : ClipsOf(s2, i) = ClipsOf(s, i)
  <2>1. ASSUME NEW i \in 0..n - 1
        PROVE  ClipsOf(s2, i) = ClipsOf(s, i)
    <3>1. CASE i = 0
      BY <3>1 DEF ClipsOf
    <3>2. CASE i # 0
      <4>1. i \in 1..n /\ i # n
        BY <1>2, <3>2
      <4> QED BY <1>2, <3>2, <4>1 DEF ClipsOf
    <3> QED BY <3>1, <3>2
  <2> QED BY <2>1
<1>5. ClipsOf(s2, n) = ClipsOf(s, n) + 1 /\ ClipsOf(s, n) \in Nat
  <2>1. n # 0 /\ n \in 1..n
    BY <1>2
  <2> QED BY <1>2, <1>3, <2>1 DEF ClipsOf
<1>6. Rising(s2)
  <2>1. ASSUME NEW i \in 1..n
        PROVE  s2[i].clips \in Nat /\ ClipsOf(s2, i - 1) <= ClipsOf(s2, i)
    <3>1. i - 1 \in 0..n - 1 /\ ClipsOf(s, i - 1) <= ClipsOf(s, i) /\ s[i].clips \in Nat
      BY <1>2, <1>3
    <3>2. CASE i # n
      <4>1. i \in 0..n - 1
        BY <1>2, <3>2
      <4> QED BY <1>2, <1>4, <3>1, <3>2, <4>1
    <3>3. CASE i = n
      <4>1. ClipsOf(s, i - 1) \in Nat
        <5>1. i - 1 = 0 \/ i - 1 \in 1..n
          BY <1>2
        <5> QED BY <1>3, <5>1 DEF ClipsOf
      <4>2. PICK a : a = ClipsOf(s, i - 1)
        OBVIOUS
      <4>3. a \in Nat /\ a <= ClipsOf(s, n) /\ ClipsOf(s2, i - 1) = a
        BY <1>4, <3>1, <3>3, <4>1, <4>2
      <4>4. a <= ClipsOf(s2, n)
        BY <1>5, <4>3
      <4> QED BY <1>2, <3>1, <3>3, <4>3, <4>4
    <3> QED BY <3>2, <3>3
  <2> QED BY <1>2, <2>1 DEF Rising
<1>7. \A i \in 1..n : s2[i].blend = s[i].blend
  BY <1>2
<1>8. \A i \in 0..n : i + 1 < n => (Even(s, i) => Even(s2, i))
  <2>1. ASSUME NEW i \in 0..n, i + 1 < n, Even(s, i)
        PROVE  Even(s2, i)
    <3>1. i \in 0..n - 1 /\ i + 1 \in 0..n - 1
      BY <1>2, <2>1
    <3> QED BY <1>4, <2>1, <3>1 DEF Even
  <2> QED BY <2>1
<1> QED BY <1>1, <1>4, <1>5, <1>6, <1>7, <1>8

\* a clip is opened on the device
LEMMA ClipOpens ==
  ASSUME IsDev(dev), NEW d \in Opened("clip")
  PROVE  ClipOpened(dev, d)
<1>1. Grown("clip", d)
  BY KindSeqs, Growing
<1> QED BY <1>1 DEF Grown, ClipOpened

\* the states that the calls below one that paints were made with
Lower(fs, n, j, m) ==
  /\ j \in 1..n
  /\ \A i \in j..n : fs[i].base = m /\ (i # n => fs[i].fn = "stream")
  /\ \A i \in 1..n : i < j => Floor(fs[i]) < m
LEMMA PaintLower ==
  ASSUME LInv, Patient, Grows(calls, gs), calls # << >>, IsPaint(Here.fn)
  PROVE  \E j : Lower(calls, Len(calls), j, Len(gs))
<1>1. PICK n : n = Len(calls)
  OBVIOUS
<1>2. PICK m : m = Len(gs)
  OBVIOUS
<1>3. n \in Nat /\ n >= 1 /\ n \in 1..n /\ Here = calls[n] /\ m \in Nat
  BY <1>1, <1>2, HereIn
<1>4. /\ \A i \in 1..n : /\ calls[i].base \in Nat /\ Floor(calls[i]) \in Nat
                         /\ calls[i].base <= Floor(calls[i]) /\ Floor(calls[i]) <= m
      /\ \A i, j \in 1..n : i < j => Floor(calls[i]) <= calls[j].base
  BY <1>1, <1>2, BasesIn DEF Ordered
<1>5. calls[n].base = m
  <2>1. At(Here, m, csi.gbot, csi.gparent)
    BY <1>2, ReadyLevel
  <2>2. PaintAt(Here, Here.todo, Here.onErr, Here.pend, m, csi.gbot, csi.gparent)
    BY <2>1 DEF At, LevelAt, StrongAt, IsPaint
  <2> QED BY <1>3, <2>2 DEF PaintAt
<1>6. CASE n = 1
  <2>1. Lower(calls, n, n, m)
    BY <1>3, <1>5, <1>6 DEF Lower
  <2> QED BY <1>1, <1>2, <2>1
<1>7. CASE n # 1
  <2>1. PICK k : k = n - 1
    OBVIOUS
  <2>2. k \in 1..n /\ k + 1 = n /\ k \in 1..n - 1 /\ k \in Nat
    BY <1>3, <1>7, <2>1
  <2>3. Above(calls[k], calls[k + 1])
    BY <1>1, <2>2 DEF Grows
  <2>4. calls[k].fn = "stream"
    BY <1>3, <2>2, <2>3 DEF Above
  <2>5. Floor(calls[k]) = calls[k].base
    BY <2>4 DEF Floor, Raised
  <2>6. \A i \in 1..n : i < k => Floor(calls[i]) < calls[k].base
    <3>1. ASSUME NEW i \in 1..n, i < k
          PROVE  Floor(calls[i]) < calls[k].base
      <4>1. PICK l : l = k - 1
        OBVIOUS
      <4>2. l \in 1..n /\ l + 1 = k /\ l \in 1..n - 1 /\ l \in Nat /\ (i = l \/ i < l)
        BY <1>3, <2>2, <3>1, <4>1
      <4>3. Above(calls[l], calls[l + 1])
        BY <1>1, <4>2 DEF Grows
      <4>4. Floor(calls[l]) < calls[k].base
        BY <2>4, <4>2, <4>3 DEF Above
      <4>5. i # l => Floor(calls[i]) <= calls[l].base
        BY <1>4, <4>2
      <4>6. /\ Floor(calls[i]) \in Nat /\ calls[l].base \in Nat /\ Floor(calls[l]) \in Nat
            /\ calls[l].base <= Floor(calls[l]) /\ calls[k].base \in Nat
        BY <1>4, <2>2, <4>2
      <4>7. CASE i = l
        BY <4>4, <4>7
      <4>8. CASE i # l
        BY <4>4, <4>5, <4>6, <4>8
      <4> QED BY <4>7, <4>8
    <3> QED BY <3>1
  <2>7. Floor(calls[k]) <= m /\ calls[k].base \in Nat /\ calls[k].base <= m
    BY <1>4, <2>2, <2>5
  <2>8. CASE calls[k].base = m
    <3>1. \A i \in k..n : i = k \/ i = n
      BY <2>2
    <3>2. Lower(calls, n, k, m)
      BY <1>5, <2>2, <2>4, <2>6, <2>8, <3>1 DEF Lower
    <3> QED BY <1>1, <1>2, <3>2
  <2>9. CASE calls[k].base # m
    <3>1. calls[k].base < m
      BY <1>3, <2>7, <2>9
    <3>2. \A i \in 1..n : i < n => i = k \/ i < k
      BY <2>2
    <3>3. ASSUME NEW i \in 1..n, i < n
          PROVE  Floor(calls[i]) < m
      <4>1. CASE i = k
        BY <2>5, <3>1, <4>1
      <4>2. CASE i < k
        <5>1. Floor(calls[i]) < calls[k].base /\ Floor(calls[i]) \in Nat
          BY <1>4, <2>6, <4>2
        <5> QED BY <1>3, <2>7, <3>1, <5>1
      <4> QED BY <3>2, <3>3, <4>1, <4>2
    <3>4. \A i \in n..n : i = n
      BY <1>3
    <3>5. Lower(calls, n, n, m)
      BY <1>3, <1>5, <3>3, <3>4 DEF Lower
    <3> QED BY <1>1, <1>2, <3>5
  <2> QED BY <2>8, <2>9
<1> QED BY <1>6, <1>7

LEMMA ClipsPaint ==
  ASSUME LInv, NInv, Patient, calls # << >>, IsPaint(Here.fn), NEW s2, Clipped(gs, s2),
         NEW d2 \in Opened("clip"), NEW g, g.fn = Here.fn, g.base = Here.base, NEW l2,
         ~l2 => ~lost /\ \A w : Bears(Here, State.blend, w) => w \in Clips /\ Bears(g, State.blend, w)
  PROVE  Nests(Goes(g), s2, d2, l2)
<1>1. PICK n : n = Len(calls)
  OBVIOUS
<1>2. PICK m : m = Len(gs)
  OBVIOUS
<1>3. /\ IsSeq(calls) /\ n \in Nat /\ n >= 1 /\ n \in 1..n /\ Here = calls[n] /\ m \in Nat
  BY <1>1, <1>2, HereIn
<1>4. Nests(calls, gs, dev, lost) /\ Grows(calls, gs) /\ Rising(gs)
  BY NInvIs
<1>5. m >= 1 /\ Len(s2) = m
  BY <1>2 DEF Clipped
<1>6. /\ Rising(s2)
      /\ \A i \in 0..m - 1 : ClipsOf(s2, i) = ClipsOf(gs, i)
      /\ ClipsOf(s2, m) = ClipsOf(gs, m) + 1
      /\ \A i \in 1..m : s2[i].blend = gs[i].blend
      /\ \A i \in 0..m : i + 1 < m => (Even(gs, i) => Even(s2, i))
  BY <1>2, <1>4, ClippedIs
<1>7. PICK j : Lower(calls, n, j, m)
  BY <1>1, <1>2, <1>4, PaintLower
<1>8. /\ j \in 1..n /\ j \in Nat /\ \A i \in j..n : calls[i].base = m /\ (i # n => calls[i].fn = "stream")
      /\ \A i \in 1..n : i < j => Floor(calls[i]) < m
  BY <1>3, <1>7 DEF Lower
<1>9. \A i \in 1..n : /\ calls[i].base \in Nat /\ Floor(calls[i]) \in Nat
                      /\ calls[i].base <= Floor(calls[i])
                      /\ IsPaint(calls[i].fn) => calls[i].base \in 1..m
  BY <1>1, <1>2, BasesIn DEF Ordered
<1>10. \A i \in 1..n : i < j => calls[i].base \in 0..m - 1
  <2>1. ASSUME NEW i \in 1..n, i < j
        PROVE  calls[i].base \in 0..m - 1
    <3>1. /\ calls[i].base \in Nat /\ Floor(calls[i]) \in Nat
          /\ calls[i].base <= Floor(calls[i]) /\ Floor(calls[i]) < m
      BY <1>8, <1>9, <2>1
    <3> QED BY <1>3, <3>1
  <2> QED BY <2>1
<1>11. Grows(Goes(g), s2)
  <2>1. ASSUME NEW i \in 1..n, i # n, Raised(calls[i])
        PROVE  Even(s2, calls[i].base)
    <3>1. i < j
      <4>1. CASE i \in j..n
        BY <1>8, <2>1, <4>1 DEF Raised
      <4>2. CASE i \notin j..n
        BY <1>8, <4>2
      <4> QED BY <4>1, <4>2
    <3>2. Floor(calls[i]) = calls[i].base + 1 /\ Floor(calls[i]) < m
      BY <1>8, <2>1, <3>1 DEF Floor
    <3>3. calls[i].base \in 0..m /\ calls[i].base + 1 < m
      <4>1. calls[i].base \in Nat
        BY <1>9
      <4> QED BY <1>3, <3>2, <4>1
    <3>4. Even(gs, calls[i].base)
      BY <1>1, <1>4, <2>1 DEF Grows
    <3> QED BY <1>6, <3>3, <3>4
  <2>2. ~Raised(g)
    BY DEF Raised, IsPaint, Named
  <2>3. Grows(Replaced(calls, n, g), s2)
    BY <1>1, <1>3, <1>4, <1>6, <2>1, <2>2, GrowsTop
  <2> QED BY <1>1, <2>3, GoesIs
<1>12. ASSUME ~l2
       PROVE  Fits(Goes(g), s2, d2)
  <2>1. Fits(calls, gs, dev)
    BY <1>4, <1>12 DEF Nests
  <2>2. IsDev(dev)
    BY <2>1 DEF Fits, FitsWith, Laid
  <2>3. ClipOpened(dev, d2)
    BY <2>2, ClipOpens
  <2>4. \A i \in 1..n : ClipsOf(s2, calls[i].base)
          = IF i < j THEN ClipsOf(gs, calls[i].base) ELSE ClipsOf(gs, calls[i].base) + 1
    <3>1. ASSUME NEW i \in 1..n, ~(i < j)
          PROVE  calls[i].base = m
      <4>1. i \in j..n
        BY <1>8, <3>1
      <4> QED BY <1>8, <4>1
    <3> QED BY <1>6, <1>10, <3>1
  <2>5. ClipsOf(s2, Len(s2)) = ClipsOf(gs, Len(gs)) + 1
    BY <1>2, <1>5, <1>6
  <2>6. \A i \in 1..n : i # n /\ IsPaint(calls[i].fn) =>
          s2[calls[i].base].blend = gs[calls[i].base].blend
    BY <1>6, <1>9
  <2>7. \A i \in j..n : i # n => calls[i].fn = "stream"
    BY <1>8
  <2>8. Here.base = m
    BY <1>3, <1>8
  <2>9. gs[Here.base].blend = State.blend /\ s2[Here.base].blend = State.blend
    BY <1>2, <1>3, <1>5, <1>6, <2>8 DEF State
  <2>10. \A w : Bears(Here, gs[Here.base].blend, w)
                  => w \in Clips /\ Bears(g, s2[Here.base].blend, w)
    BY <1>12, <2>9
  <2>11. Fits(Replaced(calls, n, g), s2, d2)
    BY <1>1, <1>3, <1>8, <2>1, <2>3, <2>4, <2>5, <2>6, <2>7, <2>10, FitsShift
  <2> QED BY <1>1, <2>11, GoesIs
<1> QED BY <1>11, <1>12 DEF Nests

\* a form's box is clipped to
LEMMA ClipsForm ==
  ASSUME LInv, NInv, Patient, calls # << >>, Raised(Here), Len(gs) = Here.base + 1,
         NEW s2, Clipped(gs, s2), NEW d2 \in Opened("clip"),
         NEW g, g.fn = Here.fn, g.base = Here.base, ~Raised(g),
         \A b, w : Bears(Here, b, w) => Bears(g, b, w), ~IsPaint(Here.fn)
  PROVE  Nests(Goes(g), s2, d2, lost)
<1>1. PICK n : n = Len(calls)
  OBVIOUS
<1>2. PICK m : m = Len(gs)
  OBVIOUS
<1>3. /\ IsSeq(calls) /\ n \in Nat /\ n >= 1 /\ n \in 1..n /\ Here = calls[n] /\ m \in Nat
      /\ Here.base \in Nat
  BY <1>1, <1>2, HereIn
<1>4. Nests(calls, gs, dev, lost) /\ Grows(calls, gs) /\ Rising(gs)
  BY NInvIs
<1>5. m >= 1 /\ Len(s2) = m /\ Here.base = m - 1
  <2>1. m = Here.base + 1
    BY <1>2
  <2> QED BY <1>2, <1>3, <2>1 DEF Clipped
<1>6. /\ Rising(s2)
      /\ \A i \in 0..m - 1 : ClipsOf(s2, i) = ClipsOf(gs, i)
      /\ ClipsOf(s2, m) = ClipsOf(gs, m) + 1
      /\ \A i \in 1..m : s2[i].blend = gs[i].blend
      /\ \A i \in 0..m : i + 1 < m => (Even(gs, i) => Even(s2, i))
  BY <1>2, <1>4, ClippedIs
<1>7. \A i \in 1..n : /\ calls[i].base \in Nat /\ Floor(calls[i]) \in Nat
                      /\ calls[i].base <= Floor(calls[i])
                      /\ i # n => Floor(calls[i]) <= m - 1
                      /\ IsPaint(calls[i].fn) => calls[i].base \in 1..m
  <2>1. \A i \in 1..n : /\ calls[i].base \in Nat /\ Floor(calls[i]) \in Nat
                        /\ calls[i].base <= Floor(calls[i])
                        /\ i < n => Floor(calls[i]) <= calls[n].base
                        /\ IsPaint(calls[i].fn) => calls[i].base \in 1..m
    BY <1>1, <1>2, <1>3, BasesIn DEF Ordered
  <2>2. \A i \in 1..n : i # n => i < n
    BY <1>3
  <2> QED BY <1>3, <1>5, <2>1, <2>2
<1>8. \A i \in 1..n : calls[i].base \in 0..m - 1
  <2>1. ASSUME NEW i \in 1..n
        PROVE  calls[i].base \in 0..m - 1
    <3>1. CASE i = n
      BY <1>3, <1>5, <3>1
    <3>2. CASE i # n
      <4>1. /\ calls[i].base \in Nat /\ Floor(calls[i]) \in Nat
            /\ calls[i].base <= Floor(calls[i]) /\ Floor(calls[i]) <= m - 1
        BY <1>7, <3>2
      <4> QED BY <1>3, <4>1
    <3> QED BY <3>1, <3>2
  <2> QED BY <2>1
<1>9. Grows(Goes(g), s2)
  <2>1. ASSUME NEW i \in 1..n, i # n, Raised(calls[i])
        PROVE  Even(s2, calls[i].base)
    <3>1. Floor(calls[i]) = calls[i].base + 1 /\ Floor(calls[i]) <= m - 1
      BY <1>7, <2>1 DEF Floor
    <3>2. calls[i].base \in 0..m /\ calls[i].base + 1 < m
      <4>1. calls[i].base \in Nat
        BY <1>7
      <4> QED BY <1>3, <3>1, <4>1
    <3>3. Even(gs, calls[i].base)
      BY <1>1, <1>4, <2>1 DEF Grows
    <3> QED BY <1>6, <3>2, <3>3
  <2>2. Grows(Replaced(calls, n, g), s2)
    BY <1>1, <1>3, <1>4, <1>6, <2>1, GrowsTop
  <2> QED BY <1>1, <2>2, GoesIs
<1>10. ASSUME ~lost
       PROVE  Fits(Goes(g), s2, d2)
  <2>1. Fits(calls, gs, dev)
    BY <1>4, <1>10 DEF Nests
  <2>2. PICK e : e = ClipsOf(gs, Here.base)
    OBVIOUS
  <2>3. PICK c : c = ClipsOf(gs, m)
    OBVIOUS
  <2>4. e \in Nat /\ c \in Nat /\ e <= c
    <3>1. Here.base \in 0..m /\ m \in 0..m /\ Here.base <= m
      BY <1>3, <1>5
    <3> QED BY <1>2, <1>3, <1>4, <2>2, <2>3, <3>1, RisingAll
  <2>5. c + 1 \in Nat /\ e <= c + 1 /\ (c - e) + 1 = (c + 1) - e
    BY <2>4
  <2>6. ASSUME NEW w, NEW x, Bears(Here, gs[Here.base].blend, w), Top(dev, x, w, c - e)
        PROVE  \E v : /\ Bears(g, s2[Here.base].blend, v) /\ v \in Seq(Kinds)
                      /\ Top(d2, x, v, (c + 1) - e) /\ Keeps(dev, d2, x)
    <3>1. Top(d2, x, w, (c + 1) - e) /\ Keeps(dev, d2, x)
      BY <2>5, <2>6, TopClips
    <3>2. Bears(g, gs[Here.base].blend, w)
      BY <2>6
    <3>3. Bears(g, s2[Here.base].blend, w)
      BY <3>2, BearsAny
    <3>4. w \in Seq(Kinds)
      BY <2>6 DEF Top
    <3> QED BY <3>1, <3>3, <3>4
  <2>7. \A i \in 1..n : ClipsOf(s2, calls[i].base) = ClipsOf(gs, calls[i].base)
    BY <1>6, <1>8
  <2>8. \A i \in 1..n : i # n /\ IsPaint(calls[i].fn) =>
          s2[calls[i].base].blend = gs[calls[i].base].blend
    BY <1>6, <1>7
  <2>9. e = ClipsOf(gs, Here.base) /\ c = ClipsOf(gs, Len(gs)) /\ c + 1 = ClipsOf(s2, Len(s2))
    BY <1>2, <1>5, <1>6, <2>2, <2>3
  <2>10. IsSeq(calls) /\ n = Len(calls) /\ n >= 1 /\ Here = calls[n]
    BY <1>1, <1>3
  <2>11. g.fn = Here.fn /\ g.base = Here.base
    BY <1>1
  <2>12. PICK z : z = c + 1
    OBVIOUS
  <2>13. z \in Nat /\ e <= z /\ z = ClipsOf(s2, Len(s2))
    BY <2>5, <2>9, <2>12
  <2>14. TopGoes(Here, g, e, c, z, gs, s2, d2)
    <3>1. TopGoes(Here, g, e, c, c + 1, gs, s2, d2)
      BY <2>6, Zenon DEF TopGoes
    <3> QED BY <2>12, <3>1
  <2>15. StaysBelow(n, gs, s2)
    BY <2>7, <2>8, Zenon DEF StaysBelow
  <2>16. Fits(Replaced(calls, n, g), s2, d2)
    BY <2>1, <2>9, <2>10, <2>11, <2>13, <2>14, <2>15, FitsHere
  <2> QED BY <1>1, <2>16, GoesIs
<1> QED BY <1>9, <1>10 DEF Nests

\* the state, with a clip more
LEMMA ClippedNext ==
  ASSUME LInv, SInv, Len(gs) \in 1..Len(gs), IsState(State, Len(gs)), Rising(gs),
         gs' = [gs EXCEPT ![Len(gs)].clips = @ + 1]
  PROVE  Clipped(gs, gs')
<1>1. PICK n : n = Len(gs)
  OBVIOUS
<1>2. IsSeq(gs) /\ n \in Nat /\ n \in 1..n
  BY <1>1, Seqs
<1>3. gs' = Replaced(gs, n, [State EXCEPT !.clips = State.clips + 1])
  BY <1>1 DEF Replaced, State
<1>4. \A v : [State EXCEPT !.clips = v].clips = v /\ [State EXCEPT !.clips = v].blend = State.blend
  BY StateFields
<1>5. PICK x : x = [State EXCEPT !.clips = State.clips + 1]
  OBVIOUS
<1>6. gs' = Replaced(gs, n, x)
  BY <1>3, <1>5, Zenon
<1>7. x.clips = State.clips + 1 /\ x.blend = State.blend
  BY <1>4, <1>5, Zenon
<1>8. Len(gs') = n /\ gs'[n] = x /\ \A i \in 1..n : i # n => gs'[i] = gs[i]
  BY <1>1, <1>2, <1>6, ReplacedSeq
<1>9. n >= 1
  BY <1>2
<1>10. State = gs[n]
  BY <1>1 DEF State
<1> QED BY <1>1, <1>2, <1>7, <1>8, <1>9, <1>10 DEF Clipped

\* where something is clipped to
LEMMA ClipsWhere ==
  ASSUME LInv, Patient, calls # << >>, Here.todo # << >>, Here.todo[1][1] = "clip"
  PROVE  \/ IsPaint(Here.fn)
         \/ /\ Here.fn = "form" /\ Here.todo[1] = Do("clip") /\ Len(gs) = Here.base + 1
            /\ Raised(Here) /\ Tail(Here.todo) # << >> /\ Tail(Here.todo)[1] = Do("contents")
<1>1. /\ At(Here, Len(gs), csi.gbot, csi.gparent) /\ Shaped(Here) /\ Len(gs) \in Nat
      /\ Here.base \in Nat
  BY ReadyLevel
<1>2. StrongAt(Here, Here.todo, Here.onErr, Here.pend, Len(gs), csi.gbot, csi.gparent)
  BY <1>1 DEF At, LevelAt
<1>3. Here.todo[1] \in StepsOf(Here.fn)
  BY <1>1, StepIn
<1>4. PICK z : z = Here.todo[1]
  OBVIOUS
<1>5. z[1] = "clip"
  BY <1>4
<1>6. z \notin OuterSteps \cup StreamWords
  BY <1>5, StepNames DEF OuterSteps, StreamWords
<1>7. Here.fn \notin Outer /\ Here.fn # "stream"
  BY <1>3, <1>4, <1>6 DEF StepsOf
<1>8. Here.fn # "mask" /\ Here.fn # "cell"
  BY <1>1, HeadFacts
<1>9. Here.fn # "pattern"
  <2>1. SUFFICES ASSUME Here.fn = "pattern"
                 PROVE  FALSE
    OBVIOUS
  <2>2. PatternAt(Here, Here.todo, Here.onErr, Here.pend, Len(gs), csi.gbot, csi.gparent)
    BY <1>2, <2>1 DEF StrongAt
  <2>3. Here.todo \notin TileUp \cup TileFlat
    BY UpNext, FlatNext
  <2>4. Here.todo # <<Do("always")>> /\ Here.todo # <<Do("grestore")>>
    <3>1. <<Do("always")>>[1][1] = "always" /\ <<Do("grestore")>>[1][1] = "grestore"
      BY Tuples, StepNames
    <3> QED BY <3>1
  <2> QED BY <2>2, <2>3, <2>4, Zenon DEF PatternAt
<1>10. CASE Here.fn = "form"
  <2>1. /\ Here.todo \in Before(Here.form) /\ Here.onErr = FormEnd(Here.form)
    BY <1>1, <1>10, FormStep, Zenon
  <2>2. Here.todo # FormEnd(Here.form)
    <3>1. FormEnd(Here.form)[1][1] = "always"
      BY EndNext
    <3> QED BY <3>1
  <2>3. Tail(Here.todo) # << >> /\ InOrder(Here.todo[1], Tail(Here.todo)[1])
    BY <2>1, <2>2, FormHeads
  <2>4. Here.todo[1] = Do("clip") /\ Tail(Here.todo)[1] = Do("contents")
    <3>1. PICK a, c : a = Here.todo[1] /\ c = Tail(Here.todo)[1]
      OBVIOUS
    <3>2. InOrder(a, c) /\ a[1] = "clip"
      BY <2>3, <3>1
    <3>3. Do("contents")[1] = "contents" /\ Open("group")[1] = "open" /\ Do("reset")[1] = "reset"
          /\ Do("softmask")[1] = "softmask"
      BY StepNames
    <3>4. a = Do("clip") /\ c = Do("contents")
      BY <3>2, <3>3 DEF InOrder
    <3> QED BY <3>1, <3>4
  <2>5. Raised(Here)
    BY <1>10, <2>4 DEF Raised, Entering
  <2>6. Len(gs) = Here.base + 1
    <3>1. FormAt(Here, Here.todo, Here.onErr, Here.pend, Len(gs), csi.gbot, csi.gparent)
      BY <1>2, <1>10 DEF StrongAt
    <3>2. Here.onErr # << >>
      BY <2>1, EndNext
    <3> QED BY <2>2, <3>1, <3>2 DEF FormAt
  <2> QED BY <1>10, <2>3, <2>4, <2>5, <2>6
<1> QED BY <1>7, <1>8, <1>9, <1>10 DEF IsPaint, Named

LEMMA ClipNests ==
  ASSUME LInv, SInv, NInv, Patient, ClipStep
  PROVE  Nests(calls', gs', dev', lost')
<1>1. /\ Next1("clip") /\ gs' = [gs EXCEPT ![Len(gs)].clips = @ + 1] /\ dev' \in Opened("clip")
      /\ calls' = Past /\ lost' = lost
  BY DEF ClipStep
<1>2. /\ calls # << >> /\ Here.todo # << >> /\ Here.todo[1][1] = "clip"
      /\ Len(gs) \in 1..Len(gs) /\ IsState(State, Len(gs))
  BY <1>1, At1, NextGoes DEF SInv
<1>3. Clipped(gs, gs')
  BY <1>1, <1>2, NInvIs, ClippedNext
<1>4. PICK g : g = Shorter(Here)
  OBVIOUS
<1>5. Past = Goes(g) /\ Advances(g)
  BY <1>2, <1>4, PastAdvances, Zenon
<1>6. g.fn = Here.fn /\ g.base = Here.base /\ g.todo = Tail(Here.todo)
  BY <1>5 DEF Advances
<1>7. \A b, w : Bears(Here, b, w) => Bears(g, b, w)
  BY <1>2, <1>5, BearsShorter DEF Resting
<1>8. CASE IsPaint(Here.fn)
  <2>1. ASSUME NEW w, Bears(Here, State.blend, w)
        PROVE  w \in Clips
    <3>1. PICK v \in Seq(Kinds) : Turns(Here.fn, Here.soft, State.blend, Here.todo[1], w, v)
      BY <1>2, <1>5, <2>1, HereIn, BearsPast DEF Advances
    <3> QED BY <1>2, <1>8, <3>1, TurnsWhat
  <2>2. Nests(Goes(g), gs', dev', lost')
    BY <1>1, <1>2, <1>3, <1>6, <1>7, <1>8, <2>1, ClipsPaint
  <2> QED BY <1>1, <1>5, <2>2
<1>9. CASE ~IsPaint(Here.fn)
  <2>1. /\ Here.fn = "form" /\ Len(gs) = Here.base + 1 /\ Raised(Here)
        /\ Tail(Here.todo) # << >> /\ Tail(Here.todo)[1] = Do("contents")
    BY <1>2, <1>9, ClipsWhere
  <2>2. ~Raised(g)
    <3>1. g.fn = "form" /\ g.todo[1] = Do("contents")
      BY <1>6, <2>1
    <3>2. /\ Do("contents")[1] = "contents" /\ Do("softmask")[1] = "softmask"
          /\ Open("group")[1] = "open" /\ Do("reset")[1] = "reset" /\ Do("clip")[1] = "clip"
      BY StepNames
    <3>3. Do("contents") \notin {Do("softmask"), Open("group"), Do("reset"), Do("clip")}
      BY <3>2
    <3> QED BY <3>1, <3>3 DEF Raised, Entering
  <2>3. Nests(Goes(g), gs', dev', lost)
    BY <1>1, <1>2, <1>3, <1>6, <1>7, <1>9, <2>1, <2>2, ClipsForm
  <2> QED BY <1>1, <1>5, <2>3
<1> QED BY <1>8, <1>9

\* where a text is clipped to
ClippingText == Next1("clip text")
LEMMA ClippingTextIs ==
  ASSUME LInv, Patient, ClippingText
  PROVE  /\ calls # << >> /\ Here.todo # << >> /\ Len(gs) \in 1..Len(gs)
         /\ GoodStates => IsState(State, Len(gs))
         /\ IsPaint(Here.fn) /\ Throwing /\ \A s : Done(s, dev)
         /\ \A b, k, k2 : Turns(Here.fn, Here.soft, b, Here.todo[1], k, k2)
                            => k2 = k /\ (b \/ k \in Clips)
         /\ Here.fn = "form" => Here.todo[1][1] \notin {"always", "leave form"}
<1>1. PICK w : w = "clip text"
  BY Zenon
<1>2. Next1(w)
  BY <1>1, Zenon DEF ClippingText
<1>3. calls # << >> /\ Here.todo # << >> /\ Here.todo[1][1] = w
  BY <1>2, NextGoes
<1>4. w \notin {"page", "annot", "open", "new", "close"}
  BY <1>1, Zenon
<1>5. Len(gs) \in 1..Len(gs) /\ (GoodStates => IsState(State, Len(gs)))
  BY <1>2, <1>4, At1
<1>6. \A s : Done(s, dev)
  BY <1>1, <1>3, DoneQuiet, Zenon
<1>7. w \notin {"open", "form", "end mask", "always", "leave form"}
  BY <1>1, Zenon
<1>8. Throwing
  BY <1>3, <1>7, Zenon DEF Throwing
<1>9. /\ At(Here, Len(gs), csi.gbot, csi.gparent) /\ Shaped(Here) /\ Len(gs) \in Nat
  BY <1>3, ReadyLevel
<1>10. Here.fn \notin Outer \cup {"stream", "form"}
  BY <1>1, <1>3, <1>9, StepIn, Zenon
<1>11. Here.fn # "mask" /\ Here.fn # "cell"
  <2>1. w \notin {"gsave", "contents", "grestore", "down"} /\ w \notin {"open", "form", "end mask"}
    BY <1>1, Zenon
  <2>2. /\ Here.fn = "mask" => w \in {"open", "form", "end mask"}
        /\ Here.fn = "cell" => w \in {"gsave", "contents", "grestore", "down"}
    BY <1>3, <1>9, HeadFacts, Zenon
  <2> QED BY <2>1, <2>2, Zenon
<1>12. Here.fn # "pattern"
  <2>1. SUFFICES ASSUME Here.fn = "pattern"
                 PROVE  FALSE
    OBVIOUS
  <2>2. PatternAt(Here, Here.todo, Here.onErr, Here.pend, Len(gs), csi.gbot, csi.gparent)
    BY <1>9, <2>1 DEF StrongAt, At, LevelAt
  <2>3. w \notin {"contents", "grestore", "open", "down", "close", "cell", "gsave", "always"}
    BY <1>1, Zenon
  <2>4. Here.todo \notin TileUp \cup TileFlat
    <3>1. \A t \in TileUp \cup TileFlat :
            t[1][1] \in {"contents", "grestore", "open", "down", "close", "cell", "gsave", "always"}
      BY UpNext, FlatNext
    <3> QED BY <1>3, <2>3, <3>1, Zenon
  <2>5. Here.todo # <<Do("always")>> /\ Here.todo # <<Do("grestore")>>
    <3>1. <<Do("always")>>[1][1] = "always" /\ <<Do("grestore")>>[1][1] = "grestore"
      BY Tuples, StepNames
    <3> QED BY <1>3, <2>3, <3>1, Zenon
  <2> QED BY <1>3, <2>2, <2>4, <2>5, Zenon DEF PatternAt
<1>13. IsPaint(Here.fn)
  BY <1>10, <1>11, <1>12 DEF IsPaint, Named
<1>14. ASSUME NEW b, NEW k, NEW k2, Turns(Here.fn, Here.soft, b, Here.todo[1], k, k2)
       PROVE  k2 = k /\ (b \/ k \in Clips)
  <2>1. w \notin {"open", "close", "unmask", "end blend", "end mask"}
    BY <1>1, Zenon
  <2> QED BY <1>1, <1>3, <1>13, <1>14, <2>1, Zenon DEF Turns
<1>15. Here.todo[1][1] \notin {"always", "leave form"}
  BY <1>3, <1>7, Zenon
<1> QED BY <1>3, <1>5, <1>6, <1>8, <1>13, <1>14, <1>15, Zenon

LEMMA ClipTextNests ==
  ASSUME LInv, SInv, NInv, Patient, ClipText
  PROVE  Nests(calls', gs', dev', lost')
<1>1. /\ ClippingText
      /\ \/ /\ gs' = [gs EXCEPT ![Len(gs)].clips = @ + 1] /\ dev' \in Opened("clip")
            /\ calls' = Past /\ lost' = (lost \/ State.blend)
         \/ /\ gs' = gs /\ dev' = dev
            /\ (calls' = Past /\ lost' = lost) \/ Throw(Past, "bad")
  BY Zenon DEF ClipText, ClippingText
<1>2. /\ calls # << >> /\ Here.todo # << >> /\ Len(gs) \in 1..Len(gs)
      /\ IsState(State, Len(gs)) /\ IsPaint(Here.fn) /\ Throwing /\ \A s : Done(s, dev)
      /\ \A b, k, k2 : Turns(Here.fn, Here.soft, b, Here.todo[1], k, k2)
                            => k2 = k /\ (b \/ k \in Clips)
  BY <1>1, ClippingTextIs DEF SInv
<1>3. CASE /\ gs' = [gs EXCEPT ![Len(gs)].clips = @ + 1] /\ dev' \in Opened("clip")
           /\ calls' = Past /\ lost' = (lost \/ State.blend)
  <2>1. Clipped(gs, gs')
    BY <1>2, <1>3, NInvIs, ClippedNext
  <2>2. PICK g : g = Shorter(Here)
    OBVIOUS
  <2>3. Past = Goes(g) /\ Advances(g)
    BY <1>2, <2>2, PastAdvances, Zenon
  <2>4. ASSUME ~lost', NEW w, Bears(Here, State.blend, w)
        PROVE  w \in Clips /\ Bears(g, State.blend, w)
    <3>1. ~State.blend
      BY <1>3, <2>4
    <3>2. PICK v \in Seq(Kinds) : Turns(Here.fn, Here.soft, State.blend, Here.todo[1], w, v)
                                  /\ Bears(g, State.blend, v)
      BY <1>2, <2>3, <2>4, HereIn, BearsPast DEF Advances
    <3>3. v = w /\ (State.blend \/ w \in Clips)
      BY <1>2, <3>2
    <3> QED BY <3>1, <3>2, <3>3
  <2>5. ~lost' => ~lost
    BY <1>3
  <2>6. Nests(Goes(g), gs', dev', lost')
    BY <1>2, <1>3, <2>1, <2>3, <2>4, <2>5, ClipsPaint DEF Advances
  <2> QED BY <1>3, <2>3, <2>6
<1>4. CASE gs' = gs /\ dev' = dev /\ calls' = Past /\ lost' = lost
  BY <1>2, <1>4, PastNests
<1>5. CASE gs' = gs /\ dev' = dev /\ Throw(Past, "bad")
  <2>1. Done(gs, dev')
    BY <1>2, <1>5
  <2> QED BY <1>2, <1>5, <2>1, ThrowPastNests, Zenon
<1> QED BY <1>1, <1>3, <1>4, <1>5

-----------------------------------------------------------------------------
(* What steps open and close, one by one                                   *)

BlendEnd == Do("end blend")
TextClip == Do("clip text")
MaskDone == Do("end mask")
LEMMA TurnsClose ==
  ASSUME NEW fn, NEW m, NEW b, NEW kind, NEW k, NEW step, step = Close(kind)
  PROVE  Turns(fn, m, b, step, Append(k, kind), k) /\ step[1] = "close"
<1>1. step[1] = "close" /\ step[2] = kind
  BY DEF Close
<1>2. step[1] \notin {"open", "unmask", "end blend", "end mask", "softmask", "clip", "clip text"}
      /\ step[1] \in {"open", "close", "unmask", "end blend", "end mask"}
  BY <1>1, Zenon
<1> QED BY <1>1, <1>2, Zenon DEF Turns
LEMMA TurnsOpening ==
  ASSUME NEW fn, NEW m, NEW b, NEW kind, NEW k, NEW step, step = Open(kind)
  PROVE  Turns(fn, m, b, step, k, Append(k, kind)) /\ step[1] = "open"
<1>1. step[1] = "open" /\ step[2] = kind
  BY DEF Open
<1>2. step[1] \notin {"close", "unmask", "end blend", "end mask", "softmask", "clip", "clip text"}
      /\ step[1] \in {"open", "close", "unmask", "end blend", "end mask"}
  BY <1>1, Zenon
<1> QED BY <1>1, <1>2, Zenon DEF Turns
LEMMA TurnsUnmask ==
  ASSUME NEW fn, NEW m, NEW b, NEW k, NEW step, step = Do("unmask")
  PROVE  Turns(fn, m, b, step, k \o SoftOf(m), k) /\ step[1] = "unmask"
<1>1. step[1] = "unmask"
  BY DEF Do
<1>2. step[1] \notin {"open", "close", "end blend", "end mask", "softmask", "clip", "clip text"}
      /\ step[1] \in {"open", "close", "unmask", "end blend", "end mask"}
  BY <1>1, Zenon
<1> QED BY <1>1, <1>2, Zenon DEF Turns
LEMMA TurnsSoft ==
  ASSUME NEW fn, NEW m, NEW b, NEW step, step = Do("softmask")
  PROVE  Turns(fn, m, b, step, << >>, << >>) /\ step[1] = "softmask"
<1>1. step[1] = "softmask"
  BY DEF Do
<1>2. step[1] \notin {"open", "close", "unmask", "end blend", "end mask", "clip", "clip text"}
  BY <1>1, Zenon
<1> QED BY <1>1, <1>2, Zenon DEF Turns
LEMMA TurnsClip ==
  ASSUME NEW fn, NEW m, NEW b, NEW k, IsPaint(fn) => k \in Clips, NEW step, step = Do("clip")
  PROVE  Turns(fn, m, b, step, k, k) /\ step[1] = "clip"
<1>1. step[1] = "clip"
  BY DEF Do
<1>2. step[1] \notin {"open", "close", "unmask", "end blend", "end mask", "softmask", "clip text"}
  BY <1>1, Zenon
<1> QED BY <1>1, <1>2, Zenon DEF Turns
LEMMA TurnsBlend ==
  ASSUME NEW fn, IsPaint(fn), NEW m, NEW b, NEW k, NEW k2
  PROVE  /\ Turns(fn, m, b, BlendEnd, k, k2) <=> (k = (IF b THEN Append(k2, "group") ELSE k2))
         /\ BlendEnd[1] # "unmask" /\ BlendEnd # Do("softmask")
<1>1. PICK step : step = BlendEnd
  OBVIOUS
<1>2. step[1] = "end blend"
  BY <1>1, StepNames, Zenon DEF BlendEnd
<1>3. step[1] \notin {"open", "close", "unmask", "end mask", "softmask", "clip", "clip text"}
      /\ step[1] \in {"open", "close", "unmask", "end blend", "end mask"}
  BY <1>2, Zenon
<1>4. step[1] # "unmask" /\ step # Do("softmask")
  BY <1>3, StepNames, Zenon
<1> QED BY <1>1, <1>2, <1>3, <1>4, Zenon DEF Turns
LEMMA TurnsText ==
  ASSUME NEW fn, NEW m, NEW b, NEW k, b \/ k \in Clips
  PROVE  /\ Turns(fn, m, b, TextClip, k, k)
         /\ TextClip[1] # "unmask" /\ TextClip # Do("softmask")
<1>1. PICK step : step = TextClip
  OBVIOUS
<1>2. step[1] = "clip text"
  BY <1>1, StepNames, Zenon DEF TextClip
<1>3. step[1] \notin {"open", "close", "unmask", "end mask", "softmask", "clip", "end blend"}
  BY <1>2, Zenon
<1>4. step[1] # "unmask" /\ step # Do("softmask")
  BY <1>3, StepNames, ZenonT(30)
<1> QED BY <1>1, <1>2, <1>3, <1>4, Zenon DEF Turns
LEMMA TurnsMask ==
  ASSUME NEW fn, NEW m, NEW b
  PROVE  /\ Turns(fn, m, b, MaskDone, <<"mask">>, <<"clip">>)
         /\ MaskDone[1] # "unmask" /\ MaskDone # Do("softmask")
<1>1. PICK step : step = MaskDone
  OBVIOUS
<1>2. step[1] = "end mask"
  BY <1>1, StepNames, Zenon DEF MaskDone
<1>3. step[1] \notin {"open", "close", "unmask", "clip text", "softmask", "clip", "end blend"}
      /\ step[1] \in {"open", "close", "unmask", "end blend", "end mask"}
  BY <1>2, Zenon
<1>4. step[1] # "unmask" /\ step # Do("softmask")
  BY <1>3, StepNames, Zenon
<1> QED BY <1>1, <1>2, <1>3, <1>4, Zenon DEF Turns

LEMMA KeepsSelf ==
  ASSUME NEW d, NEW x
  PROVE  Keeps(d, d, x)
BY DEF Keeps

\* a bracket more to close
LEMMA BearsClose ==
  ASSUME NEW h, IsSeq(h.todo), h.fn \notin {"form", "stream"}, NEW b, NEW k \in Seq(Kinds), Bears(h, b, k),
         NEW kind \in Kinds, NEW g, g.fn = h.fn, g.soft = h.soft,
         g.todo = <<Close(kind)>> \o h.todo
  PROVE  Bears(g, b, Append(k, kind))
<1>1. PICK step : step = Close(kind)
  OBVIOUS
<1>2. Turns(g.fn, g.soft, b, step, Append(k, kind), k) /\ step[1] = "close"
  BY <1>1, TurnsClose
<1>3. step[1] # "unmask" /\ step # Do("softmask")
  BY <1>2, StepNames
<1>4. Append(k, kind) \in Seq(Kinds)
  BY KindSeqs
<1>5. Leads(g.fn, g.soft, b, h.todo, k, Final(g))
  BY DEF Bears, Final
<1>6. Leads(g.fn, g.soft, b, g.todo, Append(k, kind), Final(g))
  BY <1>1, <1>2, <1>3, <1>4, <1>5, LeadsThen
<1>7. SoftensIn(g.fn, b, h.todo)
  BY DEF Bears, Softens, SoftensIn
<1>8. SoftensIn(g.fn, b, g.todo)
  BY <1>1, <1>3, <1>7, SoftensCons
<1>9. Softens(g, b)
  BY <1>8 DEF Softens, SoftensIn
<1> QED BY <1>6, <1>9 DEF Bears, Rescues

LEMMA EndBlendNests ==
  ASSUME LInv, NInv, Patient, EndBlend
  PROVE  Nests(calls', gs', dev', lost')
<1>1. PICK w : w = "end blend"
  BY Zenon
<1>2. /\ Next1(w) /\ gs' = gs /\ dev' = dev /\ lost' = lost
      /\ calls' = Then(IF State.blend THEN <<Close("group")>> ELSE << >>)
  BY <1>1, Zenon DEF EndBlend
<1>3. calls # << >> /\ Here.todo # << >> /\ Here.todo[1][1] = w
  BY <1>2, NextGoes
<1>4. At(Here, Len(gs), csi.gbot, csi.gparent) /\ Shaped(Here) /\ IsRec(Here)
  BY <1>3, ReadyLevel
<1>6. Here.fn \notin Outer \cup {"stream", "form"}
  BY <1>1, <1>3, <1>4, StepIn, Zenon
<1>7. PICK t : t = (IF State.blend THEN <<Close("group")>> ELSE << >>) \o Tail(Here.todo)
  OBVIOUS
<1>8. PICK g : g = WithTodo(Here, t)
  OBVIOUS
<1>9. calls' = Goes(g)
  <2>1. calls' = Goes([Here EXCEPT !.todo = (IF State.blend THEN <<Close("group")>> ELSE << >>)
                                             \o Tail(@)])
    BY <1>2 DEF Then
  <2> QED BY <1>7, <1>8, <2>1, Zenon DEF WithTodo
<1>10. g.fn = Here.fn /\ g.base = Here.base /\ g.soft = Here.soft /\ g.todo = t
       /\ g.onErr = Here.onErr
  <2>1. Kin(Here, g) /\ g.todo = t /\ g.onErr = Here.onErr /\ g.soft = Here.soft
    BY <1>4, <1>8, WithFields
  <2> QED BY <2>1 DEF Kin
<1>11. Raised(g) => Raised(Here)
  BY <1>6, <1>10 DEF Raised
<1>12. Tail(Here.todo) \in Seq(StepsOf(Here.fn))
  BY <1>3, <1>4, StepIn
<1>13. PICK h : h = Shorter(Here)
  OBVIOUS
<1>14. Advances(h)
  BY <1>3, <1>13, PastAdvances, Zenon
<1>15. /\ h.fn = Here.fn /\ h.soft = Here.soft /\ h.todo = Tail(Here.todo) /\ h.base = Here.base
       /\ h.onErr \in {Here.onErr, << >>}
  BY <1>14 DEF Advances
<1>16. Gives(gs, g, dev)
  <2> SUFFICES ASSUME NEW v, NEW x, NEW b, b = gs[Here.base].blend, NEW e,
                      e = ClipsOf(gs, Len(gs)) - ClipsOf(gs, Here.base),
                      Bears(Here, b, v), Top(dev, x, v, e), ClipsOf(gs, Len(gs)) \in Nat
               PROVE  \E k \in Seq(Kinds) : Bears(g, b, k) /\ Top(dev, x, k, e) /\ Keeps(dev, dev, x)
    BY Zenon DEF Gives
  <2>1. PICK k \in Seq(Kinds) : Turns(Here.fn, Here.soft, b, Here.todo[1], v, k) /\ Bears(h, b, k)
    BY <1>3, <1>4, <1>15, BearsPast
  <2>2. v \in Seq(Kinds)
    BY DEF Top
  <2>3. IsPaint(Here.fn)
    BY <1>1, <1>3, <2>1, Zenon DEF Turns
  <2>4. PaintAt(Here, Here.todo, Here.onErr, Here.pend, Len(gs), csi.gbot, csi.gparent)
    BY <1>4, <2>3 DEF At, LevelAt, StrongAt, IsPaint
  <2>5. b = State.blend
    <3>1. Len(gs) = Here.base
      BY <2>4 DEF PaintAt
    <3> QED BY <3>1 DEF State
  <2>8. v = IF b THEN Append(k, "group") ELSE k
    <3>1. Here.todo[1] \in PaintWords
      BY <1>3, <2>4, HeadTail DEF PaintAt
    <3>2. \A z \in PaintWords : z[1] = "end blend" => z = Do("end blend")
      <4>1. ASSUME NEW z \in PaintWords, z # Do("end blend")
            PROVE  z[1] # "end blend"
        <5>1. \/ z = Do("clip") \/ z = Do("softmask") \/ z = Do("draw") \/ z = Do("pattern")
              \/ z = Do("unmask") \/ z = Do("clip text")
              \/ z = Open("clip") \/ z = Open("group") \/ z = Close("clip") \/ z = Close("group")
          BY <4>1, Zenon DEF PaintWords
        <5> QED BY <5>1, StepNames, ZenonT(30)
      <4> QED BY <4>1, Zenon
    <3>3. Here.todo[1] = BlendEnd
      BY <1>1, <1>3, <3>1, <3>2, Zenon DEF BlendEnd
    <3> QED BY <2>1, <2>3, <3>3, TurnsBlend
  <2>6. IsSeq(h.todo)
    BY <1>12, <1>15 DEF IsSeq
  <2>7. Bears(g, b, v)
    <3>1. CASE b
      <4>1. g.todo = <<Close("group")>> \o h.todo
        BY <1>7, <1>10, <1>15, <2>5, <3>1
      <4>2. v = Append(k, "group")
        BY <2>8, <3>1
      <4>3. Bears(g, b, Append(k, "group"))
        BY <1>6, <1>10, <1>15, <2>1, <2>6, <4>1, BearsClose, KindSeqs
      <4> QED BY <4>2, <4>3
    <3>2. CASE ~b
      <4>1. g.todo = h.todo
        <5>1. t = << >> \o Tail(Here.todo)
          BY <1>7, <2>5, <3>2
        <5> QED BY <1>10, <1>12, <1>15, <5>1, EmptyConcat
      <4>2. v = k
        BY <2>8, <3>2
      <4>3. Final(g) = Final(h)
        BY <1>10, <1>15 DEF Final
      <4>4. g.fn = h.fn /\ g.soft = h.soft /\ g.fn # "form" /\ g.fn # "stream"
        BY <1>6, <1>10, <1>15
      <4>5. Softens(g, b)
        BY <2>1, <4>1, <4>4 DEF Bears, Softens
      <4> QED BY <2>1, <4>1, <4>2, <4>3, <4>4, <4>5 DEF Bears, Rescues
    <3> QED BY <3>1, <3>2
  <2> QED BY <2>2, <2>7, KeepsSelf
<1>17. Nests(Goes(g), gs, dev, lost)
  BY <1>3, <1>10, <1>11, <1>16, NInvIs, NestsGo
<1> QED BY <1>2, <1>9, <1>17

LEMMA BasesNext ==
  ASSUME LInv', Patient
  PROVE  \A i \in 1..Len(calls') : IsPaint(calls'[i].fn) => calls'[i].base \in 1..Len(gs')
<1>1. Stacked(calls', Len(gs'), csi'.gbot, marked')
  BY DEF LInv, IInv
<1>2. Levelled(calls', Len(gs'), csi'.gbot, csi'.gparent)
  BY DEF LInv, Levels
<1>3. IsSeq(calls') /\ \A i \in 1..Len(calls') : Shaped(calls'[i])
  BY <1>1 DEF Stacked
<1>4. Ordered(calls', Len(gs')) /\ Len(gs') \in Nat
  BY OrderedNext
<1>5. \A i \in 1..Len(calls') : calls'[i].base >= 1 \/ calls'[i].fn \in Outer
  BY <1>2, <1>3, <1>4, OrderedIs
<1>6. ASSUME NEW i \in 1..Len(calls'), IsPaint(calls'[i].fn)
      PROVE  calls'[i].base \in 1..Len(gs')
  <2>1. calls'[i].base >= 1
    BY <1>5, <1>6 DEF IsPaint
  <2>2. /\ calls'[i].base \in Nat /\ Floor(calls'[i]) \in Nat /\ calls'[i].base <= Floor(calls'[i])
        /\ Floor(calls'[i]) <= Len(gs')
    BY <1>4 DEF Ordered
  <2> QED BY <1>4, <2>1, <2>2
<1> QED BY <1>6

\* another mask in the current state
LEMMA NestsMask ==
  ASSUME LInv, LInv', Patient, Len(gs) \in 1..Len(gs), IsState(State, Len(gs)),
         NEW m, gs' = [gs EXCEPT ![Len(gs)].soft = m], NEW d, NEW l, Nests(calls', gs, d, l)
  PROVE  Nests(calls', gs', d, l)
<1>1. PICK n : n = Len(gs)
  OBVIOUS
<1>2. IsSeq(gs) /\ n \in Nat /\ n \in 1..n /\ n # 0
  BY <1>1, Seqs
<1>3. PICK x : x = [State EXCEPT !.soft = m]
  OBVIOUS
<1>4. gs' = Replaced(gs, n, x)
  <2>1. gs' = Replaced(gs, n, [State EXCEPT !.soft = m])
    BY <1>1 DEF Replaced, State
  <2> QED BY <1>3, <2>1, Zenon
<1>5. x.clips = State.clips /\ x.blend = State.blend
  <2>1. \A v : [State EXCEPT !.soft = v].clips = State.clips /\ [State EXCEPT !.soft = v].blend = State.blend
    BY StateFields
  <2> QED BY <1>3, <2>1, Zenon
<1>6. Len(gs') = n /\ gs'[n] = x /\ \A i \in 1..n : i # n => gs'[i] = gs[i]
  BY <1>1, <1>2, <1>4, ReplacedSeq
<1>7. State = gs[n]
  BY <1>1 DEF State
<1>8. Ordered(calls', n) /\ IsSeq(calls')
  BY <1>6, OrderedNext
<1>9. Widened(gs, gs')
  <2>1. ASSUME NEW i \in 1..n
        PROVE  gs'[i].clips = ClipsOf(gs, IF i <= n THEN i ELSE n)
    <3>1. gs'[i].clips = gs[i].clips
      BY <1>5, <1>6, <1>7
    <3>2. i # 0 /\ i <= n
      BY <1>2
    <3> QED BY <3>1, <3>2 DEF ClipsOf
  <2> QED BY <1>1, <1>2, <1>6, <2>1 DEF Widened
<1>10. BlendKept(calls', gs, gs')
  <2>1. \A i \in 1..n : gs'[i].blend = gs[i].blend
    BY <1>5, <1>6, <1>7
  <2> QED BY <1>6, <2>1, BasesNext DEF BlendKept
<1> QED BY <1>1, <1>8, <1>9, <1>10, NestsLike

\* end_softmask: the clip that was a soft mask is closed.
LEMMA EndSoftmaskNests ==
  ASSUME LInv, LInv', SInv, NInv, Patient, EndSoftmask
  PROVE  Nests(calls', gs', dev', lost')
<1>1. Next1("unmask")
  BY DEF EndSoftmask
<1>2. /\ calls # << >> /\ Here.todo # << >> /\ Here.todo[1][1] = "unmask"
      /\ Len(gs) \in 1..Len(gs) /\ IsState(State, Len(gs)) /\ Shaped(Here) /\ IsRec(Here)
  BY <1>1, At1, NextGoes, HereIn DEF SInv
<1>3. PICK g : g = Softly(Here, None)
  OBVIOUS
<1>4. \/ Here.soft = None /\ calls' = Past /\ gs' = gs /\ dev' = dev /\ lost' = lost
      \/ /\ Here.soft # None /\ gs' = [gs EXCEPT ![Len(gs)].soft = Here.soft]
         /\ dev' = Closed(1, "clip")
         /\ Throw(Goes(g), "bad") \/ (calls' = Goes(g) /\ lost' = lost)
  <2>1. \/ Here.soft = None /\ calls' = Past /\ gs' = gs /\ dev' = dev /\ lost' = lost
        \/ /\ Here.soft # None /\ gs' = [gs EXCEPT ![Len(gs)].soft = Here.soft]
           /\ dev' = Closed(1, "clip")
           /\ \/ Throw(Goes(Softly(Here, None)), "bad")
              \/ calls' = Goes(Softly(Here, None)) /\ lost' = lost
    BY Zenon DEF EndSoftmask, Softly
  <2> QED BY <1>3, <2>1, Zenon
<1>5. CASE Here.soft = None /\ calls' = Past /\ gs' = gs /\ dev' = dev /\ lost' = lost
  <2>1. Done(gs, dev')
    BY <1>2, <1>5, DoneQuiet
  <2> QED BY <1>2, <1>5, <2>1, PastNests
<1>6. CASE /\ Here.soft # None /\ gs' = [gs EXCEPT ![Len(gs)].soft = Here.soft]
           /\ dev' = Closed(1, "clip")
           /\ Throw(Goes(g), "bad") \/ (calls' = Goes(g) /\ lost' = lost)
  <2>1. /\ IsRec(g) /\ g.fn = Here.fn /\ g.base = Here.base
        /\ g.todo = Tail(Here.todo) /\ g.onErr = Here.onErr /\ g.soft = None
    BY <1>2, <1>3, SoftlyFields DEF Kin
  <2>2. Here.fn # "stream"
    BY <1>2, StepIn
  <2>3. Shaped(g)
    <3>1. Shaped(Softly(Here, None))
      BY <1>2, <2>2, SoftIs
    <3> QED BY <1>3, <3>1, Zenon
  <2>4. PICK h : h = Shorter(Here)
    OBVIOUS
  <2>5. Advances(h)
    BY <1>2, <2>4, PastAdvances, Zenon
  <2>6. /\ h.fn = Here.fn /\ h.soft = Here.soft /\ h.todo = Tail(Here.todo) /\ h.base = Here.base
        /\ h.onErr \in {Here.onErr, << >>}
    BY <2>5 DEF Advances
  <2>7. Here.fn = "form" => Here.onErr = << >>
    BY <1>2, FormStep, Zenon
  <2>8. Raised(g) => Raised(Here)
    <3>1. Raised(h) => Raised(Here)
      BY <1>2, <2>5, LowersPast
    <3>2. Here.fn = "form" => (Entering(g) <=> Entering(h))
      BY <2>1, <2>6 DEF Entering
    <3> QED BY <2>1, <2>6, <3>1, <3>2 DEF Raised
  <2>9. Flat /\ Grows(calls, gs)
    BY <1>2, NInvIs, FlatHere
  <2>10. Gives(gs, g, dev')
    <3> SUFFICES ASSUME NEW w, NEW x, NEW b, b = gs[Here.base].blend, NEW e,
                        e = ClipsOf(gs, Len(gs)) - ClipsOf(gs, Here.base),
                        Bears(Here, b, w), Top(dev, x, w, e), ClipsOf(gs, Len(gs)) \in Nat
                 PROVE  \E v \in Seq(Kinds) : Bears(g, b, v) /\ Top(dev', x, v, e) /\ Keeps(dev, dev', x)
      BY Zenon DEF Gives
    <3>1. e = 0
      BY <2>9, FlatNone
    <3>2. PICK v \in Seq(Kinds) : Turns(Here.fn, Here.soft, b, Here.todo[1], w, v) /\ Bears(h, b, v)
      BY <1>2, <2>6, BearsPast
    <3>3. w = Append(v, "clip")
      <4>1. w = v \o SoftOf(Here.soft)
        BY <1>2, <3>2, TurnsWhat
      <4>2. SoftOf(Here.soft) = <<"clip">>
        BY <1>6 DEF SoftOf
      <4>3. v \o <<"clip">> = Append(v, "clip")
        BY <3>2
      <4> QED BY <4>1, <4>2, <4>3
    <3>4. Top(dev, x, w, 0)
      BY <3>1
    <3>5. Top(dev', x, v, 0) /\ Keeps(dev, dev', x)
      BY <1>6, <3>2, <3>3, <3>4, TopCloses
    <3>6. Tail(Here.todo) = << >>
      <4>1. Leads(Here.fn, Here.soft, b, Here.todo, w, Final(Here))
        BY DEF Bears
      <4>2. IsSeq(Here.todo)
        BY <1>2, ShapedSeqs
      <4> QED BY <1>2, <4>1, <4>2, LeadsFirst
    <3>7. v = Final(h)
      <4>1. Leads(h.fn, h.soft, b, h.todo, v, Final(h))
        BY <3>2 DEF Bears
      <4>2. h.todo = << >>
        BY <2>6, <3>6
      <4> QED BY <4>1, <4>2, LeadsEnd
    <3>8. Bears(g, b, v)
      <4>1. g.todo = << >>
        BY <2>1, <3>6
      <4>2. Final(g) = v
        BY <2>1, <2>6, <3>7 DEF Final
      <4>3. Leads(g.fn, g.soft, b, << >>, v, v)
        BY <3>2, LeadsNone
      <4>4. Leads(g.fn, g.soft, b, g.todo, v, Final(g))
        BY <4>1, <4>2, <4>3
      <4>5. Softens(g, b)
        <5>1. SoftensIn(g.fn, b, << >>)
          BY SoftensNone
        <5>2. SoftensIn(g.fn, b, g.todo)
          BY <4>1, <5>1
        <5> QED BY <5>2 DEF Softens, SoftensIn
      <4>6. g.fn # "stream" /\ ~(g.fn = "form" /\ g.onErr # << >>)
        BY <2>1, <2>2, <2>7
      <4> QED BY <4>4, <4>5, <4>6 DEF Bears, Rescues
    <3> QED BY <3>1, <3>2, <3>5, <3>8
  <2>11. Nests(Goes(g), gs, dev', lost)
    BY <1>2, <2>1, <2>8, <2>10, NInvIs, NestsGo
  <2>12. Nests(calls', gs, dev', lost')
    <3>1. CASE calls' = Goes(g) /\ lost' = lost
      BY <2>11, <3>1
    <3>2. CASE Throw(Goes(g), "bad")
      <4>1. Throwable(g, "bad")
        <5>1. Here.todo[1][1] \notin {"open", "form", "end mask"}
          BY <1>2, Zenon
        <5> QED BY <1>2, <2>1, <5>1, ThrowableAt, Zenon
      <4> QED BY <1>2, <2>1, <2>3, <2>9, <2>11, <3>2, <4>1, NestsThrowTop
    <3> QED BY <1>6, <3>1, <3>2
  <2> QED BY <1>2, <1>6, <2>12, NestsMask
<1> QED BY <1>4, <1>5, <1>6

-----------------------------------------------------------------------------
(* Calls                                                                   *)

\* With g there for the innermost call, which waits for h, both have open what they must.
Hands(s, g, h) ==
  /\ \A w \in Seq(Kinds) :
       Bears(Here, s[Here.base].blend, w) => Bears(g, s[Here.base].blend, w \o Final(h))
  /\ Bears(h, s[h.base].blend, << >>)
LEMMA NestsPush ==
  ASSUME LInv, calls # << >>, NEW s, NEW l, Nests(calls, s, dev, l),
         NEW g, g.fn = Here.fn, g.base = Here.base, Raised(g) => Raised(Here),
         NEW h, ClipsOf(s, h.base) = ClipsOf(s, Len(s)), Above(g, h), Raised(h) => Even(s, h.base),
         NEW l2, ~l2 => ~l /\ Hands(s, g, h)
  PROVE  Nests(Append(Goes(g), h), s, dev, l2)
<1>1. PICK n : n = Len(calls)
  OBVIOUS
<1>2. IsSeq(calls) /\ n \in Nat /\ n >= 1 /\ n \in 1..n /\ Here = calls[n]
  BY <1>1, HereIn
<1>3. Goes(g) = Replaced(calls, n, g)
  BY <1>1, GoesIs
<1>4. /\ IsSeq(Goes(g)) /\ Len(Goes(g)) = n /\ Goes(g)[n] = g
  BY <1>1, <1>2, <1>3, ReplacedSeq
<1>5. Grows(calls, s) /\ Rising(s)
  BY DEF Nests, Grows
<1>6. \A i \in 1..n : Raised(calls[i]) => Even(s, calls[i].base)
  BY <1>1, <1>5 DEF Grows
<1>7. Raised(g) => Even(s, g.base)
  <2>1. Raised(Here) => Even(s, Here.base)
    BY <1>2, <1>6
  <2> QED BY <2>1
<1>8. Grows(Goes(g), s)
  BY <1>1, <1>2, <1>3, <1>5, <1>6, <1>7, GrowsTop
<1>9. Grows(Append(Goes(g), h), s)
  BY <1>2, <1>4, <1>8, GrowsPush
<1>10. ASSUME ~l2
       PROVE  Fits(Append(Goes(g), h), s, dev)
  <2>1. Fits(calls, s, dev) /\ Hands(s, g, h)
    BY <1>10 DEF Nests
  <2>2. PICK b : b = s[Here.base].blend
    OBVIOUS
  <2>3. /\ \A w \in Seq(Kinds) : Bears(Here, b, w) => Bears(g, b, w \o Final(h))
        /\ Bears(h, s[h.base].blend, << >>)
    BY <2>1, <2>2, Zenon DEF Hands
  <2>4. Fits(Append(Replaced(calls, n, g), h), s, dev)
    BY <1>1, <1>2, <2>1, <2>2, <2>3, FitsPush
  <2> QED BY <1>3, <2>4
<1> QED BY <1>9, <1>10 DEF Nests

\* h is called where the innermost call is as g, and is not a soft mask's
Called(s, g, h) ==
  /\ h.fn # "mask" /\ ClipsOf(s, h.base) = ClipsOf(s, Len(s)) /\ Above(g, h)
  /\ Raised(h) => Even(s, h.base)
  /\ Bears(h, s[h.base].blend, << >>)
LEMMA CallNests ==
  ASSUME LInv, calls # << >>, NEW s, Nests(calls, s, dev, lost), NEW g, Keeping(g),
         NEW h, Called(s, g, h)
  PROVE  Nests(Append(Goes(g), h), s, dev, lost)
<1>1. Final(h) = << >>
  BY DEF Called, Final
<1>2. Hands(s, g, h)
  <2>1. PICK b : b = s[Here.base].blend
    OBVIOUS
  <2>2. ASSUME NEW w \in Seq(Kinds), Bears(Here, b, w)
        PROVE  Bears(g, b, w \o Final(h))
    <3>1. w \o Final(h) = w
      BY <1>1, KindSeqs
    <3>2. Bears(g, b, w)
      BY <2>2, Zenon DEF Keeping
    <3> QED BY <3>1, <3>2
  <2> QED BY <2>1, <2>2, Zenon DEF Hands, Called
<1> QED BY <1>2, NestsPush DEF Keeping, Called

\* past a step that opens and closes nothing, or as it was
LEMMA PastKeeping ==
  ASSUME LInv, calls # << >>, Here.todo # << >>, Here.todo[1][1] \in Resting
  PROVE  \E g : Past = Goes(g) /\ Keeping(g) /\ Advances(g) /\ g = Shorter(Here)
<1>1. PICK g : g = Shorter(Here)
  OBVIOUS
<1>2. Past = Goes(g) /\ Advances(g)
  BY <1>1, PastAdvances, Zenon
<1>3. \A b, w : Bears(Here, b, w) => Bears(g, b, w)
  BY <1>2, BearsShorter
<1>4. Raised(g) => Raised(Here)
  BY <1>2, LowersPast
<1>5. Keeping(g)
  BY <1>2, <1>3, <1>4 DEF Keeping, Advances
<1> QED BY <1>1, <1>2, <1>5

LEMMA HereKeeping ==
  ASSUME LInv, calls # << >>
  PROVE  calls = Goes(Here) /\ Keeping(Here)
BY GoesHere DEF Keeping

\* a call whose steps open and close nothing
LEMMA BearsQuiet ==
  ASSUME NEW h, h.fn \notin {"form", "mask"}, IsSeq(h.todo),
         \A j \in 1..Len(h.todo) : Quiet(h.fn, h.todo[j]) /\ h.todo[j] # Do("softmask"), NEW b
  PROVE  Bears(h, b, << >>)
<1>1. Final(h) = << >>
  BY DEF Final
<1>2. Leads(h.fn, h.soft, b, h.todo, << >>, << >>)
  BY KindSeqs, LeadsQuiet
<1>3. Softens(h, b)
  BY DEF Softens
<1> QED BY <1>1, <1>2, <1>3 DEF Bears, Rescues

\* Where contents are run there is a state that is neither the caller's nor below it.
LEMMA ContentsWhere ==
  ASSUME LInv, Patient, calls # << >>, Here.todo # << >>, Here.todo[1][1] = "contents",
         NEW g, Advances(g)
  PROVE  Floor(g) < Len(gs) /\ g.fn # "mask" /\ ~(g.fn = "form" /\ Opening(g))
<1>1. PICK n, f : n = Len(gs) /\ f = Here
  OBVIOUS
<1>2. /\ At(f, n, csi.gbot, csi.gparent) /\ Shaped(f) /\ n \in Nat /\ f.base \in Nat /\ n >= 1
      /\ f.todo # << >> /\ f.todo[1][1] = "contents"
  <2>1. "contents" \in RunWords
    BY DEF RunWords
  <2> QED BY <1>1, <2>1, ReadyLevel
<1>3. /\ WeakAt(f, f.todo, f.onErr, f.pend, n, csi.gbot)
      /\ StrongAt(f, f.todo, f.onErr, f.pend, n, csi.gbot, csi.gparent)
  BY <1>2 DEF At, LevelAt
<1>4. g.fn = f.fn /\ g.base = f.base /\ g.todo = Tail(f.todo)
  BY <1>1 DEF Advances
<1>5. f.fn # "mask"
  BY <1>2, HeadFacts
<1>6. CASE f.fn \in Outer
  <2>1. f.base = 0 /\ ~Raised(g) /\ g.fn # "form"
    BY <1>3, <1>4, <1>6 DEF StrongAt, PageAt, Raised, Outer
  <2> QED BY <1>1, <1>2, <1>4, <1>5, <2>1 DEF Floor
<1>7. CASE f.fn = "stream"
  BY <1>2, <1>7, StepIn
<1>8. CASE f.fn = "form"
  <2>1. f.todo \in Before(f.form) /\ f.onErr = FormEnd(f.form)
    BY <1>2, <1>8, FormStep, Zenon
  <2>2. f.todo # FormEnd(f.form)
    <3>1. FormEnd(f.form)[1][1] = "always"
      BY EndNext
    <3> QED BY <1>2, <3>1
  <2>3. Tail(f.todo) # << >> /\ InOrder(f.todo[1], Tail(f.todo)[1])
    BY <2>1, <2>2, FormHeads
  <2>4. PICK c : c = Tail(f.todo)[1]
    OBVIOUS
  <2>5. c[1] = "always"
    <3>1. PICK a : a = f.todo[1]
      OBVIOUS
    <3>2. InOrder(a, c) /\ a[1] = "contents"
      BY <1>2, <2>3, <2>4, <3>1
    <3>3. Do("clip")[1] = "clip" /\ Open("group")[1] = "open" /\ Do("reset")[1] = "reset"
          /\ Do("softmask")[1] = "softmask" /\ Do("always")[1] = "always"
      BY StepNames
    <3> QED BY <3>2, <3>3 DEF InOrder
  <2>6. c \notin {Do("softmask"), Open("group"), Do("reset"), Do("clip")}
    <3>1. Do("clip")[1] = "clip" /\ Open("group")[1] = "open" /\ Do("reset")[1] = "reset"
          /\ Do("softmask")[1] = "softmask"
      BY StepNames
    <3> QED BY <2>5, <3>1
  <2>7. ~Entering(g) /\ ~Opening(g)
    BY <1>4, <2>4, <2>6 DEF Entering, Opening
  <2>8. n = f.base + 1
    <3>1. FormAt(f, f.todo, f.onErr, f.pend, n, csi.gbot, csi.gparent)
      BY <1>3, <1>8 DEF StrongAt
    <3>2. f.onErr # << >>
      BY <2>1, EndNext
    <3> QED BY <2>2, <3>1, <3>2 DEF FormAt
  <2>9. Floor(g) = f.base
    BY <1>4, <1>8, <2>7 DEF Floor, Raised
  <2> QED BY <1>1, <1>2, <1>4, <1>5, <2>7, <2>8, <2>9
<1>9. CASE f.fn = "pattern"
  <2>1. PatternAt(f, f.todo, f.onErr, f.pend, n, csi.gbot, csi.gparent)
    BY <1>3, <1>9 DEF StrongAt
  <2>2. f.todo \notin TileFlat
    BY <1>2, FlatNext
  <2>3. f.todo # <<Do("always")>> /\ f.todo # <<Do("grestore")>>
    <3>1. <<Do("always")>>[1][1] = "always" /\ <<Do("grestore")>>[1][1] = "grestore"
      BY Tuples, StepNames
    <3> QED BY <1>2, <3>1
  <2>4. n = f.base + 2
    BY <1>2, <2>1, <2>2, <2>3, Zenon DEF PatternAt
  <2>5. Floor(g) = f.base \/ Floor(g) = f.base + 1
    BY <1>4 DEF Floor
  <2> QED BY <1>1, <1>2, <1>4, <1>9, <2>4, <2>5
<1>10. CASE f.fn = "cell"
  <2>1. CellAt(f, f.todo, f.onErr, f.pend, n, csi.gbot, csi.gparent)
    BY <1>3, <1>10 DEF StrongAt
  <2>2. f.todo \notin CellFlat
    <3>1. CellSteps[1] = Do("gsave") /\ <<Do("down")>>[1] = Do("down")
      BY SixTuples, Tuples DEF CellSteps
    <3>2. CellSteps[1][1] = "gsave" /\ <<Do("down")>>[1][1] = "down"
      BY <3>1, StepNames
    <3> QED BY <1>2, <3>2 DEF CellFlat
  <2>3. n = f.base + 1
    BY <2>1, <2>2, Zenon DEF CellAt
  <2>4. Floor(g) = f.base
    BY <1>4, <1>10 DEF Floor, Raised
  <2> QED BY <1>1, <1>2, <1>4, <1>10, <2>3, <2>4
<1>11. f.fn \in Outer \cup Named
  <2>1. SUFFICES ASSUME f.fn \notin Outer \cup Named
                 PROVE  FALSE
    OBVIOUS
  <2>2. f.todo \in Seq(PaintWords)
    BY <1>3, <2>1 DEF StrongAt, PaintAt
  <2>3. f.todo[1] \in PaintWords
    BY <1>2, <2>2, HeadTail
  <2>4. ASSUME NEW z \in PaintWords
        PROVE  z[1] # "contents"
    <3>1. \/ z \in {Do("clip"), Do("softmask"), Do("draw"), Do("pattern"), Do("unmask")}
          \/ z = Do("end blend") \/ z = Do("clip text")
          \/ z = Open("clip") \/ z = Open("group") \/ z = Close("clip") \/ z = Close("group")
      BY <2>4, Zenon DEF PaintWords
    <3>2. z \in {Do("clip"), Do("softmask"), Do("draw"), Do("pattern"), Do("unmask")}
          => z[1] # "contents"
      <4>1. /\ Do("clip")[1] = "clip" /\ Do("softmask")[1] = "softmask" /\ Do("draw")[1] = "draw"
            /\ Do("pattern")[1] = "pattern" /\ Do("unmask")[1] = "unmask"
        BY StepNames
      <4> QED BY <4>1
    <3>3. z = Do("end blend") \/ z = Do("clip text") => z[1] # "contents"
      <4>1. ASSUME z = Do("end blend") \/ z = Do("clip text")
            PROVE  z[1] = "end blend" \/ z[1] = "clip text"
        BY <4>1, StepNames, Zenon
      <4>2. z[1] = "end blend" \/ z[1] = "clip text" => z[1] # "contents"
        BY Zenon
      <4> QED BY <4>1, <4>2, Zenon
    <3>4. \/ z = Open("clip") \/ z = Open("group") \/ z = Close("clip") \/ z = Close("group")
          => z[1] # "contents"
      <4>1. /\ Open("clip")[1] = "open" /\ Open("group")[1] = "open"
            /\ Close("clip")[1] = "close" /\ Close("group")[1] = "close"
        BY StepNames
      <4> QED BY <4>1
    <3> QED BY <3>1, <3>2, <3>3, <3>4, Zenon
  <2> QED BY <1>2, <2>3, <2>4
<1> QED BY <1>5, <1>6, <1>7, <1>8, <1>9, <1>10, <1>11 DEF Named

\* pdf_run_contents_object
LEMMA ContentsNests ==
  ASSUME LInv, NInv, Patient, RunContents
  PROVE  Nests(calls', gs', dev', lost')
<1>1. /\ calls # << >> /\ Here.todo # << >> /\ Here.todo[1][1] = "contents"
      /\ gs' = gs /\ dev' = dev
  BY NextGoes DEF RunContents
<1>2. "contents" \in Resting
  BY DEF Resting
<1>3. CASE calls' = Calls(Frame("stream", StreamSteps, StreamSteps)) /\ lost' = lost
  <2>1. PICK g : Past = Goes(g) /\ Keeping(g) /\ Advances(g)
    BY <1>1, <1>2, PastKeeping, Zenon
  <2>2. PICK h : h = Frame("stream", StreamSteps, StreamSteps)
    OBVIOUS
  <2>3. h = FrameRec("stream", StreamSteps, StreamSteps, Len(gs), None)
    BY <2>2, RecWith
  <2>4. h.fn = "stream" /\ h.todo = StreamSteps /\ h.base = Len(gs)
    BY <2>3, NewFields
  <2>5. calls' = Append(Goes(g), h)
    BY <1>3, <2>1, <2>2 DEF Calls
  <2>6. \A b : Bears(h, b, << >>)
    <3>1. PICK t : t = StreamSteps
      OBVIOUS
    <3>2. t \in Seq(EndWords)
      BY <3>1, EndWordsAre
    <3>3. \A j \in 1..Len(t) : t[j] \in EndWords
      BY <3>2
    <3>4. IsSeq(t)
      BY <3>2 DEF IsSeq
    <3>5. \A j \in 1..Len(t) : Quiet(h.fn, t[j]) /\ t[j] # Do("softmask")
      BY <3>3, EndWordsAre, Zenon
    <3>6. h.fn \notin {"form", "mask"}
      BY <2>4
    <3> QED BY <2>4, <3>1, <3>4, <3>5, <3>6, BearsQuiet
  <2>7. Above(g, h)
    <3>1. Floor(g) < Len(gs) /\ g.fn # "mask" /\ ~(g.fn = "form" /\ Opening(g))
      BY <1>1, <2>1, ContentsWhere
    <3> QED BY <2>4, <3>1 DEF Above, IsPaint, Named
  <2>8. Called(gs, g, h)
    BY <2>4, <2>6, <2>7 DEF Called, Raised
  <2> QED BY <1>1, <1>3, <2>1, <2>5, <2>8, CallNests, NInvIs
<1>4. CASE Throw(Past, "bad") \/ Throw(Past, "later")
  <2>1. Done(gs, dev')
    BY <1>1, <1>2, DoneQuiet, Zenon
  <2>2. Throwing
    BY <1>1, Zenon DEF Throwing
  <2> QED BY <1>1, <1>4, <2>1, <2>2, ThrowPastNests
<1> QED BY <1>3, <1>4 DEF RunContents, Contents

\* a call whose steps take no soft mask, and close what they open
LEMMA BearsPlain ==
  ASSUME NEW h, h.fn \notin {"form", "mask"}, NEW b,
         Leads(h.fn, h.soft, b, h.todo, << >>, << >>), SoftensIn(h.fn, b, h.todo)
  PROVE  Bears(h, b, << >>)
<1>1. Final(h) = << >>
  BY DEF Final
<1>2. Softens(h, b)
  BY DEF Softens, SoftensIn
<1> QED BY <1>1, <1>2 DEF Bears, Rescues

\* one repeat of a pattern's cell
LEMMA CellNests ==
  ASSUME LInv, NInv, Patient, ShowCell
  PROVE  Nests(calls', gs', dev', lost')
<1>1. /\ calls # << >> /\ Here.todo # << >> /\ Here.todo[1][1] = "cell"
      /\ gs' = gs /\ dev' = dev /\ lost' = lost
  BY NextGoes DEF ShowCell
<1>2. PICK g : Past = Goes(g) /\ Keeping(g) /\ Advances(g)
  <2>1. "cell" \in Resting
    BY DEF Resting
  <2> QED BY <1>1, <2>1, PastKeeping, Zenon
<1>3. PICK s, o : s = CellSteps /\ o = <<Do("grestore"), Do("down")>>
  OBVIOUS
<1>4. PICK h : h = Frame("cell", s, o)
  OBVIOUS
<1>5. calls' = Append(Goes(g), h)
  BY <1>2, <1>3, <1>4 DEF ShowCell, Calls
<1>6. h.fn = "cell" /\ h.todo = s /\ h.base = Len(gs)
  <2>1. h = FrameRec("cell", s, o, Len(gs), None)
    BY <1>4, RecWith
  <2> QED BY <2>1, NewFields
<1>7. \A b : Bears(h, b, << >>)
  <2>1. PICK S : S = {Do("gsave"), Do("contents"), Do("grestore"), Do("down")}
    OBVIOUS
  <2>2. s \in Seq(S)
    BY <1>3, <2>1, SixIn DEF CellSteps
  <2>3. ASSUME NEW z \in S
        PROVE  Quiet("cell", z) /\ z # Do("softmask")
    <3>1. z[1] \in {"gsave", "contents", "grestore", "down"}
      BY <2>1, StepNames
    <3>2. z[1] \notin {"open", "close", "unmask", "softmask", "clip"}
      BY <3>1
    <3>3. z[1] \notin {"end blend", "end mask", "clip text"}
      BY <3>1, Zenon
    <3>4. Do("softmask")[1] = "softmask"
      BY StepNames
    <3>5. Quiet("cell", z)
      BY <3>2, <3>3, Zenon DEF Quiet
    <3> QED BY <3>2, <3>4, <3>5
  <2>4. IsSeq(s) /\ \A j \in 1..Len(s) : s[j] \in S
    BY <2>2 DEF IsSeq
  <2>5. \A j \in 1..Len(s) : Quiet("cell", s[j]) /\ s[j] # Do("softmask")
    BY <2>3, <2>4
  <2> QED BY <1>6, <2>4, <2>5, BearsQuiet
<1>8. Above(g, h)
  <2>1. /\ Here.fn \notin Outer \cup {"stream", "form"} /\ Here.fn # "mask" /\ g.fn = Here.fn
    BY <1>1, <1>2, ReadyLevel, StepIn, HeadFacts DEF Advances
  <2> QED BY <1>6, <2>1 DEF Above, IsPaint, Named
<1>9. Called(gs, g, h)
  BY <1>6, <1>7, <1>8 DEF Called, Raised
<1> QED BY <1>1, <1>2, <1>5, <1>9, CallNests, NInvIs

\* a page, an annotation
LEMMA PagesNests ==
  ASSUME LInv, NInv, Patient, RunPage \/ RunAnnot
  PROVE  Nests(calls', gs', dev', lost')
<1>1. PICK w, fn, s, o : /\ w \in {"page", "annot"} /\ fn \in Outer /\ Next1(w)
                         /\ \/ s \in {PageSteps, AnnotSteps}
                            \/ s = <<Open("group")>> \o PageSteps \o <<Close("group")>>
                         /\ calls' = Calls(FrameKeeping(fn, s, o, 1))
  BY DEF RunPage, RunAnnot, FrameKeeping, Outer
<1>2. /\ calls # << >> /\ Here.todo # << >> /\ Here.todo[1][1] = w
      /\ gs' = gs /\ dev' = dev /\ lost' = lost
  BY <1>1, NextGoes DEF RunPage, RunAnnot
<1>3. PICK g : Past = Goes(g) /\ Keeping(g) /\ Advances(g)
  <2>1. w \in Resting
    BY <1>1 DEF Resting
  <2> QED BY <1>2, <2>1, PastKeeping, Zenon
<1>4. PICK h : h = FrameKeeping(fn, s, o, 1)
  OBVIOUS
<1>5. calls' = Append(Goes(g), h)
  BY <1>1, <1>3, <1>4 DEF Calls
<1>6. h.fn = fn /\ h.todo = s /\ h.base = Len(gs)
  <2>1. h = FrameRec(fn, s, o, 1, None)
    BY <1>4, RecWith
  <2> QED BY <2>1, NewFields
<1>7. \A b : Bears(h, b, << >>)
  <2>1. PICK S : S = {Do("new"), Do("contents"), Do("appearance"), Do("always"), Do("down"), Do("free")}
    OBVIOUS
  <2>2. PageSteps \in Seq(S) /\ AnnotSteps \in Seq(S)
    <3>1. FreeSteps \in Seq(S) /\ <<Do("new"), Do("contents")>> \in Seq(S)
          /\ <<Do("new"), Do("appearance")>> \in Seq(S)
      BY <2>1, ThreeWords DEF FreeSteps
    <3> QED BY <3>1, ConcatIn DEF PageSteps, AnnotSteps
  <2>3. ASSUME NEW z \in S
        PROVE  Quiet(fn, z) /\ z # Do("softmask") /\ z[1] # "unmask"
    <3>1. z[1] \in {"new", "contents", "appearance", "always", "down", "free"}
      BY <2>1, StepNames
    <3>2. z[1] \notin {"open", "close", "unmask", "softmask", "clip"}
      BY <3>1
    <3>3. z[1] \notin {"end blend", "end mask", "clip text"}
      BY <3>1, Zenon
    <3>4. Do("softmask")[1] = "softmask"
      BY StepNames
    <3>5. Quiet(fn, z)
      BY <3>2, <3>3, Zenon DEF Quiet
    <3> QED BY <3>2, <3>4, <3>5
  <2>4. h.fn \notin {"form", "mask"}
    BY <1>1, <1>6 DEF Outer
  <2>5. ASSUME NEW t \in Seq(S)
        PROVE  IsSeq(t) /\ \A j \in 1..Len(t) : Quiet(fn, t[j]) /\ t[j] # Do("softmask") /\ t[j][1] # "unmask"
    BY <2>3 DEF IsSeq
  <2>6. CASE s \in {PageSteps, AnnotSteps}
    BY <1>6, <2>2, <2>4, <2>5, <2>6, BearsQuiet
  <2>7. CASE s = <<Open("group")>> \o PageSteps \o <<Close("group")>>
    <3> SUFFICES ASSUME NEW b
                 PROVE  Bears(h, b, << >>)
      OBVIOUS
    <3>1. PICK p, op, cl : p = PageSteps /\ op = Open("group") /\ cl = Close("group")
      OBVIOUS
    <3>2. PICK k, n : k = Append(n, "group") /\ n = << >>
      OBVIOUS
    <3>3. k \in Seq(Kinds) /\ n \in Seq(Kinds)
      BY <3>2, KindSeqs
    <3>4. p \in Seq(S) /\ IsSeq(p) /\ IsSeq(<<cl>>) /\ IsSeq(<<op>>) /\ IsSeq(p \o <<cl>>)
      <4>1. p \in Seq(S)
        BY <2>2, <3>1
      <4>2. p \in Seq(S \cup {cl}) /\ <<cl>> \in Seq(S \cup {cl}) /\ <<op>> \in Seq({op})
        BY <4>1
      <4>3. p \o <<cl>> \in Seq(S \cup {cl})
        BY <4>2, ConcatIn
      <4> QED BY <4>1, <4>2, <4>3 DEF IsSeq
    <3>5. s = <<op>> \o (p \o <<cl>>)
      <4>1. s = (<<op>> \o p) \o <<cl>>
        BY <2>7, <3>1
      <4> QED BY <3>4, <4>1
    <3>6. Leads(fn, h.soft, b, p, k, k)
      BY <2>5, <3>3, <3>4, LeadsQuiet
    <3>7. Leads(fn, h.soft, b, <<cl>>, k, n)
      BY <3>1, <3>2, <3>3, TurnsClose, LeadsOne
    <3>8. Leads(fn, h.soft, b, p \o <<cl>>, k, n)
      BY <2>5, <3>4, <3>6, <3>7, LeadsBoth
    <3>9. Turns(fn, h.soft, b, op, n, k) /\ op[1] # "unmask"
      BY <3>1, <3>2, TurnsOpening
    <3>10. Leads(fn, h.soft, b, s, n, n)
      BY <3>3, <3>4, <3>5, <3>8, <3>9, LeadsThen
    <3>11. op # Do("softmask") /\ cl # Do("softmask")
      BY <3>1, StepNames
    <3>12. SoftensIn(fn, b, s)
      <4>1. PICK r : r = p \o <<cl>>
        OBVIOUS
      <4>2. \A j \in 1..Len(r) : r[j] # Do("softmask")
        BY <2>5, <3>4, <3>11, <4>1
      <4>3. SoftensIn(fn, b, r) /\ IsSeq(r) /\ s = <<op>> \o r
        BY <3>4, <3>5, <4>1, <4>2, SoftensNever
      <4> QED BY <3>11, <4>3, SoftensCons
    <3> QED BY <1>6, <2>4, <3>2, <3>10, <3>12, BearsPlain
  <2> QED BY <1>1, <2>6, <2>7
<1>8. Above(g, h)
  <2>1. Here.fn \in Outer /\ g.fn = Here.fn
    BY <1>1, <1>2, <1>3, HereIn, StepIn DEF Advances
  <2> QED BY <1>1, <1>6, <2>1 DEF Above, IsPaint, Outer
<1>9. Called(gs, g, h)
  BY <1>1, <1>6, <1>7, <1>8 DEF Called, Raised, Outer
<1> QED BY <1>2, <1>3, <1>5, <1>9, CallNests, NInvIs

\* one state more, with the clips of the one below it
LEMMA SavedTop ==
  ASSUME IsSeq(gs), Len(gs) \in 1..Len(gs), NEW x, x.clips = State.clips, NEW s, s = Append(gs, x)
  PROVE  ClipsOf(s, Len(gs)) = ClipsOf(s, Len(s)) /\ Even(s, Len(gs))
<1>1. PICK n : n = Len(gs)
  OBVIOUS
<1>2. n \in Nat /\ n >= 1 /\ Len(s) = n + 1 /\ s[n + 1] = x /\ s[n] = gs[n]
  BY <1>1, AppendSeq, SeqLen
<1>3. ClipsOf(s, n) = State.clips /\ ClipsOf(s, n + 1) = x.clips
  <2>1. n # 0 /\ n + 1 # 0
    BY <1>2
  <2> QED BY <1>1, <1>2, <2>1 DEF ClipsOf, State
<1> QED BY <1>1, <1>2, <1>3 DEF Even

\* the steps of a tile
TileParts(op, a, b, c, d, cl, e, x, o, s, l, r) ==
  /\ x = <<op, a, b, c, d, cl>> /\ o = <<op>> /\ s = <<a, b, c, d>>
  /\ l = <<cl>> /\ r = <<e, c>>
LEMMA TileJoined ==
  ASSUME NEW op, NEW a, NEW b, NEW c, NEW d, NEW cl, NEW e,
         NEW x, NEW o, NEW s, NEW l, NEW r, TileParts(op, a, b, c, d, cl, e, x, o, s, l, r)
  PROVE  x \o r = o \o (s \o (l \o r))
<1>1. PICK S : S = {op, a, b, c, d, cl, e}
  OBVIOUS
<1>2. /\ x = <<op, a, b, c, d, cl>> /\ o = <<op>> /\ s = <<a, b, c, d>>
      /\ l = <<cl>> /\ r = <<e, c>>
  BY DEF TileParts
<1>3. x \in Seq(S) /\ o \in Seq(S) /\ s \in Seq(S) /\ l \in Seq(S) /\ r \in Seq(S)
  BY <1>1, <1>2
<1>4. Len(x) = 6 /\ Len(o) = 1 /\ Len(s) = 4 /\ Len(l) = 1
  BY <1>2
<1>5. /\ x[1] = op /\ x[2] = a /\ x[3] = b /\ x[4] = c /\ x[5] = d /\ x[6] = cl
      /\ o[1] = op /\ s[1] = a /\ s[2] = b /\ s[3] = c /\ s[4] = d /\ l[1] = cl
  BY <1>2
<1>6. PICK y : y = s \o l
  OBVIOUS
<1>7. /\ y \in Seq(S) /\ Len(y) = 5
      /\ y[1] = a /\ y[2] = b /\ y[3] = c /\ y[4] = d /\ y[5] = cl
  <2>1. /\ y \in Seq(S) /\ Len(y) = 5
        /\ \A i \in 1..Len(s) + Len(l) : y[i] = IF i <= Len(s) THEN s[i] ELSE l[i - Len(s)]
    <3>1. /\ s \o l \in Seq(S) /\ Len(s \o l) = Len(s) + Len(l)
          /\ \A i \in 1..Len(s) + Len(l) : (s \o l)[i] = IF i <= Len(s) THEN s[i] ELSE l[i - Len(s)]
      BY <1>3, ConcatProperties
    <3> QED BY <1>4, <1>6, <3>1
  <2>2. Len(s) + Len(l) = 5
    BY <1>4
  <2>3. y[1] = s[1] /\ y[2] = s[2] /\ y[3] = s[3] /\ y[4] = s[4] /\ y[5] = l[5 - 4]
    <3>1. \A i \in 1..4 : y[i] = s[i]
      BY <1>4, <2>1
    <3>2. y[5] = l[5 - 4]
      BY <1>4, <2>1
    <3> QED BY <3>1, <3>2

  <2> QED BY <1>5, <2>1, <2>3
<1>8. PICK z : z = o \o y /\ y \in Seq(S)
  BY <1>7
<1>9. /\ z \in Seq(S) /\ Len(z) = 6
      /\ z[1] = op /\ z[2] = a /\ z[3] = b /\ z[4] = c /\ z[5] = d /\ z[6] = cl
  <2>1. /\ z \in Seq(S) /\ Len(z) = 6
        /\ \A i \in 1..Len(o) + Len(y) : z[i] = IF i <= Len(o) THEN o[i] ELSE y[i - Len(o)]
    <3>1. /\ o \o y \in Seq(S) /\ Len(o \o y) = Len(o) + Len(y)
          /\ \A i \in 1..Len(o) + Len(y) : (o \o y)[i] = IF i <= Len(o) THEN o[i] ELSE y[i - Len(o)]
      BY <1>3, <1>8, ConcatProperties
    <3> QED BY <1>4, <1>7, <1>8, <3>1
  <2>2. \A i \in 2..6 : z[i] = y[i - 1]
    BY <1>4, <1>7, <2>1
  <2>3. z[2] = y[1] /\ z[3] = y[2] /\ z[4] = y[3] /\ z[5] = y[4] /\ z[6] = y[5]
    BY <2>2
  <2>4. z[1] = o[1]
    BY <1>4, <1>7, <2>1
  <2> QED BY <1>5, <1>7, <2>1, <2>3, <2>4
<1>10. x = z
  <2>1. \A i \in 1..6 : i = 1 \/ i = 2 \/ i = 3 \/ i = 4 \/ i = 5 \/ i = 6
    OBVIOUS
  <2>2. \A i \in 1..Len(x) : x[i] = z[i]
    BY <1>4, <1>5, <1>9, <2>1
  <2> QED BY <1>3, <1>4, <1>9, <2>2, SeqEqual

<1>12. x \o r = o \o (s \o (l \o r))
  <2>0. o \in Seq(S) /\ y \in Seq(S) /\ r \in Seq(S)
    BY <1>3, <1>8
  <2>1. (o \o y) \o r = o \o (y \o r)
    BY <2>0, ConcatAssociative, SMTT(30)
  <2>2. (s \o l) \o r = s \o (l \o r)
    BY <1>3, ConcatAssociative, SMTT(30)
  <2> QED BY <1>6, <1>8, <1>10, <2>1, <2>2
<1> QED BY <1>12

\* a pattern's tile, or its cells
LEMMA PatternBears ==
  ASSUME NEW h, h.fn = "pattern", NEW steps \in {TileSteps, <<Do("cell")>>},
         h.todo = steps \o PatternEnd, NEW b
  PROVE  Bears(h, b, << >>)
<1>1. PICK S : S = {Do("gsave"), Do("contents"), Do("grestore"), Do("down"), Do("cell"), Do("always")}
  OBVIOUS
<1>2. PICK c, e, op, cl : c = CellSteps /\ e = PatternEnd /\ op = Open("tile") /\ cl = Close("tile")
  OBVIOUS
<1>3. c \in Seq(S) /\ e \in Seq(S) /\ <<Do("cell")>> \in Seq(S)
  BY <1>1, <1>2, SixIn, ThreeWords DEF CellSteps, PatternEnd
<1>4. ASSUME NEW z \in S
      PROVE  Quiet("pattern", z) /\ z # Do("softmask") /\ z[1] # "unmask"
  <2>1. z[1] \in {"gsave", "contents", "grestore", "down", "cell", "always"}
    BY <1>1, StepNames
  <2>2. z[1] \notin {"open", "close", "unmask", "softmask", "clip"}
    BY <2>1
  <2>3. z[1] \notin {"end blend", "end mask", "clip text"}
    BY <2>1, Zenon
  <2>4. Do("softmask")[1] = "softmask"
    BY StepNames
  <2>5. Quiet("pattern", z)
    BY <2>2, <2>3, Zenon DEF Quiet
  <2> QED BY <2>2, <2>4, <2>5
<1>5. ASSUME NEW t \in Seq(S)
      PROVE  /\ IsSeq(t)
             /\ \A j \in 1..Len(t) : Quiet("pattern", t[j]) /\ t[j] # Do("softmask") /\ t[j][1] # "unmask"
  BY <1>4 DEF IsSeq
<1>6. h.fn \notin {"form", "mask"}
  OBVIOUS
<1>7. CASE steps = <<Do("cell")>>
  <2>1. h.todo \in Seq(S)
    BY <1>2, <1>3, <1>7, ConcatIn
  <2> QED BY <1>5, <1>6, <2>1, BearsQuiet
<1>8. CASE steps = TileSteps
  <2>1. PICK n, k : n = << >> /\ k = Append(n, "tile")
    OBVIOUS
  <2>2. n \in Seq(Kinds) /\ k \in Seq(Kinds)
    BY <2>1, KindSeqs
  <2>3. PICK r : r = <<cl>> \o e
    OBVIOUS
  <2>4. PICK q : q = c \o r
    OBVIOUS
  <2>5. r \in Seq(S \cup {cl}) /\ q \in Seq(S \cup {cl}) /\ IsSeq(e) /\ IsSeq(c)
    <3>1. S \subseteq S \cup {cl} /\ cl \in S \cup {cl}
      OBVIOUS
    <3>2. c \in Seq(S \cup {cl}) /\ e \in Seq(S \cup {cl})
      BY <1>3, <3>1, Widens
    <3>3. <<cl>> \in Seq(S \cup {cl})
      BY <3>1, ThreeWords
    <3> QED BY <1>5, <1>3, <2>3, <2>4, <3>2, <3>3, ConcatIn
  <2>6. IsSeq(r) /\ IsSeq(q)
    BY <2>5 DEF IsSeq
  <2>7. h.todo = <<op>> \o q
    <3>1. PICK a1, a2, a3, a4, a5 : a1 = Do("gsave") /\ a2 = Do("contents") /\ a3 = Do("grestore")
                                    /\ a4 = Do("down") /\ a5 = Do("always")
      OBVIOUS
    <3>2. h.todo = <<op, a1, a2, a3, a4, cl>> \o <<a5, a3>>
      BY <1>2, <1>8, <3>1 DEF TileSteps, PatternEnd
    <3>3. q = <<a1, a2, a3, a4>> \o (<<cl>> \o <<a5, a3>>)
      BY <1>2, <2>3, <2>4, <3>1 DEF CellSteps, PatternEnd
    <3>4. <<op, a1, a2, a3, a4, cl>> \o <<a5, a3>>
            = <<op>> \o (<<a1, a2, a3, a4>> \o (<<cl>> \o <<a5, a3>>))
      <4>1. PICK x, o, s, l, y : /\ x = <<op, a1, a2, a3, a4, cl>> /\ o = <<op>>
                                 /\ s = <<a1, a2, a3, a4>> /\ l = <<cl>> /\ y = <<a5, a3>>
        OBVIOUS
      <4>2. x \o y = o \o (s \o (l \o y))
        <5>1. TileParts(op, a1, a2, a3, a4, cl, a5, x, o, s, l, y)
          BY <4>1 DEF TileParts
        <5> QED BY <5>1, TileJoined, SMTT(30)
      <4> QED BY <4>1, <4>2
    <3> QED BY <3>2, <3>3, <3>4
  <2>8. Leads(h.fn, h.soft, b, e, n, n)
    BY <1>3, <1>5, <2>2, LeadsQuiet
  <2>9. Turns(h.fn, h.soft, b, cl, k, n) /\ cl[1] # "unmask"
    <3>1. cl[1] = "close"
      BY <1>2, TurnsClose
    <3> QED BY <1>2, <2>1, <3>1, TurnsClose
  <2>10. Leads(h.fn, h.soft, b, r, k, n)
    BY <2>2, <2>3, <2>5, <2>8, <2>9, LeadsThen
  <2>11. Leads(h.fn, h.soft, b, c, k, k)
    BY <1>3, <1>5, <2>2, LeadsQuiet
  <2>12. Leads(h.fn, h.soft, b, q, k, n)
    BY <1>3, <1>5, <2>4, <2>5, <2>6, <2>10, <2>11, LeadsBoth
  <2>13. Turns(h.fn, h.soft, b, op, n, k) /\ op[1] # "unmask"
    BY <1>2, <2>1, TurnsOpening
  <2>14. Leads(h.fn, h.soft, b, h.todo, n, n)
    BY <2>2, <2>6, <2>7, <2>12, <2>13, LeadsThen
  <2>15. SoftensIn(h.fn, b, h.todo)
    <3>1. op # Do("softmask") /\ cl # Do("softmask")
      BY <1>2, StepNames
    <3>2. \A j \in 1..Len(q) : q[j] # Do("softmask")
      BY <1>4, <2>5, <3>1
    <3>3. SoftensIn(h.fn, b, q)
      BY <3>2, SoftensNever
    <3> QED BY <2>6, <2>7, <3>1, <3>3, SoftensCons
  <2> QED BY <1>6, <2>1, <2>14, <2>15, BearsPlain
<1> QED BY <1>7, <1>8

\* pdf_show_pattern
LEMMA PatternNests ==
  ASSUME LInv, SInv, NInv, Patient, ShowPattern
  PROVE  Nests(calls', gs', dev', lost')
<1>1. /\ Next1("pattern") /\ dev' = dev /\ lost' = lost
      /\ gs' = Append(gs, [State EXCEPT !.soft = None, !.fill = "colour"])
  BY DEF ShowPattern
<1>2. /\ calls # << >> /\ Here.todo # << >> /\ Here.todo[1][1] = "pattern"
      /\ Len(gs) \in 1..Len(gs) /\ IsState(State, Len(gs)) /\ IsSeq(gs)
  BY <1>1, At1, NextGoes, Seqs DEF SInv
<1>3. PICK x : gs' = Append(gs, x) /\ x.clips = State.clips
  <2>1. PICK y : y = [State EXCEPT !.soft = None]
    OBVIOUS
  <2>2. IsState(y, Len(gs)) /\ y.clips = State.clips
    BY <1>2, <2>1, StateWith, StateFields, ZenonT(30)
  <2>3. [y EXCEPT !.fill = "colour"].clips = y.clips
    BY <2>2, StateFields
  <2>4. gs' = Append(gs, [y EXCEPT !.fill = "colour"])
    BY <1>1, <2>1
  <2> QED BY <2>2, <2>3, <2>4
<1>4. Nests(calls, gs', dev, lost)
  BY <1>2, <1>3, NestsSave
<1>5. PICK g : Past = Goes(g) /\ Keeping(g) /\ Advances(g)
  <2>1. "pattern" \in Resting
    BY DEF Resting
  <2> QED BY <1>2, <2>1, PastKeeping, Zenon
<1>6. PICK steps \in {TileSteps, <<Do("cell")>>} :
        calls' = Calls(FrameKeeping("pattern", steps \o PatternEnd, <<Do("always")>>, Len(gs) + 1))
  BY DEF ShowPattern, FrameKeeping
<1>7. PICK s, o, k : s = steps \o PatternEnd /\ o = <<Do("always")>> /\ k = Len(gs) + 1
  OBVIOUS
<1>8. PICK h : h = FrameKeeping("pattern", s, o, k)
  OBVIOUS
<1>9. calls' = Append(Goes(g), h)
  BY <1>5, <1>6, <1>7, <1>8 DEF Calls
<1>10. h.fn = "pattern" /\ h.todo = s /\ h.base = Len(gs)
  <2>1. h = FrameRec("pattern", s, o, k, None)
    BY <1>8, RecWith
  <2> QED BY <2>1, NewFields
<1>11. \A b : Bears(h, b, << >>)
  BY <1>7, <1>10, PatternBears
<1>12. Above(g, h)
  <2>1. /\ Here.fn \notin Outer \cup {"stream", "form"} /\ Here.fn # "mask" /\ g.fn = Here.fn
    BY <1>2, <1>5, ReadyLevel, StepIn, HeadFacts DEF Advances
  <2> QED BY <1>10, <2>1 DEF Above, IsPaint, Named
<1>13. ClipsOf(gs', Len(gs)) = ClipsOf(gs', Len(gs')) /\ Even(gs', Len(gs))
  BY <1>2, <1>3, SavedTop
<1>14. Called(gs', g, h)
  BY <1>10, <1>11, <1>12, <1>13 DEF Called
<1> QED BY <1>1, <1>2, <1>4, <1>5, <1>9, <1>14, CallNests

-----------------------------------------------------------------------------
(* Forms                                                                   *)

\* what a form has open when its contents are run, with the soft mask m
GroupOf(x, m) == IF x \in Groups THEN Append(SoftOf(m), "group") ELSE << >>
\* the steps that take no soft mask
Unsoft == FormWords \ {Do("softmask")}
\* From fz_always on, a form closes them.
LEMMA FormEndLeads ==
  ASSUME NEW x, NEW m, NEW b
  PROVE  /\ Leads("form", m, b, FormEnd(x), GroupOf(x, m), << >>)
         /\ FormEnd(x) \in Seq(Unsoft) /\ IsSeq(FormEnd(x)) /\ GroupOf(x, m) \in Seq(Kinds)
<1>1. PICK e, u, k : e = <<Do("always"), Do("down"), Do("leave form")>> /\ u = Unmasks(x)
                     /\ k = GroupOf(x, m)
  OBVIOUS
<1>2. PICK cl, un : cl = Close("group") /\ un = Do("unmask")
  OBVIOUS
<1>3. PICK w : w = Do("leave form")
  OBVIOUS
<1>4. PICK S : S = {Do("always"), Do("down"), w}
  OBVIOUS
<1>5. e \in Seq(S) /\ IsSeq(e)
  <2>1. e \in Seq(S)
    BY <1>1, <1>3, <1>4, ThreeWords
  <2> QED BY <2>1 DEF IsSeq
<1>6. ASSUME NEW z \in S
      PROVE  Quiet("form", z) /\ z # Do("softmask") /\ z[1] # "unmask" /\ z \in FormWords
  <2>1. CASE z = w
    <3>1. z[1] = "leave form"
      BY <1>3, <2>1, StepNames, Zenon
    <3>2. Quiet("form", z) /\ z[1] # "unmask" /\ z[1] # "softmask"
      BY <3>1, Zenon DEF Quiet
    <3>3. Do("softmask")[1] = "softmask"
      BY StepNames
    <3>4. z # Do("softmask")
      BY <3>2, <3>3
    <3> QED BY <1>3, <2>1, <3>2, <3>4, FormWordsAre, Zenon
  <2>2. CASE z = Do("always") \/ z = Do("down")
    <3>1. z[1] \in {"always", "down"} /\ Do("softmask")[1] = "softmask"
      BY <2>2, StepNames
    <3>2. z[1] \notin {"open", "close", "unmask", "softmask", "clip"}
      BY <3>1
    <3>3. z[1] \notin {"end blend", "end mask", "clip text"}
      BY <3>1, Zenon
    <3>4. Quiet("form", z)
      BY <3>2, <3>3, Zenon DEF Quiet
    <3> QED BY <2>2, <3>1, <3>2, <3>4, FormWordsAre
  <2> QED BY <1>4, <2>1, <2>2
<1>7. FormEnd(x) = e \o u /\ k \in Seq(Kinds) /\ SoftOf(m) \in Seq(Kinds)
  <2>1. SoftOf(m) \in Seq(Kinds) /\ << >> \in Seq(Kinds) /\ Append(SoftOf(m), "group") \in Seq(Kinds)
    BY KindSeqs
  <2> QED BY <1>1, <2>1, FormTypes, Zenon DEF GroupOf
<1>8. Leads("form", m, b, e, k, k)
  <2>1. \A j \in 1..Len(e) : Quiet("form", e[j])
    BY <1>5, <1>6
  <2> QED BY <1>5, <1>7, <2>1, LeadsQuiet
<1>9. \A j \in 1..Len(e) : e[j][1] # "unmask"
  BY <1>5, <1>6
<1>10. Leads("form", m, b, u, k, << >>) /\ u \in Seq({cl, un})
  <2>1. CASE x \in Groups
    <3>1. u = <<cl, un>> /\ k = Append(SoftOf(m), "group")
      BY <1>1, <1>2, <2>1 DEF Unmasks, GroupOf
    <3>2. u \in Seq({cl, un}) /\ <<un>> \in Seq({cl, un})
      BY <3>1
    <3>3. u = <<cl>> \o <<un>>
      <4>1. u # << >> /\ u[1] = cl /\ Tail(u) = <<un>>
        BY <3>1, Tuples
      <4> QED BY <3>2, <4>1, HeadAnd
    <3>4. Leads("form", m, b, <<un>>, SoftOf(m), << >>)
      <4>1. PICK n, o : n = << >> /\ o = SoftOf(m)
        OBVIOUS
      <4>2. n \in Seq(Kinds) /\ o \in Seq(Kinds) /\ n \o o = o
        BY <1>7, <4>1, KindSeqs
      <4>3. Turns("form", m, b, un, n \o o, n)
        BY <1>2, <4>1, TurnsUnmask
      <4> QED BY <4>1, <4>2, <4>3, LeadsOne
    <3>5. Turns("form", m, b, cl, k, SoftOf(m)) /\ cl[1] # "unmask"
      <4>1. Turns("form", m, b, cl, k, SoftOf(m)) /\ cl[1] = "close"
        BY <1>2, <3>1, TurnsClose
      <4> QED BY <4>1
    <3>6. IsSeq(<<un>>)
      BY <3>2 DEF IsSeq
    <3> QED BY <1>7, <3>2, <3>3, <3>4, <3>5, <3>6, LeadsThen
  <2>2. CASE x \notin Groups
    <3>1. u = << >> /\ k = << >>
      BY <1>1, <2>2 DEF Unmasks, GroupOf
    <3>2. PICK n : n = << >> /\ n \in Seq(Kinds) /\ n \in Seq({cl, un})
      <4>1. << >> \in Seq(Kinds)
        BY KindSeqs
      <4>2. << >> \in Seq({cl, un})
        OBVIOUS
      <4> QED BY <4>1, <4>2, Zenon
    <3>3. Leads("form", m, b, n, n, n)
      BY <3>2, LeadsNone
    <3> QED BY <3>1, <3>2, <3>3
  <2> QED BY <2>1, <2>2
<1>11. cl \in Unsoft /\ un \in Unsoft /\ S \subseteq Unsoft
  <2>1. cl[1] = "close" /\ un[1] = "unmask" /\ Do("softmask")[1] = "softmask"
    BY <1>2, StepNames
  <2>2. cl # Do("softmask") /\ un # Do("softmask")
    BY <2>1
  <2> QED BY <1>2, <1>6, <2>2, FormWordsAre DEF Unsoft
<1>12. e \in Seq(Unsoft) /\ u \in Seq(Unsoft) /\ IsSeq(u)
  <2>1. {cl, un} \subseteq Unsoft
    BY <1>11
  <2> QED BY <1>5, <1>10, <1>11, <2>1, Widens DEF IsSeq
<1>13. e \o u \in Seq(Unsoft)
  BY <1>12, ConcatIn
<1>14. Leads("form", m, b, e \o u, k, << >>)
  BY <1>5, <1>8, <1>9, <1>10, <1>12, LeadsBoth
<1> QED BY <1>1, <1>7, <1>13, <1>14 DEF IsSeq

\* what comes after the group has been begun
LEMMA FormRestLeads ==
  ASSUME NEW x, NEW m, NEW b, NEW q, q = <<Do("clip"), Do("contents")>> \o FormEnd(x)
  PROVE  Leads("form", m, b, q, GroupOf(x, m), << >>) /\ q \in Seq(Unsoft) /\ IsSeq(q)
<1>1. PICK p, e, k : p = <<Do("clip"), Do("contents")>> /\ e = FormEnd(x) /\ k = GroupOf(x, m)
  OBVIOUS
<1>2. PICK S : S = {Do("clip"), Do("contents")}
  OBVIOUS
<1>3. p \in Seq(S) /\ IsSeq(p)
  <2>1. p \in Seq(S)
    BY <1>1, <1>2, ThreeWords
  <2> QED BY <2>1 DEF IsSeq
<1>4. ~IsPaint("form")
  BY DEF IsPaint, Named
<1>5. ASSUME NEW z \in S
      PROVE  Quiet("form", z) /\ z[1] # "unmask" /\ z \in Unsoft
  <2>1. z[1] \in {"clip", "contents"} /\ Do("softmask")[1] = "softmask"
    BY <1>2, StepNames
  <2>2. z[1] \notin {"open", "close", "unmask", "softmask"}
    BY <2>1
  <2>3. z[1] \notin {"end blend", "end mask", "clip text"}
    BY <2>1, Zenon
  <2>4. Quiet("form", z)
    BY <1>4, <2>2, <2>3, Zenon DEF Quiet
  <2>5. z # Do("softmask") /\ z \in FormWords
    BY <1>2, <2>1, FormWordsAre
  <2> QED BY <2>2, <2>4, <2>5 DEF Unsoft
<1>6. Leads("form", m, b, e, k, << >>) /\ e \in Seq(Unsoft) /\ IsSeq(e) /\ k \in Seq(Kinds)
  BY <1>1, FormEndLeads
<1>7. Leads("form", m, b, p, k, k)
  <2>1. \A j \in 1..Len(p) : Quiet("form", p[j])
    BY <1>3, <1>5
  <2> QED BY <1>3, <1>6, <2>1, LeadsQuiet
<1>8. \A j \in 1..Len(p) : p[j][1] # "unmask"
  BY <1>3, <1>5
<1>9. p \in Seq(Unsoft)
  <2>1. S \subseteq Unsoft
    BY <1>5
  <2> QED BY <1>3, <2>1, Widens
<1>10. p \o e \in Seq(Unsoft)
  BY <1>6, <1>9, ConcatIn
<1>11. Leads("form", m, b, p \o e, k, << >>)
  BY <1>3, <1>6, <1>7, <1>8, LeadsBoth
<1> QED BY <1>1, <1>10, <1>11 DEF IsSeq

\* a form that is no group
LEMMA PlainForm ==
  ASSUME NEW x, x \notin Groups, NEW h, h.fn = "form", h.todo = FormSteps(x),
         h.onErr = FormEnd(x), h.soft = None, NEW b
  PROVE  Bears(h, b, << >>)
<1>1. PICK q : q = <<Do("clip"), Do("contents")>> \o FormEnd(x)
  OBVIOUS
<1>2. PICK n : n = << >> /\ \A m : n = GroupOf(x, m)
  BY DEF GroupOf
<1>3. h.todo = q
  <2>1. <<Do("clip"), Do("contents")>> \in Seq(FormWords)
    BY FormWordsAre, FewIn
  <2>2. << >> \o <<Do("clip"), Do("contents")>> = <<Do("clip"), Do("contents")>>
    BY <2>1, EmptyConcat
  <2> QED BY <1>1, <2>2 DEF FormSteps
<1>4. \A m : Leads("form", m, b, q, n, n)
  BY <1>1, <1>2, FormRestLeads
<1>5. q \in Seq(Unsoft)
  BY <1>1, FormRestLeads
<1>6. \A j \in 1..Len(q) : q[j] # Do("softmask")
  BY <1>5 DEF Unsoft
<1>7. SoftensIn("form", b, q)
  BY <1>6, SoftensNever
<1>8. Final(h) = n
  BY <1>2 DEF Final
<1>9. q # << >> => q[1] # Do("softmask") /\ q[1] # Open("group")
  <2>1. <<Do("clip"), Do("contents")>> \in FormPrefixes
    BY DEF FormPrefixes
  <2>2. q \in Before(x)
    BY <1>1, <2>1 DEF Before
  <2>3. q[1] = Do("clip") \/ q[1] = Do("always")
    <3>1. PICK p, e : p = <<Do("clip"), Do("contents")>> /\ e = FormEnd(x)
      OBVIOUS
    <3>2. p \in Seq(FormWords) /\ e \in Seq(FormWords) /\ p # << >> /\ p[1] = Do("clip")
      BY <3>1, FormTypes, FormWordsAre, FewIn, Tuples
    <3>3. (p \o e)[1] = p[1]
      BY <3>2
    <3> QED BY <1>1, <3>1, <3>2, <3>3
  <2>4. Do("clip")[1] = "clip" /\ Do("always")[1] = "always"
    BY StepNames
  <2>5. q[1][1] \notin {"softmask", "open"}
    BY <2>3, <2>4
  <2> QED BY <2>5, NotOpening
<1>10. ~Opening(h)
  BY <1>3, <1>9 DEF Opening
<1>11. Leads("form", None, b, FormEnd(x), n, n)
  BY <1>2, FormEndLeads
<1>12. Rescues(h, b, n)
  BY <1>3, <1>2, <1>9, <1>10, <1>11 DEF Rescues
<1> QED BY <1>2, <1>3, <1>4, <1>7, <1>8, <1>12 DEF Bears, Softens, SoftensIn

\* a transparency group
LEMMA GroupForm ==
  ASSUME NEW x, x \in Groups, NEW h, h.fn = "form", h.todo = FormSteps(x),
         h.onErr = FormEnd(x), h.soft = None, NEW b
  PROVE  Bears(h, b, << >>)
<1>1. PICK q, e : q = <<Do("clip"), Do("contents")>> \o e /\ e = FormEnd(x)
  OBVIOUS
<1>2. PICK sm, op, rs : sm = Do("softmask") /\ op = Open("group") /\ rs = Do("reset")
  OBVIOUS
<1>3. PICK n : n = << >>
  OBVIOUS
<1>4. PICK r : r = <<rs>> \o q
  OBVIOUS
<1>5. PICK t : t = <<op>> \o r
  OBVIOUS
<1>6. \A m : GroupOf(x, m) = Append(SoftOf(m), "group")
  BY DEF GroupOf
<1>7. q \in Seq(FormWords) /\ r \in Seq(FormWords) /\ t \in Seq(FormWords)
  <2>1. Unsoft \subseteq FormWords /\ q \in Seq(Unsoft)
    BY <1>1, FormRestLeads DEF Unsoft
  <2>2. q \in Seq(FormWords)
    BY <2>1, Widens
  <2>3. <<rs>> \in Seq(FormWords) /\ <<op>> \in Seq(FormWords)
    BY <1>2, FormWordsAre, FewIn
  <2> QED BY <1>4, <1>5, <2>2, <2>3, ConcatIn
<1>8. h.todo = <<sm>> \o t
  <2>1. PICK p, c : p = <<sm, op, rs>> /\ c = <<Do("clip"), Do("contents")>>
    OBVIOUS
  <2>2. /\ p \in Seq(FormWords) /\ c \in Seq(FormWords) /\ e \in Seq(FormWords)
        /\ <<sm>> \in Seq(FormWords) /\ <<op>> \in Seq(FormWords) /\ <<rs>> \in Seq(FormWords)
        /\ <<op, rs>> \in Seq(FormWords)
    BY <1>1, <1>2, <2>1, FormWordsAre, FewIn, FormTypes
  <2>3. h.todo = (p \o c) \o e
    BY <1>1, <1>2, <2>1 DEF FormSteps
  <2>4. p = <<sm>> \o <<op, rs>>
    <3>1. p # << >> /\ p[1] = sm /\ Tail(p) = <<op, rs>>
      BY <2>1, Tuples
    <3> QED BY <2>2, <3>1, HeadAnd
  <2>5. <<op, rs>> = <<op>> \o <<rs>>
    <3>1. PICK y : y = <<op, rs>> /\ y \in Seq(FormWords)
      BY <2>2
    <3>2. y # << >> /\ y[1] = op /\ Tail(y) = <<rs>>
      BY <3>1, Tuples
    <3>3. y = <<y[1]>> \o Tail(y)
      BY <3>1, <3>2, HeadAnd
    <3> QED BY <3>1, <3>2, <3>3
  <2>6. PICK a, d, f, g : a = <<sm>> /\ d = <<op>> /\ f = <<rs>> /\ g = <<op, rs>>
    OBVIOUS
  <2>7. /\ a \in Seq(FormWords) /\ d \in Seq(FormWords) /\ f \in Seq(FormWords)
        /\ g \in Seq(FormWords) /\ p = a \o g /\ g = d \o f
    BY <2>2, <2>4, <2>5, <2>6
  <2>8. q = c \o e /\ r = f \o q /\ t = d \o r
    BY <1>1, <1>4, <1>5, <2>1, <2>6
  <2>9. (p \o c) \o e = p \o q
    BY <2>2, <2>8, ConcatAssociative, SMTT(30)
  <2>10. (a \o g) \o q = a \o (g \o q)
    <3>1. a \in Seq(FormWords) /\ g \in Seq(FormWords) /\ q \in Seq(FormWords)
      BY <1>7, <2>7
    <3> QED BY <3>1, ConcatAssociative
  <2>11. (d \o f) \o q = d \o (f \o q)
    <3>1. d \in Seq(FormWords) /\ f \in Seq(FormWords) /\ q \in Seq(FormWords)
      BY <1>7, <2>7
    <3> QED BY <3>1, ConcatAssociative
  <2>12. h.todo = (a \o g) \o q /\ g = d \o f
    BY <2>3, <2>7, <2>9
  <2> QED BY <2>6, <2>8, <2>10, <2>11, <2>12
<1>9. IsSeq(q) /\ IsSeq(r) /\ IsSeq(t)
  BY <1>7 DEF IsSeq
<1>10. \A m : /\ Leads("form", m, b, q, Append(SoftOf(m), "group"), n)
              /\ Append(SoftOf(m), "group") \in Seq(Kinds) /\ SoftOf(m) \in Seq(Kinds)
              /\ Leads("form", m, b, e, Append(SoftOf(m), "group"), n)
  <2> SUFFICES ASSUME NEW m
               PROVE  /\ Leads("form", m, b, q, Append(SoftOf(m), "group"), n)
                      /\ Append(SoftOf(m), "group") \in Seq(Kinds) /\ SoftOf(m) \in Seq(Kinds)
                      /\ Leads("form", m, b, e, Append(SoftOf(m), "group"), n)
    OBVIOUS
  <2>1. Leads("form", m, b, q, GroupOf(x, m), n) /\ Leads("form", m, b, e, GroupOf(x, m), n)
    BY <1>1, <1>3, FormRestLeads, FormEndLeads
  <2>2. Append(SoftOf(m), "group") \in Seq(Kinds) /\ SoftOf(m) \in Seq(Kinds)
    BY KindSeqs
  <2> QED BY <1>6, <2>1, <2>2
<1>11. rs[1] = "reset" /\ op[1] = "open" /\ sm[1] = "softmask" /\ rs # sm /\ op # sm
  <2>1. rs[1] = "reset" /\ op[1] = "open" /\ sm[1] = "softmask"
    BY <1>2, StepNames
  <2> QED BY <2>1
<1>12. \A m : Leads("form", m, b, t, SoftOf(m), n)
  <2> SUFFICES ASSUME NEW m
               PROVE  Leads("form", m, b, t, SoftOf(m), n)
    OBVIOUS
  <2>1. PICK k, j : j = SoftOf(m) /\ k = Append(j, "group")
    OBVIOUS
  <2>2. k \in Seq(Kinds) /\ j \in Seq(Kinds) /\ Leads("form", m, b, q, k, n)
    BY <1>10, <2>1
  <2>3. Turns("form", m, b, rs, k, k)
    <3>1. rs[1] \notin {"open", "close", "unmask", "softmask", "clip"}
      BY <1>11
    <3>2. rs[1] \notin {"end blend", "end mask", "clip text"}
      BY <1>11, Zenon
    <3> QED BY <3>1, <3>2, Zenon DEF Turns
  <2>4. Leads("form", m, b, r, k, n)
    BY <1>4, <1>9, <1>11, <2>2, <2>3, LeadsThen
  <2>5. Turns("form", m, b, op, j, k)
    BY <1>2, <2>1, TurnsOpening
  <2>6. Leads("form", m, b, t, j, n)
    BY <1>5, <1>9, <1>11, <2>2, <2>4, <2>5, LeadsThen
  <2> QED BY <2>1, <2>6
<1>13. SoftOf(None) = n /\ n \in Seq(Kinds)
  BY <1>3, KindSeqs DEF SoftOf
<1>14. Leads("form", None, b, h.todo, n, n)
  <2>1. Turns("form", None, b, sm, n, n)
    BY <1>2, <1>3, TurnsSoft
  <2>2. Leads("form", None, b, t, n, n)
    BY <1>12, <1>13
  <2> QED BY <1>8, <1>9, <1>11, <1>13, <2>1, <2>2, LeadsThen
<1>15. SoftensIn("form", b, h.todo)
  <2>1. \A j \in 1..Len(q) : q[j] # Do("softmask")
    <3>1. q \in Seq(Unsoft)
      BY <1>1, FormRestLeads
    <3> QED BY <3>1 DEF Unsoft
  <2>2. SoftensIn("form", b, q)
    BY <2>1, SoftensNever
  <2>3. SoftensIn("form", b, r)
    BY <1>2, <1>4, <1>9, <1>11, <2>2, SoftensCons
  <2>4. SoftensIn("form", b, t)
    BY <1>2, <1>5, <1>9, <1>11, <2>3, SoftensCons
  <2>5. \A m \in Forms \cup {None} : Leads("form", m, b, t, SoftOf(m), << >>)
    BY <1>3, <1>12
  <2> QED BY <1>8, <1>9, <2>4, <2>5, SoftensCons
<1>16. h.todo # << >> /\ h.todo[1] = sm
  BY <1>2, <1>7, <1>8, FirstOne, FormWordsAre
<1>17. Opening(h)
  BY <1>2, <1>16 DEF Opening
<1>18. Rescues(h, b, n)
  <2>1. \A m : Leads("form", m, b, e, Append(SoftOf(m), "group"), << >>)
    BY <1>3, <1>10
  <2>2. Leads("form", None, b, e, Append(n, "group"), << >>)
    BY <1>13, <2>1
  <2> QED BY <1>1, <1>17, <2>1, <2>2 DEF Rescues
<1>19. Final(h) = n
  BY <1>3 DEF Final
<1> QED BY <1>3, <1>14, <1>15, <1>18, <1>19 DEF Bears, Softens, SoftensIn

LEMMA FormBears ==
  ASSUME NEW x, NEW h, h.fn = "form", h.todo = FormSteps(x), h.onErr = FormEnd(x),
         h.soft = None, NEW b
  PROVE  Bears(h, b, << >>)
BY PlainForm, GroupForm

\* The innermost call, with nothing more to do on the device, goes on as g.
LEMMA KeepingNests ==
  ASSUME LInv, calls # << >>, NEW s, Nests(calls, s, dev, lost), NEW g, Keeping(g)
  PROVE  Nests(Goes(g), s, dev, lost)
<1>1. Gives(s, g, dev)
  <2> SUFFICES ASSUME NEW w, NEW x, NEW b, NEW e, Bears(Here, b, w), Top(dev, x, w, e)
               PROVE  \E v \in Seq(Kinds) : /\ Bears(g, b, v) /\ Top(dev, x, v, e)
                                            /\ Keeps(dev, dev, x)
    BY Zenon DEF Gives
  <2>1. w \in Seq(Kinds)
    BY DEF Top
  <2>2. Bears(g, b, w) /\ Keeps(dev, dev, x)
    BY KeepsSelf DEF Keeping
  <2> QED BY <2>1, <2>2
<1>2. g.fn = Here.fn /\ g.base = Here.base /\ (Raised(g) => Raised(Here))
  BY DEF Keeping
<1> QED BY <1>1, <1>2, NestsGo

\* where a form is run from
RunsForm(g) ==
  /\ Keeping(g) /\ ~IsPaint("form")
  /\ ~(g.fn = "form" /\ Opening(g)) /\ (g.fn = "mask" => g.todo = MaskEnd)
\* pdf_run_xobject
LEMMA XobjectNests ==
  ASSUME LInv, SInv, NInv, Patient, calls # << >>, NEW g, RunsForm(g),
         Len(gs) \in 1..Len(gs), NEW x, RunXobject(x, Goes(g)), dev' = dev, lost' = lost
  PROVE  Nests(calls', gs', dev', lost')
<1>1. Nests(calls, gs, dev, lost) /\ Keeping(g)
  BY NInvIs DEF RunsForm
<1>2. CASE x \in marked
  <2>1. calls' = Goes(g) /\ gs' = gs
    BY <1>2 DEF RunXobject
  <2> QED BY <1>1, <2>1, KeepingNests
<1>3. CASE x \notin marked
  <2>1. /\ gs' = Append(gs, State)
        /\ calls' = Append(Goes(g), FrameBoth("form", FormSteps(x), FormEnd(x), Len(gs) + 1, x))
    BY <1>3 DEF RunXobject, Gsave, FrameBoth
  <2>2. PICK s, o, k : s = FormSteps(x) /\ o = FormEnd(x) /\ k = Len(gs) + 1
    OBVIOUS
  <2>3. PICK h : h = FrameBoth("form", s, o, k, x)
    OBVIOUS
  <2>4. calls' = Append(Goes(g), h)
    BY <2>1, <2>2, <2>3
  <2>5. h.fn = "form" /\ h.todo = s /\ h.onErr = o /\ h.base = Len(gs) /\ h.soft = None
    <3>1. h = FrameRec("form", s, o, k, x)
      BY <2>3, RecWith
    <3> QED BY <3>1, NewFields
  <2>6. \A b : Bears(h, b, << >>)
    BY <2>2, <2>5, FormBears
  <2>7. Above(g, h)
    BY <2>5 DEF Above, RunsForm
  <2>8. IsSeq(gs)
    BY Seqs
  <2>9. PICK y : y = State
    OBVIOUS
  <2>10. gs' = Append(gs, y) /\ y.clips = State.clips
    BY <2>1, <2>9
  <2>11. Nests(calls, gs', dev, lost)
    BY <2>10, NestsSave
  <2>12. ClipsOf(gs', Len(gs)) = ClipsOf(gs', Len(gs')) /\ Even(gs', Len(gs))
    BY <2>8, <2>10, SavedTop
  <2>13. Called(gs', g, h)
    BY <2>5, <2>6, <2>7, <2>12 DEF Called
  <2>14. Nests(Append(Goes(g), h), gs', dev, lost)
    BY <1>1, <2>11, <2>13, CallNests
  <2> QED BY <2>4, <2>14
<1> QED BY <1>2, <1>3

\* the form of a soft mask, an annotation's, and pdf_run_Do
LEMMA FormsNest ==
  ASSUME LInv, SInv, NInv, Patient, RunMask \/ Appearance \/ \E x \in Forms : Run_Do(x)
  PROVE  Nests(calls', gs', dev', lost')
<1>1. dev' = dev /\ lost' = lost
  BY DEF RunMask, Appearance, Run_Do
<1>2. ~IsPaint("form")
  BY DEF IsPaint, Named
<1>3. CASE RunMask
  <2>1. Next1("form") /\ RunXobject(Here.form, Past)
    BY <1>3 DEF RunMask
  <2>2. /\ calls # << >> /\ Here.todo # << >> /\ Here.todo[1][1] = "form"
        /\ Len(gs) \in 1..Len(gs)
    BY <2>1, At1, NextGoes
  <2>3. PICK g : Past = Goes(g) /\ Keeping(g) /\ Advances(g)
    <3>1. "form" \in Resting
      BY DEF Resting
    <3> QED BY <2>2, <3>1, PastKeeping, Zenon
  <2>4. Here.fn # "form"
    BY <2>2, HereIn, StepIn
  <2>5. Here.fn = "mask" => Tail(Here.todo) = MaskEnd
    <3> SUFFICES ASSUME Here.fn = "mask"
                 PROVE  Tail(Here.todo) = MaskEnd
      OBVIOUS
    <3>1. PICK f, n : f = Here /\ n = Len(gs)
      OBVIOUS
    <3>2. StrongAt(f, f.todo, f.onErr, f.pend, n, csi.gbot, csi.gparent)
      <4>1. At(f, n, csi.gbot, csi.gparent)
        BY <2>2, <3>1, ReadyLevel
      <4> QED BY <4>1 DEF At, LevelAt
    <3>3. f.todo \in MaskTodos
      BY <3>1, <3>2, Zenon DEF StrongAt, MaskAt
    <3> QED BY <2>2, <3>1, <3>3, MaskNext DEF MaskEnd
  <2>6. RunsForm(g)
    BY <1>2, <2>3, <2>4, <2>5 DEF RunsForm, Advances
  <2> QED BY <1>1, <2>1, <2>2, <2>3, <2>6, XobjectNests
<1>4. CASE Appearance
  <2>1. PICK x : Next1("appearance") /\ RunXobject(x, Past)
    BY <1>4 DEF Appearance
  <2>2. /\ calls # << >> /\ Here.todo # << >> /\ Here.todo[1][1] = "appearance"
        /\ Len(gs) \in 1..Len(gs)
    BY <2>1, At1, NextGoes
  <2>3. PICK g : Past = Goes(g) /\ Keeping(g) /\ Advances(g)
    <3>1. "appearance" \in Resting
      BY DEF Resting
    <3> QED BY <2>2, <3>1, PastKeeping, Zenon
  <2>4. Here.fn \in Outer
    BY <2>2, HereIn, StepIn
  <2>5. RunsForm(g)
    BY <1>2, <2>3, <2>4 DEF RunsForm, Advances, Outer
  <2> QED BY <1>1, <2>1, <2>2, <2>3, <2>5, XobjectNests
<1>5. CASE \E x \in Forms : Run_Do(x)
  <2>1. PICK x : Next1("token") /\ RunXobject(x, calls)
    BY <1>5 DEF Run_Do, Token, Reads
  <2>2. /\ calls # << >> /\ Here.todo # << >> /\ Here.todo[1][1] = "token"
        /\ Len(gs) \in 1..Len(gs)
    BY <2>1, At1, NextGoes
  <2>3. Here.fn = "stream"
    BY <2>2, HereIn, StepIn
  <2>4. calls = Goes(Here) /\ Keeping(Here)
    BY <2>2, HereKeeping
  <2>5. RunsForm(Here)
    BY <1>2, <2>3, <2>4 DEF RunsForm
  <2>6. RunXobject(x, Goes(Here))
    BY <2>1, <2>4
  <2> QED BY <1>1, <2>2, <2>5, <2>6, XobjectNests
<1> QED BY <1>3, <1>4, <1>5

-----------------------------------------------------------------------------
(* A soft mask is begun                                                    *)

\* where one is
LEMMA SoftWhere ==
  ASSUME LInv, Patient, calls # << >>, Here.todo # << >>, Here.todo[1][1] = "softmask"
  PROVE  /\ Here.todo[1] = Do("softmask")
         /\ \/ IsPaint(Here.fn)
            \/ /\ Here.fn = "form" /\ Tail(Here.todo) # << >>
               /\ Tail(Here.todo)[1] = Open("group")
<1>1. /\ At(Here, Len(gs), csi.gbot, csi.gparent) /\ Shaped(Here) /\ Len(gs) \in Nat
      /\ Here.base \in Nat
  BY ReadyLevel
<1>2. StrongAt(Here, Here.todo, Here.onErr, Here.pend, Len(gs), csi.gbot, csi.gparent)
  BY <1>1 DEF At, LevelAt
<1>3. Here.todo[1] \in StepsOf(Here.fn)
  BY <1>1, StepIn
<1>4. PICK z : z = Here.todo[1]
  OBVIOUS
<1>5. z[1] = "softmask"
  BY <1>4
<1>6. z \notin OuterSteps \cup StreamWords
  BY <1>5, StepNames DEF OuterSteps, StreamWords
<1>7. Here.fn \notin Outer /\ Here.fn # "stream"
  BY <1>3, <1>4, <1>6 DEF StepsOf
<1>8. Here.fn # "mask" /\ Here.fn # "cell"
  BY <1>1, HeadFacts
<1>9. Here.fn # "pattern"
  <2>1. SUFFICES ASSUME Here.fn = "pattern"
                 PROVE  FALSE
    OBVIOUS
  <2>2. PatternAt(Here, Here.todo, Here.onErr, Here.pend, Len(gs), csi.gbot, csi.gparent)
    BY <1>2, <2>1 DEF StrongAt
  <2>3. Here.todo \notin TileUp \cup TileFlat
    BY UpNext, FlatNext
  <2>4. Here.todo # <<Do("always")>> /\ Here.todo # <<Do("grestore")>>
    <3>1. <<Do("always")>>[1][1] = "always" /\ <<Do("grestore")>>[1][1] = "grestore"
      BY Tuples, StepNames
    <3> QED BY <3>1
  <2> QED BY <2>2, <2>3, <2>4, Zenon DEF PatternAt
<1>10. CASE Here.fn = "form"
  <2>1. /\ Here.todo \in Before(Here.form) /\ Here.onErr = FormEnd(Here.form)
    BY <1>1, <1>10, FormStep, Zenon
  <2>2. Here.todo # FormEnd(Here.form)
    <3>1. FormEnd(Here.form)[1][1] = "always"
      BY EndNext
    <3> QED BY <3>1
  <2>3. Tail(Here.todo) # << >> /\ InOrder(Here.todo[1], Tail(Here.todo)[1])
    BY <2>1, <2>2, FormHeads
  <2>4. PICK a, c : a = Here.todo[1] /\ c = Tail(Here.todo)[1]
    OBVIOUS
  <2>5. InOrder(a, c) /\ a[1] = "softmask"
    BY <2>3, <2>4
  <2>6. Do("contents")[1] = "contents" /\ Open("group")[1] = "open" /\ Do("reset")[1] = "reset"
        /\ Do("clip")[1] = "clip"
    BY StepNames
  <2>7. a = Do("softmask") /\ c = Open("group")
    BY <2>5, <2>6 DEF InOrder
  <2> QED BY <1>10, <2>3, <2>4, <2>7
<1>11. CASE Here.fn \notin Outer \cup Named
  <2>1. Here.todo \in Seq(PaintWords)
    BY <1>2, <1>11 DEF StrongAt, PaintAt
  <2>2. z \in PaintWords
    BY <1>4, <2>1, HeadTail
  <2>3. \/ z \in {Do("clip"), Do("draw"), Do("pattern"), Do("unmask")} \/ z = Do("softmask")
        \/ z = Do("end blend") \/ z = Do("clip text")
        \/ z = Open("clip") \/ z = Open("group") \/ z = Close("clip") \/ z = Close("group")
    BY <2>2, Zenon DEF PaintWords
  <2>4. z \notin {Do("clip"), Do("draw"), Do("pattern"), Do("unmask")}
    <3>1. /\ Do("clip")[1] = "clip" /\ Do("draw")[1] = "draw"
          /\ Do("pattern")[1] = "pattern" /\ Do("unmask")[1] = "unmask"
      BY StepNames
    <3> QED BY <1>5, <3>1
  <2>5. ~(z = Do("end blend") \/ z = Do("clip text"))
    <3>1. ASSUME z = Do("end blend") \/ z = Do("clip text")
          PROVE  z[1] = "end blend" \/ z[1] = "clip text"
      BY <3>1, StepNames, Zenon
    <3>2. z[1] # "end blend" /\ z[1] # "clip text"
      BY <1>5, Zenon
    <3> QED BY <3>1, <3>2, Zenon
  <2>6. ~(z = Open("clip") \/ z = Open("group") \/ z = Close("clip") \/ z = Close("group"))
    <3>1. /\ Open("clip")[1] = "open" /\ Open("group")[1] = "open"
          /\ Close("clip")[1] = "close" /\ Close("group")[1] = "close"
      BY StepNames
    <3> QED BY <1>5, <3>1
  <2>7. z = Do("softmask")
    BY <2>3, <2>4, <2>5, <2>6, Zenon
  <2>8. IsPaint(Here.fn)
    BY <1>11 DEF IsPaint
  <2> QED BY <1>4, <2>7, <2>8
<1> QED BY <1>7, <1>8, <1>9, <1>10, <1>11 DEF Named

\* the call that renders it
LEMMA MaskBears ==
  ASSUME NEW h, h.fn = "mask", h.todo = <<Open("mask"), Do("form"), MaskDone>>, NEW b
  PROVE  Bears(h, b, << >>)
<1>1. PICK op, fo, d : op = Open("mask") /\ fo = Do("form") /\ d = MaskDone
  OBVIOUS
<1>2. PICK n, k, c : n = << >> /\ k = <<"mask">> /\ c = <<"clip">>
  OBVIOUS
<1>3. n \in Seq(Kinds) /\ k \in Seq(Kinds) /\ c \in Seq(Kinds) /\ k = Append(n, "mask")
  BY <1>2, KindSeqs
<1>4. op[1] = "open" /\ fo[1] = "form" /\ d[1] # "unmask" /\ d # Do("softmask")
  <2>1. op[1] = "open" /\ fo[1] = "form"
    BY <1>1, StepNames
  <2> QED BY <1>1, <2>1, TurnsMask
<1>5. Turns(h.fn, h.soft, b, op, n, k)
  BY <1>1, <1>3, TurnsOpening
<1>6. Turns(h.fn, h.soft, b, fo, k, k)
  <2>1. fo[1] \notin {"open", "close", "unmask", "softmask", "clip"}
    BY <1>4
  <2>2. fo[1] \notin {"end blend", "end mask", "clip text"}
    BY <1>4, Zenon
  <2> QED BY <2>1, <2>2, Zenon DEF Turns
<1>7. Turns(h.fn, h.soft, b, d, k, c)
  BY <1>1, <1>2, TurnsMask
<1>8. PICK t, r : t = <<fo, d>> /\ r = <<d>>
  OBVIOUS
<1>9. PICK S : S = {op, fo, d}
  OBVIOUS
<1>10. h.todo \in Seq(S) /\ t \in Seq(S) /\ r \in Seq(S)
  BY <1>1, <1>8, <1>9, ThreeWords
<1>11. IsSeq(t) /\ IsSeq(r)
  BY <1>10 DEF IsSeq
<1>12. h.todo = <<op>> \o t
  <2>1. h.todo # << >> /\ h.todo[1] = op /\ Tail(h.todo) = t
    BY <1>1, <1>8, Tuples
  <2> QED BY <1>10, <2>1, HeadAnd
<1>13. t = <<fo>> \o r
  <2>1. t # << >> /\ t[1] = fo /\ Tail(t) = r
    BY <1>8, Tuples
  <2> QED BY <1>10, <2>1, HeadAnd
<1>14. Leads(h.fn, h.soft, b, r, k, c)
  BY <1>3, <1>7, <1>8, LeadsOne
<1>15. Leads(h.fn, h.soft, b, t, k, c)
  BY <1>3, <1>4, <1>6, <1>11, <1>13, <1>14, LeadsThen
<1>16. Leads(h.fn, h.soft, b, h.todo, n, c)
  BY <1>3, <1>4, <1>5, <1>11, <1>12, <1>15, LeadsThen
<1>17. SoftensIn(h.fn, b, h.todo)
  <2>1. Do("softmask")[1] = "softmask"
    BY StepNames
  <2>2. op # Do("softmask") /\ fo # Do("softmask")
    BY <1>4, <2>1
  <2>3. \A z \in S : z # Do("softmask")
    BY <1>4, <1>9, <2>2
  <2>4. \A j \in 1..Len(h.todo) : h.todo[j] # Do("softmask")
    BY <1>10, <2>3
  <2> QED BY <2>4, SoftensNever
<1>18. Final(h) = c
  BY <1>2 DEF Final
<1> QED BY <1>2, <1>16, <1>17, <1>18 DEF Bears, Softens, SoftensIn, Rescues

\* the call that has taken it
LEMMA SoftBears ==
  ASSUME LInv, Patient, calls # << >>, Here.todo # << >>, Here.todo[1][1] = "softmask",
         NEW m \in Forms, NEW g, g = Softly(Here, m), NEW b, NEW w, Bears(Here, b, w)
  PROVE  w = << >> /\ Bears(g, b, <<"clip">>)
<1>1. PICK f, t, x : f = Here /\ t = Tail(Here.todo) /\ x = Do("softmask")
  OBVIOUS
<1>2. /\ f.todo[1] = x /\ Shaped(f) /\ f.todo # << >> /\ f.fn # "stream"
      /\ IsPaint(f.fn) \/ (f.fn = "form" /\ t # << >> /\ t[1] = Open("group"))
  <2>1. Shaped(f)
    BY <1>1, HereIn
  <2> QED BY <1>1, <2>1, SoftWhere DEF IsPaint, Named
<1>3. g.fn = f.fn /\ g.todo = t /\ g.onErr = f.onErr /\ g.soft = m
  BY <1>1, SoftlyFields DEF Kin
<1>4. IsSeq(f.todo) /\ f.todo \in Seq(StepsOf(f.fn))
  BY <1>2, ShapedSeqs
<1>5. f.todo = <<x>> \o t /\ IsSeq(t)
  <2>1. f.todo = <<x>> \o t
    BY <1>1, <1>2, <1>4, HeadAnd
  <2>2. t \in Seq(StepsOf(f.fn))
    BY <1>1, <1>2, <1>4, HeadTail
  <2> QED BY <2>1, <2>2 DEF IsSeq
<1>6. PICK s : s = f.todo
  OBVIOUS
<1>7. Leads(f.fn, f.soft, b, s, w, Final(f)) /\ SoftensIn(f.fn, b, s) /\ Rescues(f, b, w)
  BY <1>1, <1>6 DEF Bears, Softens, SoftensIn
<1>8. w = << >>
  <2>1. PICK k1 : Turns(f.fn, f.soft, b, s[1], w, k1)
    BY <1>2, <1>4, <1>6, <1>7, LeadsFirst
  <2>2. s[1][1] = "softmask"
    BY <1>1, <1>6
  <2> QED BY <2>1, <2>2, TurnsWhat
<1>9. SoftOf(m) = <<"clip">> /\ m # None
  <2>1. m # None
    BY FormsAssumption
  <2> QED BY <2>1 DEF SoftOf
<1>10. Final(g) = << >>
  <2>1. g.fn # "mask"
    BY <1>2, <1>3 DEF IsPaint, Named
  <2> QED BY <2>1 DEF Final
<1>11. Leads(g.fn, m, b, t, SoftOf(m), << >>)
  <2>1. s = <<x>> \o t
    BY <1>5, <1>6
  <2> QED BY <1>1, <1>3, <1>5, <1>7, <2>1, SoftensCons
<1>12. SoftensIn(g.fn, b, t)
  <2>1. s = <<x>> \o t
    BY <1>5, <1>6
  <2> QED BY <1>3, <1>5, <1>7, <2>1, SoftensCons
<1>13. Rescues(g, b, SoftOf(m))
  <2>1. SUFFICES ASSUME f.fn = "form", f.onErr # << >>
                 PROVE  /\ Leads("form", m, b, f.onErr, IF Opening(g) THEN Append(SoftOf(m), "group")
                                                        ELSE SoftOf(m), << >>)
                        /\ ~(t # << >> /\ t[1] = Do("softmask"))
    BY <1>3, Zenon DEF Rescues
  <2>2. t # << >> /\ t[1] = Open("group")
    <3>1. ~IsPaint(f.fn)
      BY <2>1 DEF IsPaint, Named
    <3> QED BY <1>2, <3>1
  <2>3. Opening(g)
    BY <1>3, <2>2 DEF Opening
  <2>4. Leads("form", m, b, f.onErr, Append(SoftOf(m), "group"), << >>)
    <3>1. s # << >> /\ s[1] = Do("softmask")
      BY <1>1, <1>2, <1>6
    <3> QED BY <1>6, <1>7, <2>1, <3>1 DEF Rescues
  <2>5. t[1] # Do("softmask")
    BY <2>2, NotOpening
  <2> QED BY <2>3, <2>4, <2>5
<1>14. Bears(g, b, SoftOf(m))
  BY <1>2, <1>3, <1>10, <1>11, <1>12, <1>13 DEF Bears, Softens, SoftensIn
<1> QED BY <1>8, <1>9, <1>14

\* begin_softmask
LEMMA BeginSoftmaskNests ==
  ASSUME LInv, LInv', SInv, NInv, Patient, BeginSoftmask
  PROVE  Nests(calls', gs', dev', lost')
<1>1. Next1("softmask") /\ dev' = dev /\ lost' = lost
  BY DEF BeginSoftmask
<1>2. /\ calls # << >> /\ Here.todo # << >> /\ Here.todo[1][1] = "softmask"
      /\ Len(gs) \in 1..Len(gs) /\ IsState(State, Len(gs)) /\ Shaped(Here) /\ IsRec(Here)
  BY <1>1, At1, NextGoes, HereIn DEF SInv
<1>3. PICK m : m = State.soft
  OBVIOUS
<1>4. CASE m = None
  <2>1. calls' = Past /\ gs' = gs
    BY <1>3, <1>4, Zenon DEF BeginSoftmask
  <2>2. Done(gs, dev')
    <3>1. "softmask" \in Resting
      BY DEF Resting
    <3> QED BY <1>1, <1>2, <3>1, DoneQuiet
  <2> QED BY <1>1, <1>2, <2>1, <2>2, PastNests
<1>5. CASE m # None
  <2>1. PICK g : g = Softly(Here, m)
    OBVIOUS
  <2>2. PICK s, o : s = <<Open("mask"), Do("form"), MaskDone>> /\ o = <<MaskDone>>
    OBVIOUS
  <2>3. PICK h : h = FrameFor("mask", s, o, m)
    OBVIOUS
  <2>4. calls' = Append(Goes(g), h) /\ gs' = [gs EXCEPT ![Len(gs)].soft = None]
    <3>1. /\ calls' = Append(Goes(Softly(Here, State.soft)),
                             FrameFor("mask", <<Open("mask"), Do("form"), MaskDone>>,
                                      <<MaskDone>>, State.soft))
          /\ gs' = [gs EXCEPT ![Len(gs)].soft = None]
      BY <1>3, <1>5, Zenon DEF BeginSoftmask, Softly, FrameFor, MaskDone
    <3> QED BY <1>3, <2>1, <2>2, <2>3, <3>1, Zenon
  <2>5. /\ g.fn = Here.fn /\ g.base = Here.base /\ g.todo = Tail(Here.todo)
        /\ g.onErr = Here.onErr /\ g.soft = m
    BY <1>2, <2>1, SoftlyFields DEF Kin
  <2>6. h.fn = "mask" /\ h.todo = s /\ h.base = Len(gs)
    <3>1. h = FrameRec("mask", s, o, Len(gs), m)
      BY <2>3, RecWith
    <3> QED BY <3>1, NewFields
  <2>7. m \in Forms
    BY <1>2, <1>3, <1>5 DEF IsState
  <2>8. \/ IsPaint(Here.fn)
        \/ Here.fn = "form" /\ Tail(Here.todo) # << >> /\ Tail(Here.todo)[1] = Open("group")
    BY <1>2, SoftWhere
  <2>9. Above(g, h)
    <3>1. h.fn # "stream" /\ ~IsPaint(h.fn) /\ g.fn # "mask"
      BY <2>5, <2>6, <2>8 DEF IsPaint, Named
    <3>2. IsPaint(g.fn) \/ (g.fn = "form" /\ Opening(g))
      BY <2>5, <2>8 DEF Opening
    <3> QED BY <2>6, <3>1, <3>2 DEF Above
  <2>10. Raised(g) => Raised(Here)
    <3>1. PICK r : r = Shorter(Here)
      OBVIOUS
    <3>2. Advances(r)
      BY <1>2, <3>1, PastAdvances, Zenon
    <3>3. Raised(r) => Raised(Here)
      BY <1>2, <3>2, LowersPast
    <3>4. Here.fn # "pattern"
      BY <2>8 DEF IsPaint, Named
    <3>5. r.fn = Here.fn /\ r.todo = Tail(Here.todo)
      BY <3>2 DEF Advances
    <3>6. Entering(g) <=> Entering(r)
      BY <2>5, <3>5 DEF Entering
    <3> QED BY <2>5, <3>3, <3>4, <3>5, <3>6 DEF Raised
  <2>11. ~Raised(h) /\ ClipsOf(gs, h.base) = ClipsOf(gs, Len(gs))
    BY <2>6 DEF Raised
  <2>12. Hands(gs, g, h)
    <3>1. Bears(h, gs[h.base].blend, << >>)
      BY <2>2, <2>6, MaskBears
    <3>2. Final(h) = <<"clip">> /\ << >> \o <<"clip">> = <<"clip">>
      BY <2>6, KindSeqs DEF Final
    <3>3. ASSUME NEW w \in Seq(Kinds), Bears(Here, gs[Here.base].blend, w)
          PROVE  Bears(g, gs[Here.base].blend, w \o Final(h))
      <4>1. PICK b : b = gs[Here.base].blend
        OBVIOUS
      <4>2. w = << >> /\ Bears(g, b, <<"clip">>)
        BY <1>2, <2>1, <2>7, <3>3, <4>1, SoftBears
      <4>3. w \o Final(h) = <<"clip">>
        BY <3>2, <4>2
      <4> QED BY <4>1, <4>2, <4>3
    <3> QED BY <2>5, <3>1, <3>3 DEF Hands
  <2>13. Nests(Append(Goes(g), h), gs, dev, lost)
    BY <1>2, <2>5, <2>9, <2>10, <2>11, <2>12, NInvIs, NestsPush
  <2>14. Nests(calls', gs, dev', lost')
    BY <1>1, <2>4, <2>13
  <2> QED BY <1>2, <2>4, <2>14, NestsMask
<1> QED BY <1>4, <1>5

-----------------------------------------------------------------------------
(* Painting                                                                *)

\* the steps of what paints, but for a soft mask
PlainWords == {z \in PaintWords : z # Do("softmask") /\ z[1] # "unmask"}
LEMMA PlainWordsAre ==
  /\ BlendEnd \in PlainWords /\ TextClip \in PlainWords /\ Do("draw") \in PlainWords
  /\ Do("pattern") \in PlainWords /\ Do("clip") \in PlainWords /\ Open("clip") \in PlainWords
  /\ Open("group") \in PlainWords /\ Close("clip") \in PlainWords
  /\ Do("softmask") \in PaintWords /\ Do("unmask") \in PaintWords
  /\ PlainWords \subseteq PaintWords
<1>1. /\ BlendEnd \in PaintWords /\ TextClip \in PaintWords /\ Do("draw") \in PaintWords
      /\ Do("pattern") \in PaintWords /\ Do("clip") \in PaintWords /\ Open("clip") \in PaintWords
      /\ Open("group") \in PaintWords /\ Close("clip") \in PaintWords
      /\ Do("softmask") \in PaintWords /\ Do("unmask") \in PaintWords
  BY Zenon DEF PaintWords, BlendEnd, TextClip
<1>4. IsPaint("n")
  BY DEF IsPaint, Outer, Named
<1>5. BlendEnd[1] # "unmask" /\ BlendEnd # Do("softmask")
  BY <1>4, TurnsBlend
<1>6. TextClip[1] # "unmask" /\ TextClip # Do("softmask")
  <2>1. << >> \in Clips
    BY DEF Clips
  <2> QED BY <2>1, TurnsText
<1>7. /\ Do("draw")[1] = "draw" /\ Do("pattern")[1] = "pattern" /\ Do("clip")[1] = "clip"
      /\ Open("clip")[1] = "open" /\ Open("group")[1] = "open" /\ Close("clip")[1] = "close"
      /\ Do("softmask")[1] = "softmask"
  BY StepNames
<1>8. \A y \in {Do("draw"), Do("pattern"), Do("clip"), Open("clip"), Open("group"), Close("clip")} :
        y # Do("softmask") /\ y[1] # "unmask"
  BY <1>7
<1> QED BY <1>1, <1>5, <1>6, <1>8, Zenon DEF PlainWords

\* the switch on gstate->fill.kind
LEMMA FillLeads ==
  ASSUME NEW fn, NEW m, NEW b, NEW v \in Seq(Kinds)
  PROVE  Leads(fn, m, b, Fill, v, v) /\ Fill \in Seq(PlainWords)
<1>1. PICK op, cl, k : op = Open("clip") /\ cl = Close("clip") /\ k = Append(v, "clip")
  OBVIOUS
<1>2. k \in Seq(Kinds)
  BY <1>1, KindSeqs
<1>3. op \in PlainWords /\ cl \in PlainWords
  BY <1>1, PlainWordsAre
<1>4. op[1] = "open" /\ cl[1] = "close"
  BY <1>1, StepNames
<1>5. ASSUME NEW z \in {Do("draw"), Do("pattern")}
      PROVE  z \in PlainWords /\ z[1] # "unmask" /\ \A y : Turns(fn, m, b, z, y, y)
  <2>1. z[1] \in {"draw", "pattern"}
    BY StepNames
  <2>2. z[1] \notin {"open", "close", "unmask", "softmask", "clip"}
    BY <2>1
  <2>3. z[1] \notin {"end blend", "end mask", "clip text"}
    BY <2>1, Zenon
  <2>4. \A y : Turns(fn, m, b, z, y, y)
    BY <2>2, <2>3, Zenon DEF Turns
  <2> QED BY <2>2, <2>4, PlainWordsAre
<1>6. ASSUME NEW z \in {Do("draw"), Do("pattern")}
      PROVE  Leads(fn, m, b, <<op, z, cl>>, v, v) /\ <<op, z, cl>> \in Seq(PlainWords)
  <2>1. PICK s, t, r : s = <<op, z, cl>> /\ t = <<z, cl>> /\ r = <<cl>>
    OBVIOUS
  <2>2. s \in Seq(PlainWords) /\ t \in Seq(PlainWords) /\ r \in Seq(PlainWords)
    BY <1>3, <1>5, <2>1, ThreeWords
  <2>3. IsSeq(t) /\ IsSeq(r)
    BY <2>2 DEF IsSeq
  <2>4. s = <<op>> \o t
    <3>1. s # << >> /\ s[1] = op /\ Tail(s) = t
      BY <2>1, Tuples
    <3> QED BY <2>2, <3>1, HeadAnd
  <2>5. t = <<z>> \o r
    <3>1. t # << >> /\ t[1] = z /\ Tail(t) = r
      BY <2>1, Tuples
    <3> QED BY <2>2, <3>1, HeadAnd
  <2>6. Leads(fn, m, b, r, k, v)
    BY <1>1, <1>2, <2>1, TurnsClose, LeadsOne
  <2>7. Leads(fn, m, b, t, k, v)
    BY <1>2, <1>5, <2>3, <2>5, <2>6, LeadsThen
  <2>8. Turns(fn, m, b, op, v, k)
    BY <1>1, TurnsOpening
  <2>9. Leads(fn, m, b, s, v, v)
    BY <1>2, <1>4, <2>3, <2>4, <2>7, <2>8, LeadsThen
  <2> QED BY <2>1, <2>2, <2>9
<1>7. Leads(fn, m, b, <<Do("draw")>>, v, v) /\ <<Do("draw")>> \in Seq(PlainWords)
  <2>1. PICK z : z = Do("draw")
    OBVIOUS
  <2>2. z \in PlainWords /\ Turns(fn, m, b, z, v, v)
    BY <1>5, <2>1
  <2>3. Leads(fn, m, b, <<z>>, v, v) /\ <<z>> \in Seq(PlainWords)
    BY <2>2, LeadsOne, ThreeWords
  <2> QED BY <2>1, <2>3
<1>8. \/ Fill = <<Do("draw")>>
      \/ Fill = <<op, Do("draw"), cl>> \/ Fill = <<op, Do("pattern"), cl>>
  BY <1>1 DEF Fill
<1> QED BY <1>6, <1>7, <1>8

\* pdf_begin_group, what is painted, and pdf_end_group, but for the soft mask
Blended(steps) == (BlendGroup \o steps) \o <<BlendEnd>>
LEMMA BlendedLeads ==
  ASSUME NEW fn, IsPaint(fn), NEW m, NEW b, b = State.blend, NEW u \in Seq(Kinds),
         NEW v, v = (IF b THEN Append(u, "group") ELSE u),
         NEW steps \in Seq(PlainWords), Leads(fn, m, b, steps, v, v)
  PROVE  Leads(fn, m, b, Blended(steps), u, u) /\ Blended(steps) \in Seq(PlainWords)
<1>1. PICK g, d : g = BlendGroup /\ d = BlendEnd
  OBVIOUS
<1>2. v \in Seq(Kinds)
  BY KindSeqs
<1>3. g \in Seq(PlainWords) /\ Leads(fn, m, b, g, u, v)
  <2>1. CASE b
    <3>1. PICK op : op = Open("group") /\ g = <<op>>
      BY <1>1, <2>1 DEF BlendGroup
    <3>2. op \in PlainWords
      BY <3>1, PlainWordsAre
    <3>3. v = Append(u, "group")
      BY <2>1
    <3>4. Turns(fn, m, b, op, u, v)
      BY <3>1, <3>3, TurnsOpening
    <3>5. Leads(fn, m, b, <<op>>, u, v) /\ <<op>> \in Seq(PlainWords)
      BY <1>2, <3>2, <3>4, LeadsOne, ThreeWords
    <3> QED BY <3>1, <3>5
  <2>2. CASE ~b
    <3>1. g = << >> /\ v = u
      BY <1>1, <2>2 DEF BlendGroup
    <3>2. << >> \in Seq(PlainWords)
      BY LenZero
    <3>3. Leads(fn, m, b, << >>, u, u)
      BY LeadsNone
    <3> QED BY <3>1, <3>2, <3>3
  <2> QED BY <2>1, <2>2
<1>4. Leads(fn, m, b, <<d>>, v, u) /\ <<d>> \in Seq(PlainWords)
  <2>1. Turns(fn, m, b, d, v, u)
    <3>1. v = (IF b THEN Append(u, "group") ELSE u)
      OBVIOUS
    <3>2. Turns(fn, m, b, BlendEnd, v, u) <=> (v = (IF b THEN Append(u, "group") ELSE u))
      BY TurnsBlend, Zenon
    <3>3. Turns(fn, m, b, BlendEnd, v, u)
      BY <3>1, <3>2, Zenon
    <3> QED BY <1>1, <3>2
  <2>2. d \in PlainWords
    BY <1>1, PlainWordsAre
  <2> QED BY <1>2, <2>1, <2>2, LeadsOne, ThreeWords
<1>5. ASSUME NEW t \in Seq(PlainWords)
      PROVE  IsSeq(t) /\ \A j \in 1..Len(t) : t[j][1] # "unmask"
  BY DEF IsSeq, PlainWords
<1>6. PICK p : p = g \o steps
  OBVIOUS
<1>7. p \in Seq(PlainWords) /\ Leads(fn, m, b, p, u, v)
  <2>1. p \in Seq(PlainWords)
    BY <1>3, <1>6, ConcatIn
  <2>2. IsSeq(g) /\ IsSeq(steps) /\ \A j \in 1..Len(g) : g[j][1] # "unmask"
    BY <1>3, <1>5
  <2> QED BY <1>3, <1>6, <2>1, <2>2, LeadsBoth
<1>8. PICK q : q = p \o <<d>>
  OBVIOUS
<1>9. q \in Seq(PlainWords) /\ Leads(fn, m, b, q, u, u)
  <2>1. q \in Seq(PlainWords)
    BY <1>4, <1>7, <1>8, ConcatIn
  <2>2. IsSeq(p) /\ IsSeq(<<d>>) /\ \A j \in 1..Len(p) : p[j][1] # "unmask"
    BY <1>4, <1>5, <1>7
  <2> QED BY <1>4, <1>7, <1>8, <2>1, <2>2, LeadsBoth
<1> QED BY <1>1, <1>6, <1>8, <1>9 DEF Blended

LEMMA PlainSeqs ==
  ASSUME NEW t \in Seq(PlainWords)
  PROVE  /\ IsSeq(t) /\ t \in Seq(PaintWords)
         /\ \A j \in 1..Len(t) : t[j] # Do("softmask") /\ t[j][1] # "unmask"
         /\ \A fn, b : SoftensIn(fn, b, t)
<1>1. \A j \in 1..Len(t) : t[j] # Do("softmask") /\ t[j][1] # "unmask"
  BY DEF PlainWords
<1>2. t \in Seq(PaintWords)
  BY PlainWordsAre, Widens
<1>3. \A fn, b : SoftensIn(fn, b, t)
  BY <1>1, SoftensNever
<1> QED BY <1>1, <1>2, <1>3 DEF IsSeq

LEMMA GroupedIs ==
  ASSUME NEW steps \in Seq(PlainWords)
  PROVE  Grouped(steps) =
           IF State.soft = None THEN Blended(steps)
           ELSE <<Do("softmask")>> \o (Blended(steps) \o <<Do("unmask")>>)
<1>1. PICK s, u, g, d : s = Do("softmask") /\ u = Do("unmask") /\ g = BlendGroup /\ d = BlendEnd
  OBVIOUS
<1>2. PICK P : P = PaintWords
  OBVIOUS
<1>3. /\ <<s>> \in Seq(P) /\ <<u>> \in Seq(P) /\ g \in Seq(P) /\ <<d>> \in Seq(P)
      /\ steps \in Seq(P) /\ << >> \in Seq(P)
  <2>1. s \in P /\ u \in P /\ d \in P /\ Open("group") \in P
    BY <1>1, <1>2, PlainWordsAre
  <2>2. g = <<Open("group")>> \/ g = << >>
    BY <1>1 DEF BlendGroup
  <2>3. << >> \in Seq(P) /\ <<Open("group")>> \in Seq(P)
    BY <2>1, LenZero, ThreeWords
  <2>4. steps \in Seq(P)
    BY <1>2, PlainSeqs
  <2> QED BY <2>1, <2>2, <2>3, <2>4, ThreeWords
<1>4. CASE State.soft = None
  <2>1. Grouped(steps) = (((<< >> \o g) \o steps) \o <<d>>) \o << >>
    BY <1>1, <1>4, Zenon DEF Grouped, BlendEnd
  <2>2. << >> \o g = g
    BY <1>3, EmptyConcat
  <2>3. PICK q : q = (g \o steps) \o <<d>>
    OBVIOUS
  <2>4. q \in Seq(P)
    BY <1>3, <2>3, ConcatIn
  <2>5. q \o << >> = q
    BY <2>4, ConcatEmptySeq
  <2> QED BY <1>1, <1>4, <2>1, <2>2, <2>3, <2>5 DEF Blended
<1>5. CASE State.soft # None
  <2>1. Grouped(steps) = (((<<s>> \o g) \o steps) \o <<d>>) \o <<u>>
    BY <1>1, <1>5, Zenon DEF Grouped, BlendEnd
  <2>2. PICK a, e, f : a = <<s>> /\ e = <<d>> /\ f = <<u>>
    OBVIOUS
  <2>3. PICK t : t = steps
    OBVIOUS
  <2>4. a \in Seq(P) /\ e \in Seq(P) /\ f \in Seq(P) /\ g \in Seq(P) /\ t \in Seq(P)
    BY <1>3, <2>2, <2>3
  <2>5. PICK p, q : p = g \o t /\ q = p \o e
    OBVIOUS
  <2>6. p \in Seq(P) /\ q \in Seq(P)
    BY <2>4, <2>5, ConcatIn
  <2>7. ASSUME NEW x \in Seq(P), NEW y \in Seq(P), NEW z \in Seq(P)
        PROVE  (x \o y) \o z = x \o (y \o z)
    BY ConcatAssociative
  <2>8. (a \o g) \o t = a \o (g \o t)
    BY <2>4, <2>7
  <2>9. (a \o p) \o e = a \o (p \o e)
    <3>1. a \in Seq(P) /\ p \in Seq(P) /\ e \in Seq(P)
      BY <2>4, <2>6
    <3> QED BY <3>1, <2>7
  <2>10. (a \o q) \o f = a \o (q \o f)
    <3>1. a \in Seq(P) /\ q \in Seq(P) /\ f \in Seq(P)
      BY <2>4, <2>6
    <3> QED BY <3>1, <2>7
  <2>11. Grouped(steps) = (((a \o g) \o t) \o e) \o f
    BY <2>1, <2>2, <2>3
  <2>12. Grouped(steps) = a \o (q \o f)
    BY <2>5, <2>8, <2>9, <2>10, <2>11
  <2> QED BY <1>1, <1>5, <2>2, <2>3, <2>5, <2>12 DEF Blended
<1> QED BY <1>4, <1>5

\* what is painted leaves open what it finds open
Balanced(fn, b, steps) ==
  \A m \in Forms \cup {None} : \A u \in Clips :
    LET v == IF b THEN Append(u, "group") ELSE u IN Leads(fn, m, b, steps, v, v)
LEMMA GroupKinds ==
  ASSUME NEW b, NEW u \in Clips, NEW v, v = (IF b THEN Append(u, "group") ELSE u)
  PROVE  v \in Seq(Kinds)
<1>1. u \in Seq(Kinds)
  BY KindSeqs
<1>2. Append(u, "group") \in Seq(Kinds)
  BY <1>1, KindSeqs
<1> QED BY <1>1, <1>2

LEMMA FillBalanced ==
  ASSUME NEW fn, NEW b
  PROVE  Balanced(fn, b, Fill)
<1>1. SUFFICES ASSUME NEW m \in Forms \cup {None}, NEW u \in Clips,
                      NEW v, v = (IF b THEN Append(u, "group") ELSE u)
               PROVE  Leads(fn, m, b, Fill, v, v)
  BY Zenon DEF Balanced
<1>2. v \in Seq(Kinds)
  BY <1>1, GroupKinds
<1> QED BY <1>2, FillLeads

LEMMA DrawBalanced ==
  ASSUME NEW fn, NEW b
  PROVE  Balanced(fn, b, <<Do("draw")>>) /\ <<Do("draw")>> \in Seq(PlainWords)
<1>1. PICK z : z = Do("draw")
  OBVIOUS
<1>2. <<z>> \in Seq(PlainWords)
  BY <1>1, PlainWordsAre, ThreeWords
<1>3. ASSUME NEW m \in Forms \cup {None}, NEW u \in Clips,
             NEW v, v = (IF b THEN Append(u, "group") ELSE u)
      PROVE  Leads(fn, m, b, <<z>>, v, v)
  <2>1. v \in Seq(Kinds)
    BY <1>3, GroupKinds
  <2>2. z[1] = "draw"
    BY <1>1, StepNames
  <2>3. z[1] \notin {"open", "close", "unmask", "softmask", "clip"}
    BY <2>2
  <2>4. z[1] \notin {"end blend", "end mask", "clip text"}
    BY <2>2, Zenon
  <2>5. Turns(fn, m, b, z, v, v)
    BY <2>3, <2>4, Zenon DEF Turns
  <2> QED BY <2>1, <2>5, LeadsOne
<1>4. Balanced(fn, b, <<z>>)
  BY <1>3, Zenon DEF Balanced
<1> QED BY <1>1, <1>2, <1>4

\* pdf_flush_text fills the text and clips to it
LEMMA TextBalanced ==
  ASSUME NEW fn, NEW b
  PROVE  Balanced(fn, b, Fill \o <<TextClip>>) /\ Fill \o <<TextClip>> \in Seq(PlainWords)
<1>1. PICK f, c : f = Fill /\ c = <<TextClip>>
  OBVIOUS
<1>2. f \in Seq(PlainWords) /\ c \in Seq(PlainWords)
  <2>1. << >> \in Seq(Kinds)
    BY KindSeqs
  <2>2. Fill \in Seq(PlainWords)
    BY <2>1, FillLeads
  <2> QED BY <1>1, <2>2, PlainWordsAre, ThreeWords
<1>3. f \o c \in Seq(PlainWords)
  BY <1>2, ConcatIn
<1>4. ASSUME NEW m \in Forms \cup {None}, NEW u \in Clips,
             NEW v, v = (IF b THEN Append(u, "group") ELSE u)
      PROVE  Leads(fn, m, b, f \o c, v, v)
  <2>1. v \in Seq(Kinds)
    BY <1>4, GroupKinds
  <2>2. Leads(fn, m, b, f, v, v)
    BY <1>1, <2>1, FillLeads
  <2>3. Turns(fn, m, b, TextClip, v, v)
    <3>1. b \/ v \in Clips
      BY <1>4
    <3> QED BY <3>1, TurnsText
  <2>4. Leads(fn, m, b, c, v, v)
    BY <1>1, <2>1, <2>3, LeadsOne
  <2> QED BY <1>2, <2>2, <2>4, PlainSeqs, LeadsBoth
<1>5. Balanced(fn, b, f \o c)
  BY <1>4, Zenon DEF Balanced
<1> QED BY <1>1, <1>3, <1>5

LEMMA BlendedBalanced ==
  ASSUME NEW fn, IsPaint(fn), NEW b, b = State.blend,
         NEW steps \in Seq(PlainWords), Balanced(fn, b, steps)
  PROVE  /\ Blended(steps) \in Seq(PlainWords)
         /\ \A m \in Forms \cup {None} : \A u \in Clips : Leads(fn, m, b, Blended(steps), u, u)
<1>1. ASSUME NEW m \in Forms \cup {None}, NEW u \in Clips
      PROVE  Leads(fn, m, b, Blended(steps), u, u) /\ Blended(steps) \in Seq(PlainWords)
  <2>1. PICK v : v = (IF b THEN Append(u, "group") ELSE u)
    OBVIOUS
  <2>2. Leads(fn, m, b, steps, v, v)
    BY <2>1, Zenon DEF Balanced
  <2>3. u \in Seq(Kinds)
    BY KindSeqs
  <2> QED BY <2>1, <2>2, <2>3, BlendedLeads
<1>2. << >> \in Clips /\ None \in Forms \cup {None}
  BY DEF Clips
<1> QED BY <1>1, <1>2

LEMMA GroupedBears ==
  ASSUME NEW fn, IsPaint(fn), NEW b, b = State.blend,
         NEW steps \in Seq(PlainWords), Balanced(fn, b, steps)
  PROVE  /\ Leads(fn, None, b, Grouped(steps), << >>, << >>)
         /\ SoftensIn(fn, b, Grouped(steps)) /\ Grouped(steps) \in Seq(PaintWords)
<1>1. PICK q, s, z : q = Blended(steps) /\ s = Do("softmask") /\ z = Do("unmask")
  OBVIOUS
<1>2. q \in Seq(PlainWords) /\ \A m \in Forms \cup {None} : \A u \in Clips : Leads(fn, m, b, q, u, u)
  BY <1>1, BlendedBalanced
<1>3. << >> \in Clips /\ None \in Forms \cup {None}
  BY DEF Clips
<1>4. CASE State.soft = None
  <2>1. Grouped(steps) = q
    BY <1>1, <1>4, GroupedIs
  <2> QED BY <1>2, <1>3, <2>1, PlainSeqs
<1>5. CASE State.soft # None
  <2>1. PICK r : r = q \o <<z>>
    OBVIOUS
  <2>2. Grouped(steps) = <<s>> \o r
    BY <1>1, <1>5, <2>1, GroupedIs
  <2>3. <<z>> \in Seq(PaintWords) /\ <<s>> \in Seq(PaintWords) /\ q \in Seq(PaintWords)
    BY <1>1, <1>2, PlainWordsAre, ThreeWords, PlainSeqs
  <2>4. r \in Seq(PaintWords) /\ IsSeq(r) /\ IsSeq(<<z>>)
    BY <2>1, <2>3, ConcatIn DEF IsSeq
  <2>5. ASSUME NEW m \in Forms \cup {None}
        PROVE  Leads(fn, m, b, r, SoftOf(m), << >>)
    <3>1. PICK u : u = SoftOf(m)
      OBVIOUS
    <3>2. u \in Clips /\ u \in Seq(Kinds) /\ << >> \in Seq(Kinds) /\ << >> \o u = u
      BY <3>1, KindSeqs
    <3>3. Turns(fn, m, b, z, u, << >>)
      <4>1. Turns(fn, m, b, z, << >> \o SoftOf(m), << >>)
        BY <1>1, TurnsUnmask
      <4> QED BY <3>1, <3>2, <4>1
    <3>4. Leads(fn, m, b, <<z>>, u, << >>)
      BY <3>2, <3>3, LeadsOne
    <3>5. Leads(fn, m, b, q, u, u)
      BY <1>2, <3>2
    <3>6. IsSeq(q) /\ \A j \in 1..Len(q) : q[j][1] # "unmask"
      BY <1>2, PlainSeqs
    <3> QED BY <2>1, <2>4, <3>1, <3>4, <3>5, <3>6, LeadsBoth
  <2>6. SoftensIn(fn, b, r)
    <3>1. \A j \in 1..Len(r) : r[j] # s
      <4>1. ASSUME NEW j \in 1..Len(r)
            PROVE  r[j] # s
        <5>1. z # s
          <6>1. z[1] = "unmask" /\ s[1] = "softmask"
            BY <1>1, StepNames
          <6> QED BY <6>1
        <5>2. \A i \in 1..Len(q) : q[i] # s
          BY <1>1, <1>2, PlainSeqs
        <5>3. r = Append(q, z)
          <6>1. q \in Seq(PaintWords)
            BY <2>3
          <6> QED BY <2>1, <6>1
        <5>4. r[j] = z \/ (j \in 1..Len(q) /\ r[j] = q[j])
          BY <2>3, <5>3
        <5> QED BY <5>1, <5>2, <5>4
      <4> QED BY <4>1
    <3> QED BY <1>1, <3>1, SoftensNever
  <2>7. SoftensIn(fn, b, <<s>> \o r)
    BY <2>4, <2>5, <2>6, SoftensCons
  <2>8. Leads(fn, None, b, <<s>> \o r, << >>, << >>)
    <3>1. Turns(fn, None, b, s, << >>, << >>) /\ s[1] # "unmask"
      BY <1>1, TurnsSoft
    <3>2. Leads(fn, None, b, r, << >>, << >>)
      <4>1. SoftOf(None) = << >>
        BY DEF SoftOf
      <4> QED BY <1>3, <2>5, <4>1
    <3>3. << >> \in Seq(Kinds)
      BY KindSeqs
    <3> QED BY <2>4, <3>1, <3>2, <3>3, LeadsThen
  <2>9. <<s>> \o r \in Seq(PaintWords)
    BY <2>3, <2>4, ConcatIn
  <2> QED BY <2>2, <2>7, <2>8, <2>9
<1> QED BY <1>4, <1>5

\* pdf_show_image with an image mask: the clip is inside of the blend group
MaskFill == (<<Open("clip")>> \o Fill) \o <<Close("clip")>>
LEMMA MaskFillBalanced ==
  ASSUME NEW fn, NEW b
  PROVE  Balanced(fn, b, MaskFill) /\ MaskFill \in Seq(PlainWords)
<1>1. PICK f, op, cl : f = Fill /\ op = Open("clip") /\ cl = Close("clip")
  OBVIOUS
<1>2. PICK p, q : p = <<op>> \o f /\ q = p \o <<cl>>
  OBVIOUS
<1>3. MaskFill = q
  BY <1>1, <1>2 DEF MaskFill
<1>4. /\ f \in Seq(PlainWords) /\ <<op>> \in Seq(PlainWords) /\ <<cl>> \in Seq(PlainWords)
  <2>1. << >> \in Seq(Kinds)
    BY KindSeqs
  <2>2. Fill \in Seq(PlainWords)
    BY <2>1, FillLeads
  <2> QED BY <1>1, <2>2, PlainWordsAre, ThreeWords
<1>5. p \in Seq(PlainWords)
  BY <1>2, <1>4, ConcatIn
<1>6. q \in Seq(PlainWords)
  BY <1>2, <1>4, <1>5, ConcatIn
<1>7. ASSUME NEW m \in Forms \cup {None}, NEW u \in Clips,
             NEW v, v = (IF b THEN Append(u, "group") ELSE u)
      PROVE  Leads(fn, m, b, q, v, v)
  <2>1. v \in Seq(Kinds)
    BY <1>7, GroupKinds
  <2>2. PICK k : k = Append(v, "clip")
    OBVIOUS
  <2>3. k \in Seq(Kinds)
    BY <2>1, <2>2, KindSeqs
  <2>4. Leads(fn, m, b, f, k, k)
    BY <1>1, <2>3, FillLeads
  <2>5. Turns(fn, m, b, op, v, k) /\ op[1] # "unmask"
    BY <1>1, <2>2, TurnsOpening
  <2>6. Leads(fn, m, b, p, v, k)
    BY <1>2, <1>4, <2>1, <2>3, <2>4, <2>5, PlainSeqs, LeadsThen
  <2>7. Turns(fn, m, b, cl, k, v)
    BY <1>1, <2>2, TurnsClose
  <2>8. Leads(fn, m, b, <<cl>>, k, v)
    BY <2>1, <2>3, <2>7, LeadsOne
  <2> QED BY <1>2, <1>4, <1>5, <2>6, <2>8, PlainSeqs, LeadsBoth
<1>8. Balanced(fn, b, q)
  BY <1>7, Zenon DEF Balanced
<1> QED BY <1>3, <1>6, <1>8

LEMMA ImageMaskIs ==
  Painting("image mask") = Blended(MaskFill)
<1>1. PICK g, f, a, c, d :
        g = BlendGroup /\ f = Fill /\ a = <<Open("clip")>> /\ c = Close("clip") /\ d = BlendEnd
  OBVIOUS
<1>2. PICK e, z, cd : e = <<c>> /\ z = <<d>> /\ cd = <<c, d>>
  OBVIOUS
<1>3. PICK P : P = PlainWords
  OBVIOUS
<1>4. a \in Seq(P) /\ e \in Seq(P) /\ z \in Seq(P) /\ cd \in Seq(P)
  BY <1>1, <1>2, <1>3, PlainWordsAre, ThreeWords
<1>5. g \in Seq(P) /\ f \in Seq(P)
  <2>1. << >> \in Seq(Kinds)
    BY KindSeqs
  <2>2. Fill \in Seq(PlainWords)
    BY <2>1, FillLeads
  <2>3. << >> \in Seq(P)
    BY LenZero
  <2>4. g = <<Open("group")>> \/ g = << >>
    BY <1>1 DEF BlendGroup
  <2>5. <<Open("group")>> \in Seq(P)
    BY <1>3, PlainWordsAre, ThreeWords
  <2> QED BY <1>1, <1>3, <2>2, <2>3, <2>4, <2>5
<1>6. cd = e \o z
  <2>1. cd # << >> /\ cd[1] = c /\ Tail(cd) = z
    BY <1>2, Tuples
  <2>2. cd = <<c>> \o z
    BY <1>4, <2>1, HeadAnd
  <2> QED BY <1>2, <2>2
<1>7. ASSUME NEW x \in Seq(P), NEW y \in Seq(P), NEW w \in Seq(P)
      PROVE  (x \o y) \o w = x \o (y \o w)
  BY ConcatAssociative
<1>8. PICK ga, af, p : ga = g \o a /\ af = a \o f /\ p = (g \o a) \o f
  OBVIOUS
<1>9. af \in Seq(P) /\ p \in Seq(P) /\ ga \in Seq(P)
  <2>1. ga \in Seq(P)
    BY <1>4, <1>5, <1>8, ConcatIn
  <2> QED BY <1>4, <1>5, <1>8, <2>1, ConcatIn
<1>10. p = g \o af
  <2>1. (g \o a) \o f = g \o (a \o f)
    BY <1>4, <1>5, <1>7, SMTT(30)
  <2> QED BY <1>8, <2>1
<1>11. (p \o e) \o z = p \o (e \o z)
  <2>1. p \in Seq(P) /\ e \in Seq(P) /\ z \in Seq(P)
    BY <1>4, <1>9
  <2> QED BY <2>1, <1>7
<1>12. (g \o af) \o e = g \o (af \o e)
  <2>1. g \in Seq(P) /\ af \in Seq(P) /\ e \in Seq(P)
    BY <1>4, <1>5, <1>9
  <2> QED BY <2>1, <1>7
<1>13. p \o cd = (g \o (af \o e)) \o z
  BY <1>6, <1>10, <1>11, <1>12
<1>14. Painting("image mask") = ((g \o a) \o f) \o cd
  <2>1. Painting("image mask") =
          ((BlendGroup \o <<Open("clip")>>) \o Fill) \o <<Close("clip"), BlendEnd>>
    BY Zenon DEF Painting, BlendEnd
  <2> QED BY <1>1, <1>2, <2>1, Zenon
<1>15. Blended(MaskFill) = (g \o (af \o e)) \o z
  BY <1>1, <1>2, <1>8 DEF Blended, MaskFill
<1> QED BY <1>8, <1>13, <1>14, <1>15

\* pdf_show_path with paint, pdf_show_shade, pdf_flush_text, pdf_show_image
LEMMA PaintingBears ==
  ASSUME NEW token, Paints(token), NEW b, b = State.blend
  PROVE  /\ Leads(token, None, b, Painting(token), << >>, << >>)
         /\ SoftensIn(token, b, Painting(token)) /\ Painting(token) \in Seq(PaintWords)
<1>1. IsPaint(token)
  BY Zenon DEF IsPaint, Outer, Named, Paints
<1>2. token = "n" \/ token = "f" \/ token = "sh" \/ token = "Tj" \/ token = "image mask"
  BY Zenon DEF Paints
<1>3. Painting(token) \in Seq(PaintWords)
  BY PaintingIn, Zenon DEF Paints
<1>4. PICK o : o = << >>
  OBVIOUS
<1>5. o \in Seq(Kinds) /\ o \in Clips /\ o \in Seq(PlainWords) /\ Len(o) = 0
  <2>1. o \in Seq(PlainWords) /\ Len(o) = 0
    BY <1>4, LenZero
  <2>2. o \in Clips
    BY <1>4 DEF Clips
  <2>3. o \in Seq(Kinds)
    BY <1>4, KindSeqs
  <2> QED BY <2>1, <2>2, <2>3
<1>6. CASE token = "n"
  <2>1. Painting(token) = << >>
    BY <1>6 DEF Painting
  <2>2. Leads(token, None, b, << >>, o, o)
    BY <1>5, LeadsNone
  <2>3. SoftensIn(token, b, o)
    BY <1>5, PlainSeqs
  <2> QED BY <1>3, <1>4, <2>1, <2>2, <2>3
<1>7. CASE token = "f"
  <2>1. Painting(token) = Grouped(Fill)
    BY <1>7 DEF Painting
  <2>2. Fill \in Seq(PlainWords) /\ Balanced(token, b, Fill)
    BY <1>4, <1>5, FillLeads, FillBalanced
  <2> QED BY <1>1, <1>3, <2>1, <2>2, GroupedBears
<1>8. CASE token = "sh"
  <2>1. Painting(token) = Grouped(<<Do("draw")>>)
    BY <1>8, Zenon DEF Painting
  <2>2. PICK s : s = <<Do("draw")>>
    OBVIOUS
  <2>3. s \in Seq(PlainWords) /\ Balanced(token, b, s)
    BY <2>2, DrawBalanced
  <2> QED BY <1>1, <1>3, <2>1, <2>2, <2>3, GroupedBears
<1>9. CASE token = "Tj"
  <2>1. Painting(token) = Grouped(Append(Fill, TextClip))
    BY <1>9, Zenon DEF Painting, TextClip
  <2>2. PICK s : s = Fill \o <<TextClip>>
    OBVIOUS
  <2>3. s \in Seq(PlainWords) /\ Balanced(token, b, s)
    BY <2>2, TextBalanced
  <2>4. Append(Fill, TextClip) = s
    <3>1. PICK f, c : f = Fill /\ c = TextClip
      OBVIOUS
    <3>2. f \in Seq(PlainWords) /\ c \in PlainWords
      BY <1>5, <3>1, FillLeads, PlainWordsAre
    <3>3. Append(f, c) = f \o <<c>>
      BY <3>2
    <3> QED BY <2>2, <3>1, <3>3
  <2> QED BY <1>1, <1>3, <2>1, <2>3, <2>4, GroupedBears
<1>10. CASE token = "image mask"
  <2>1. Painting(token) = Blended(MaskFill)
    BY <1>10, ImageMaskIs, Zenon
  <2>2. PICK s : s = MaskFill
    OBVIOUS
  <2>3. s \in Seq(PlainWords) /\ Balanced(token, b, s)
    BY <2>2, MaskFillBalanced
  <2>4. Blended(s) \in Seq(PlainWords)
        /\ \A m \in Forms \cup {None} : \A u \in Clips : Leads(token, m, b, Blended(s), u, u)
    BY <1>1, <2>3, BlendedBalanced
  <2>5. Leads(token, None, b, Blended(s), o, o) /\ SoftensIn(token, b, Blended(s))
    BY <1>5, <2>4, PlainSeqs
  <2> QED BY <1>3, <1>4, <2>1, <2>2, <2>5
<1> QED BY <1>2, <1>6, <1>7, <1>8, <1>9, <1>10, Zenon

\* pdf_run_f and the other operators that paint
LEMMA PaintNests ==
  ASSUME LInv, SInv, NInv, Patient,
         NEW token, Paints(token), Run_Paint(token)
  PROVE  Nests(calls', gs', dev', lost')
<1>1. Next1("token") /\ gs' = gs /\ dev' = dev /\ lost' = lost
  BY DEF Run_Paint, Token, Reads
<1>2. /\ calls # << >> /\ Here.todo # << >> /\ Here.todo[1][1] = "token"
      /\ Shaped(Here)
  BY <1>1, NextGoes, HereIn
<1>3. PICK g : g = Here
  OBVIOUS
<1>4. calls = Goes(g) /\ Keeping(g)
  BY <1>2, <1>3, HereKeeping
<1>5. PICK p, t, o :
        /\ p = Painting(token) /\ o = << >>
        /\ t = (IF csi.clip /\ token \in {"n", "f"} THEN <<Do("clip")>> ELSE << >>) \o p
  OBVIOUS
<1>6. PICK h : h = Frame(token, t, o)
  OBVIOUS
<1>7. calls' = Append(Goes(g), h)
  BY <1>4, <1>5, <1>6 DEF Run_Paint, Paint
<1>8. h.fn = token /\ h.todo = t /\ h.base = Len(gs) /\ h.soft = None
  <2>1. h = FrameRec(token, t, o, Len(gs), None)
    BY <1>6, RecWith
  <2> QED BY <2>1, NewFields
<1>9. PICK b : b = State.blend
  OBVIOUS
<1>10. b = gs[Len(gs)].blend
  BY <1>9 DEF State
<1>11. Leads(token, None, b, p, o, o) /\ SoftensIn(token, b, p) /\ p \in Seq(PaintWords)
  BY <1>5, <1>9, <1>10, PaintingBears
<1>12. Leads(token, None, b, t, o, o) /\ SoftensIn(token, b, t)
  <2>1. PICK z : z = Do("clip")
    OBVIOUS
  <2>2. CASE csi.clip /\ token \in {"n", "f"}
    <3>1. t = <<z>> \o p
      BY <1>5, <2>1, <2>2
    <3>2. o \in Clips
      BY <1>5 DEF Clips
    <3>3. o \in Seq(Kinds)
      BY <1>5, KindSeqs
    <3>4. Turns(token, None, b, z, o, o) /\ z[1] = "clip"
      BY <2>1, <3>2, TurnsClip
    <3>5. z # Do("softmask")
      <4>1. Do("softmask")[1] = "softmask"
        BY StepNames
      <4> QED BY <3>4, <4>1
    <3>6. IsSeq(p)
      BY <1>11 DEF IsSeq
    <3>7. SoftensIn(token, b, t)
      BY <1>11, <3>1, <3>5, <3>6, SoftensCons
    <3>8. Leads(token, None, b, <<z>> \o p, o, o)
      BY <1>11, <3>3, <3>4, <3>6, LeadsThen
    <3> QED BY <3>1, <3>7, <3>8
  <2>3. CASE ~(csi.clip /\ token \in {"n", "f"})
    <3>1. t = << >> \o p
      BY <1>5, <2>3
    <3>2. t = p
      BY <1>11, <3>1, EmptyConcat
    <3> QED BY <1>11, <3>2
  <2> QED BY <2>2, <2>3
<1>13. IsPaint(token) /\ token \notin {"form", "mask", "stream", "pattern"}
  BY Zenon DEF IsPaint, Outer, Named, Paints
<1>14. Bears(h, gs[h.base].blend, << >>)
  BY <1>5, <1>8, <1>10, <1>12, <1>13, BearsPlain
<1>15. Above(g, h)
  <2>1. Here.fn = "stream"
    BY <1>2, StepIn
  <2> QED BY <1>3, <1>8, <1>13, <2>1 DEF Above
<1>16. Called(gs, g, h)
  BY <1>8, <1>13, <1>14, <1>15 DEF Called, Raised
<1> QED BY <1>1, <1>2, <1>4, <1>7, <1>16, CallNests, NInvIs

-----------------------------------------------------------------------------
(* Every state                                                             *)

\* Each step leaves the brackets of the calls laid on the device one after another.
LEMMA NestsStep ==
  ASSUME LInv, LInv', SInv, NInv, Patient, [Next]_vars
  PROVE  Nests(calls', gs', dev', lost')
<1>1. ASSUME UNCHANGED vars
      PROVE  Nests(calls', gs', dev', lost')
  <2>1. calls' = calls /\ gs' = gs /\ dev' = dev /\ lost' = lost
    BY <1>1 DEF vars
  <2> QED BY <2>1, NInvIs
<1>2. ASSUME Return \/ Always \/ OpenBracket \/ CloseBracket \/ EndMask \/ Draw
      PROVE  Nests(calls', gs', dev', lost')
  BY <1>2, ReturnNests, AlwaysNests, OpenNests, CloseNests, EndMaskNests, DrawNests, Zenon
<1>3. ASSUME GsaveStep \/ GrestoreStep \/ GrestoreDown \/ ClipStep \/ ClipText \/ Reset \/ LeaveForm
      PROVE  Nests(calls', gs', dev', lost')
  BY <1>3, SaveNests, DropNests, ClipNests, ClipTextNests, ResetNests, Zenon
<1>4. ASSUME BeginSoftmask \/ EndSoftmask \/ EndBlend \/ ShowPattern \/ ShowCell \/ RunMask
      PROVE  Nests(calls', gs', dev', lost')
  BY <1>4, BeginSoftmaskNests, EndSoftmaskNests, EndBlendNests, PatternNests, CellNests,
     FormsNest, Zenon
<1>5. ASSUME \/ RunContents \/ Leave \/ EndOfStream
             \/ RunPage \/ RunAnnot \/ Appearance \/ NewInterpreter \/ FreeInterpreter
      PROVE  Nests(calls', gs', dev', lost')
  BY <1>5, ContentsNests, QuietNests, PagesNests, FormsNest, NewNests, FreeNests, Zenon
<1>6. ASSUME Operator
      PROVE  Nests(calls', gs', dev', lost')
  <2>1. CASE Run_q \/ Run_Q \/ Run_W \/ Run_ET
    BY <2>1, SaveNests, DropNests, CsiNests, Zenon
  <2>2. CASE SetBlend \/ Later
    BY <2>2, FieldNests, LaterNests, Zenon
  <2>3. CASE \E m \in Forms \cup {None} : SetSoftmask(m)
    BY <2>3, FieldNests, Zenon
  <2>4. CASE \E kind \in {"colour", "shade", "pattern"} : SetFill(kind)
    BY <2>4, FillNests, Zenon
  <2>5. CASE \E token \in {"n", "f", "sh", "Tj", "image mask"} : Run_Paint(token)
    BY <2>5, PaintNests, Zenon DEF Paints
  <2>6. CASE \E x \in Forms : Run_Do(x)
    BY <2>6, FormsNest, Zenon
  <2> QED BY <1>6, <2>1, <2>2, <2>3, <2>4, <2>5, <2>6, Zenon DEF Operator
<1> QED BY <1>1, <1>2, <1>3, <1>4, <1>5, <1>6, Zenon DEF Next, Step

\* So they are when the program begins, with nothing open.
LEMMA NestsInit == Init => NInv
<1> SUFFICES ASSUME Init
             PROVE  NInv
  OBVIOUS
<1>1. PICK h : h = Frame("page", <<Do("page")>> \o [i \in 1..Annots |-> Do("annot")], << >>)
  OBVIOUS
<1>2. /\ calls = <<h>> /\ gs = << >> /\ dev = [open |-> << >>, err |-> 0, wrong |-> FALSE]
  BY <1>1 DEF Init
<1>3. PICK t : t = <<Do("page")>> \o [i \in 1..Annots |-> Do("annot")]
  OBVIOUS
<1>4. h.fn = "page" /\ h.todo = t /\ h.base = 0 /\ h.onErr = << >>
  <2>1. h = FrameRec("page", t, << >>, Len(gs), None)
    BY <1>1, <1>3, RecWith
  <2>2. Len(gs) = 0
    BY <1>2
  <2> QED BY <2>1, <2>2, NewFields
<1>5. t \in Seq({Do("page"), Do("annot")})
  <2>1. <<Do("page")>> \in Seq({Do("page"), Do("annot")})
    BY SMT
  <2>2. [i \in 1..Annots |-> Do("annot")] \in Seq({Do("page"), Do("annot")})
    BY RunsAssumption, SMT
  <2> QED BY <1>3, <2>1, <2>2, ConcatIn
<1>6. ASSUME NEW z \in {Do("page"), Do("annot")}
      PROVE  Quiet("page", z) /\ z # Do("softmask")
  <2>1. z[1] \in {"page", "annot"}
    BY StepNames
  <2>2. z[1] \notin {"open", "close", "unmask", "softmask", "clip"}
    BY <2>1
  <2>3. z[1] \notin {"end blend", "end mask", "clip text"}
    BY <2>1, Zenon
  <2>4. Do("softmask")[1] = "softmask"
    BY StepNames
  <2>5. Quiet("page", z)
    BY <2>2, <2>3, Zenon DEF Quiet
  <2> QED BY <2>2, <2>4, <2>5
<1>7. ASSUME NEW b
      PROVE  Bears(h, b, << >>)
  <2>1. IsSeq(t) /\ \A j \in 1..Len(t) : t[j] \in {Do("page"), Do("annot")}
    BY <1>5 DEF IsSeq
  <2>2. \A j \in 1..Len(t) : Quiet("page", t[j]) /\ t[j] # Do("softmask")
    BY <1>6, <2>1
  <2> QED BY <1>4, <2>1, <2>2, BearsQuiet
<1>8. Grows(calls, gs)
  <2>1. Len(calls) = 1 /\ calls[1] = h /\ Len(gs) = 0
    BY <1>2
  <2>2. ~Raised(h)
    BY <1>4 DEF Raised
  <2> QED BY <1>4, <2>1, <2>2 DEF Grows, Rising
<1>9. Fits(calls, gs, dev)
  <2>1. PICK o : o = << >>
    OBVIOUS
  <2>2. PICK own, X, D : own = [i \in 1..1 |-> o] /\ X = [i \in 1..2 |-> 0] /\ D = ClipsAt(calls, gs)
    OBVIOUS
  <2>3. Len(calls) = 1 /\ calls[1] = h /\ Len(gs) = 0 /\ IsSeq(calls)
    <3>1. calls \in Seq({h})
      BY <1>2
    <3> QED BY <1>2, <3>1 DEF IsSeq
  <2>4. D[1] = 0 /\ D[2] = 0
    BY <1>4, <2>2, <2>3, ClipsAtIs DEF ClipsOf
  <2>5. own[1] = o /\ X[1] = 0 /\ X[2] = 0 /\ o \in Seq(Kinds) /\ Len(o) = 0
    BY <2>1, <2>2, LenZero
  <2>6. IsDev(dev) /\ Len(dev.open) = 0 /\ dev.err = 0
    <3>1. dev.open = << >> /\ dev.err = 0 /\ dev.wrong = FALSE
      BY <1>2
    <3>2. << >> \in Seq(Kinds)
      BY KindSeqs
    <3> QED BY <1>2, <3>1, <3>2 DEF IsDev
  <2>7. Laid(1, D, own, X, dev)
    <3>1. \A i \in 1..2 : X[i] \in Nat /\ D[i] \in Nat
      BY <2>4, <2>5
    <3>2. /\ own[1] \in Seq(Kinds) /\ D[1] <= D[2]
          /\ X[2] = X[1] + Len(own[1]) + (D[2] - D[1])
      BY <2>4, <2>5
    <3>3. Shows(dev, X[1], X[2], own[1])
      <4>1. \A p \in X[1] + 1..X[2] : FALSE
        BY <2>5
      <4> QED BY <4>1 DEF Shows
    <3>4. \A i \in 1..1 : i = 1
      OBVIOUS
    <3>5. 1 + 1 = 2 /\ Len(dev.open) + dev.err = X[2] /\ X[1] = D[1]
      BY <2>4, <2>5, <2>6
    <3> QED BY <2>6, <3>1, <3>2, <3>3, <3>4, <3>5 DEF Laid
  <2>8. Bears(h, gs[h.base].blend, own[1] \o Rest(calls, 1))
    <3>1. Rest(calls, 1) = << >>
      BY <2>3 DEF Rest
    <3>2. o \o << >> = << >>
      BY <2>1, KindSeqs
    <3> QED BY <1>7, <2>5, <3>1, <3>2
  <2>9. FitsWith(calls, gs, dev, own, X)
    BY <2>2, <2>3, <2>7, <2>8 DEF FitsWith
  <2> QED BY <2>9 DEF Fits
<1> QED BY <1>8, <1>9 DEF NInv, Nests

\* what Nested says, of what the calls fit
LEMMA NestsNested ==
  ASSUME LInv, NInv, Patient
  PROVE  Nested
<1> SUFFICES ASSUME ~lost
             PROVE  /\ Len(dev.open) + dev.err
                         = (IF gs = << >> THEN 0 ELSE State.clips) + Owes(calls)
                    /\ ~dev.wrong
  BY DEF Nested
<1>1. PICK own, X : FitsWith(calls, gs, dev, own, X)
  BY NInvIs DEF Nests, Fits
<1>2. PICK n, D : n = Len(calls) /\ D = ClipsAt(calls, gs)
  OBVIOUS
<1>3. IsSeq(calls) /\ n \in Nat /\ IsSeq(gs) /\ Len(gs) \in Nat
  BY <1>2, Seqs, SeqLen
<1>4. Laid(n, D, own, X, dev)
  BY <1>1, <1>2 DEF FitsWith
<1>5. Len(dev.open) + dev.err = X[n + 1] /\ dev.wrong = FALSE
  BY <1>4 DEF Laid, IsDev
<1>6. n + 1 \in 1..n + 1 /\ X[n + 1] \in Nat /\ D[n + 1] \in Nat /\ X[1] = D[1]
  <2>1. n + 1 \in 1..n + 1
    BY <1>3
  <2> QED BY <1>4, <2>1 DEF Laid
<1>7. D[n + 1] = (IF gs = << >> THEN 0 ELSE State.clips)
  <2>1. D[n + 1] = ClipsOf(gs, Len(gs))
    BY <1>2, <1>3, ClipsAtIs
  <2>2. gs = << >> <=> Len(gs) = 0
    BY <1>3, SeqLen
  <2> QED BY <2>1, <2>2 DEF ClipsOf, State
<1>8. Owes(calls) = X[n + 1] - D[n + 1]
  <2>1. CASE n = 0
    <3>1. Owes(calls) = 0
      BY <1>2, <2>1, TotalNone
    <3> QED BY <1>6, <2>1, <3>1
  <2>2. CASE n # 0
    <3>1. n >= 1 /\ calls # << >>
      BY <1>2, <1>3, <2>2, SeqLen
    <3>2. \A i \in 1..n : IsSeq(calls[i].todo)
      BY <1>2, Seqs, ShapedSeqs
    <3>3. calls[1].fn # "mask"
      BY <3>1, NInvIs DEF Grows
    <3> QED BY <1>1, <1>2, <1>3, <3>1, <3>2, <3>3, OwesIs
  <2> QED BY <2>1, <2>2
<1> QED BY <1>5, <1>6, <1>7, <1>8

\* The levels, the masks and the brackets, of every state that is reached.
LEMMA NestsKept ==
  ASSUME Patient
  PROVE  Spec => [](LInv /\ SInv /\ NInv)
<1>1. LInv /\ Parents /\ SInv /\ NInv /\ [Next]_vars => (LInv /\ Parents /\ SInv /\ NInv)'
  <2> SUFFICES ASSUME LInv, Parents, SInv, NInv, [Next]_vars
               PROVE  (LInv /\ Parents /\ SInv /\ NInv)'
    OBVIOUS
  <2>1. LInv' /\ Parents' /\ SInv'
    BY LevelsStep, ParentsStep, SoftStep
  <2>2. NInv'
    BY <2>1, NestsStep DEF NInv
  <2> QED BY <2>1, <2>2
<1> QED BY <1>1, LevelsInit, SoftInit, NestsInit, PTL DEF Spec

\* The brackets on the device are the clips of the current state and what the
\* calls under way have still to close, and each is closed as what it is, if
\* nothing that is missing passes a stream: whatever fails to open, wherever
\* content ends, and however deep forms, masks and patterns go.
THEOREM NestedHolds ==
  ASSUME Patient
  PROVE  Spec => []Nested
<1>1. LInv /\ SInv /\ NInv => Nested
  BY NestsNested
<1> QED BY <1>1, NestsKept, PTL

=============================================================================
