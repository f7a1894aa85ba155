---------------------------- MODULE InterpretProofs ----------------------------
(* Proofs about Interpret: what a stream may not do to the states of its    *)
(* caller, the marks of forms, what a call leaves of the states, and the    *)
(* references to soft masks.  At the end is what InterpretNesting needs to  *)
(* know of sums, of the steps that open and close, and of brackets that lie *)
(* on the device one after another.                                         *)
EXTENDS Interpret, TLAPS, SequenceTheorems, FiniteSetTheorems, WellFoundedInduction

-----------------------------------------------------------------------------
(* Sequences                                                               *)

IsSeq(s) == \E S : s \in Seq(S)

LEMMA SeqLen ==
  ASSUME NEW s, IsSeq(s)
  PROVE  Len(s) \in Nat /\ DOMAIN s = 1..Len(s) /\ (s = << >> <=> Len(s) = 0)
<1>1. PICK S : s \in Seq(S)
  BY DEF IsSeq
<1> QED BY <1>1, SMT

LEMMA AppendSeq ==
  ASSUME NEW s, IsSeq(s), NEW x
  PROVE  /\ IsSeq(Append(s, x)) /\ Len(Append(s, x)) = Len(s) + 1
         /\ Append(s, x)[Len(s) + 1] = x
         /\ \A i \in 1..Len(s) : Append(s, x)[i] = s[i]
<1>1. PICK S : s \in Seq(S)
  BY DEF IsSeq
<1>2. s \in Seq(S \cup {x}) /\ x \in S \cup {x}
  BY <1>1, SMT
<1>3. Append(s, x) \in Seq(S \cup {x})
  BY <1>2, SMT
<1> QED BY <1>2, <1>3, SMT DEF IsSeq

\* replacing an element, or nothing if there is no such element
Replaced(s, n, x) == [s EXCEPT ![n] = x]
LEMMA ReplacedSeq ==
  ASSUME NEW s, IsSeq(s), NEW n, NEW x
  PROVE  /\ IsSeq(Replaced(s, n, x)) /\ Len(Replaced(s, n, x)) = Len(s)
         /\ n \in 1..Len(s) => Replaced(s, n, x)[n] = x
         /\ \A i \in 1..Len(s) : i # n => Replaced(s, n, x)[i] = s[i]
<1>1. PICK S : s \in Seq(S)
  BY DEF IsSeq
<1>2. s \in Seq(S \cup {x}) /\ x \in S \cup {x}
  BY <1>1, SMT
<1>3. Replaced(s, n, x) \in Seq(S \cup {x}) /\ Len(Replaced(s, n, x)) = Len(s)
  <2>1. CASE n \in 1..Len(s)
    BY <1>2, <2>1, SMT DEF Replaced
  <2>2. CASE n \notin 1..Len(s)
    <3>1. s = [i \in DOMAIN s |-> s[i]] /\ DOMAIN s = 1..Len(s)
      BY <1>2, SMT
    <3>2. Replaced(s, n, x) = s
      BY <2>2, <3>1, Zenon DEF Replaced
    <3> QED BY <1>2, <3>2
  <2> QED BY <2>1, <2>2
<1>4. IsSeq(Replaced(s, n, x))
  BY <1>3 DEF IsSeq
<1>5. n \in 1..Len(s) => Replaced(s, n, x)[n] = x
  BY <1>2, SMT DEF Replaced
<1>6. \A i \in 1..Len(s) : i # n => Replaced(s, n, x)[i] = s[i]
  BY <1>2, SMT DEF Replaced
<1>7. QED
  BY <1>3, <1>4, <1>5, <1>6

LEMMA PrefixSeq ==
  ASSUME NEW s, IsSeq(s), NEW n \in 0..Len(s)
  PROVE  /\ IsSeq(SubSeq(s, 1, n)) /\ Len(SubSeq(s, 1, n)) = n
         /\ \A i \in 1..n : SubSeq(s, 1, n)[i] = s[i]
<1>1. PICK S : s \in Seq(S)
  BY DEF IsSeq
<1>2. n \in Nat /\ n <= Len(s)
  BY SeqLen, SMT
<1>3. SubSeq(s, 1, n) \in Seq(S) /\ Len(SubSeq(s, 1, n)) = n
  BY <1>1, <1>2, SMT
<1>4. \A i \in 1..n : SubSeq(s, 1, n)[i] = s[i]
  BY <1>1, <1>2, SMT
<1> QED BY <1>3, <1>4 DEF IsSeq

LEMMA FrontSeq ==
  ASSUME NEW s, IsSeq(s), s # << >>
  PROVE  /\ IsSeq(Front(s)) /\ Len(Front(s)) = Len(s) - 1
         /\ \A i \in 1..Len(s) - 1 : Front(s)[i] = s[i]
<1>1. Len(s) \in Nat /\ Len(s) # 0
  BY SeqLen
<1>2. Front(s) = SubSeq(s, 1, Len(s) - 1)
  BY DEF Front
<1>3. Len(s) - 1 \in 0..Len(s)
  BY <1>1, SMT
<1> QED BY <1>2, <1>3, PrefixSeq

\* what is above a place does not matter below it
LEMMA SamePrefix ==
  ASSUME NEW s, IsSeq(s), NEW t, IsSeq(t), NEW n \in Nat, n <= Len(s), n <= Len(t),
         \A i \in 1..n : s[i] = t[i]
  PROVE  SubSeq(s, 1, n) = SubSeq(t, 1, n)
<1>0. Len(s) \in Nat /\ Len(t) \in Nat
  BY SeqLen
<1>1. /\ IsSeq(SubSeq(s, 1, n)) /\ Len(SubSeq(s, 1, n)) = n
      /\ \A i \in 1..n : SubSeq(s, 1, n)[i] = s[i]
  BY <1>0, PrefixSeq, SMT
<1>2. /\ IsSeq(SubSeq(t, 1, n)) /\ Len(SubSeq(t, 1, n)) = n
      /\ \A i \in 1..n : SubSeq(t, 1, n)[i] = t[i]
  BY <1>0, PrefixSeq, SMT
<1>3. PICK S : SubSeq(s, 1, n) \in Seq(S)
  BY <1>1 DEF IsSeq
<1>4. PICK T : SubSeq(t, 1, n) \in Seq(T)
  BY <1>2 DEF IsSeq
<1>5. SubSeq(s, 1, n) \in Seq(S \cup T) /\ SubSeq(t, 1, n) \in Seq(S \cup T)
  BY <1>3, <1>4, SMT
<1> QED BY <1>1, <1>2, <1>5, SeqEqual, SMT

LEMMA ConcatIn ==
  ASSUME NEW S, NEW s \in Seq(S), NEW t \in Seq(S)
  PROVE  s \o t \in Seq(S)
OBVIOUS

LEMMA AppendIn ==
  ASSUME NEW S, NEW s \in Seq(S), NEW e \in S
  PROVE  Append(s, e) \in Seq(S)
OBVIOUS

LEMMA LenZero ==
  ASSUME NEW S
  PROVE  << >> \in Seq(S)
OBVIOUS

\* what is in front of s goes first
LEMMA FirstOf ==
  ASSUME NEW S, NEW s \in Seq(S), NEW t \in Seq(S), s # << >>
  PROVE  /\ s \o t \in Seq(S) /\ s \o t # << >>
         /\ (s \o t)[1] = s[1] /\ Tail(s \o t) = Tail(s) \o t
<1>1. s \o t \in Seq(S) /\ s \o t # << >> /\ (s \o t)[1] = s[1]
  BY SMT
<1>2. Tail(s \o t) = Tail(s) \o t
  BY SMT
<1> QED BY <1>1, <1>2

LEMMA EmptyConcat ==
  ASSUME NEW S, NEW s \in Seq(S)
  PROVE  << >> \o s = s /\ << >> \in Seq(S)
BY SMT

\* the greatest of finitely many places
LEMMA MaxIs ==
  ASSUME NEW n \in Nat, NEW T \in SUBSET (1..n), T # {}
  PROVE  Max(T) \in T /\ \A y \in T : y <= Max(T)
<1> DEFINE U == {n - y : y \in T}
<1>1. U \in SUBSET Nat /\ U # {}
  <2>1. \A y \in T : n - y \in Nat
    OBVIOUS
  <2> QED BY <2>1
<1>2. PICK m \in U : \A y \in U : ~ (<<y, m>> \in OpToRel(<, Nat))
  BY <1>1, NatLessThanWellFounded, WFMin
<1>3. \A y \in U : ~ (y < m)
  BY <1>1, <1>2, Zenon DEF OpToRel
<1>4. PICK x \in T : m = n - x
  BY <1>2
<1>5. \A y \in T : ~ (n - y < n - x)
  BY <1>3, <1>4
<1>6. \A y \in T : y <= x
  BY <1>5, SMT
<1> QED BY <1>4, <1>6 DEF Max

-----------------------------------------------------------------------------
(* Steps and frames                                                        *)

Outer == {"page", "annot"}
OuterSteps ==
  {Do("page"), Do("annot"), Do("new"), Do("appearance"), Do("free"), Do("contents"),
   Do("always"), Do("down"), Open("group"), Close("group")}
StreamWords == {Do("token"), Do("down"), Do("leave")}
FormWords ==
  {Do("softmask"), Open("group"), Do("reset"), Do("clip"), Do("contents"),
   Do("always"), Do("down"), Do("leave form"), Close("group"), Do("unmask")}
\* of what paints, of patterns and soft masks
InnerSteps ==
  {Do("always"), Do("gsave"), Do("contents"), Do("grestore"), Do("down"),
   Do("draw"), Do("pattern"), Do("cell"), Do("softmask"), Do("unmask"),
   Do("form"), Do("end mask"), Do("end blend"), Do("clip"), Do("clip text"),
   Open("clip"), Open("group"), Open("tile"), Open("mask"),
   Close("clip"), Close("group"), Close("tile")}
StepsOf(fn) ==
  IF fn \in Outer THEN OuterSteps
  ELSE IF fn = "stream" THEN StreamWords
  ELSE IF fn = "form" THEN FormWords
  ELSE InnerSteps

\* what a form has to do before fz_always, and after its mark is gone
FormPrefixes ==
  {<< >>, <<Do("contents")>>, <<Do("clip"), Do("contents")>>,
   <<Do("reset")>> \o <<Do("clip"), Do("contents")>>,
   <<Open("group"), Do("reset")>> \o <<Do("clip"), Do("contents")>>,
   <<Do("softmask"), Open("group"), Do("reset")>> \o <<Do("clip"), Do("contents")>>}
Unmasks(x) == IF x \in Groups THEN <<Close("group"), Do("unmask")>> ELSE << >>
Before(x) == {p \o FormEnd(x) : p \in FormPrefixes}
Leaving(x) == {<<Do("down"), Do("leave form")>> \o Unmasks(x),
               <<Do("leave form")>> \o Unmasks(x)}
Unmarked == {<<Close("group"), Do("unmask")>>, <<Do("unmask")>>, << >>}

IsFrame(f) ==
  /\ f = [fn |-> f.fn, todo |-> f.todo, onErr |-> f.onErr, pend |-> f.pend,
          base |-> f.base, keep |-> f.keep, gbot |-> f.gbot,
          gparent |-> f.gparent, soft |-> f.soft, form |-> f.form]
  /\ f.todo \in Seq(StepsOf(f.fn)) /\ f.onErr \in Seq(StepsOf(f.fn))
  /\ f.base \in Nat /\ f.gbot \in Nat
IsStream(f) ==
  /\ f.todo \in {StreamSteps, <<Do("down"), Do("leave")>>, <<Do("leave")>>, << >>}
  /\ f.onErr = StreamSteps /\ f.pend = "none"
\* in fz_try, where an exception is caught, or past it
IsForm(f) ==
  \/ f.todo \in Before(f.form) /\ f.onErr = FormEnd(f.form)
  \/ f.todo = FormEnd(f.form) /\ f.onErr = << >>
  \/ f.todo \in Leaving(f.form) \cup Unmarked /\ f.onErr = << >>
Shaped(f) ==
  /\ IsFrame(f)
  /\ f.fn = "stream" => IsStream(f)
  /\ f.fn = "form" => IsForm(f)

\* has a call that is not the innermost one a stream, or its mark, to take back?
Waits(f) ==
  /\ f.fn = "stream" => f.todo # << >>
  /\ f.fn = "form" => f.todo \in Before(f.form) /\ f.onErr = FormEnd(f.form)
Active(f) == f.fn = "stream" /\ f.todo # << >>
Marks(f) == f.fn = "form" /\ f.todo \notin Unmarked

\* the C stack fs, over n states, with a gbot, and what is marked
Stacked(fs, n, gbot, mk) ==
  /\ IsSeq(fs)
  /\ \A i \in 1..Len(fs) : Shaped(fs[i])
  /\ \A i \in 1..Len(fs) - 1 : Waits(fs[i])
  /\ \A i, j \in 1..Len(fs) : i < j /\ fs[j].fn \in Outer => fs[i].fn \in Outer
  /\ \A i \in 1..Len(fs) : Active(fs[i]) => fs[i].base <= n /\ fs[i].base <= gbot
  /\ \A i, j \in 1..Len(fs) :
       i < j /\ Active(fs[i]) /\ Active(fs[j]) => fs[i].base <= fs[j].gbot
  /\ \A i, j \in 1..Len(fs) :
       fs[i].fn = "form" /\ fs[j].fn = "form" /\ i # j => fs[i].form # fs[j].form
  /\ mk = {fs[i].form : i \in {k \in 1..Len(fs) : Marks(fs[k])}}

IsCsi == /\ csi = [gbot |-> csi.gbot, gparent |-> csi.gparent, clip |-> csi.clip,
                   accumulate |-> csi.accumulate]
         /\ csi.gbot \in Nat

IInv == IsSeq(gs) /\ IsCsi /\ Stacked(calls, Len(gs), csi.gbot, marked)

-----------------------------------------------------------------------------
(* What a form does, in order                                              *)

LEMMA Tuples ==
  ASSUME NEW a, NEW b, NEW c
  PROVE  /\ <<a>> # << >> /\ <<a>>[1] = a /\ Tail(<<a>>) = << >>
         /\ <<a, b>> # << >> /\ <<a, b>>[1] = a /\ Tail(<<a, b>>) = <<b>>
         /\ <<a, b, c>> # << >> /\ <<a, b, c>>[1] = a /\ Tail(<<a, b, c>>) = <<b, c>>
<1>1. <<a>> # << >> /\ <<a>>[1] = a /\ Tail(<<a>>) = << >>
  BY SMT
<1>2. <<a, b>> # << >> /\ <<a, b>>[1] = a /\ Tail(<<a, b>>) = <<b>>
  BY SMT
<1>3. <<a, b, c>> # << >> /\ <<a, b, c>>[1] = a
  BY SMT
<1>4. Tail(<<a, b, c>>) = <<b, c>>
  BY SMT
<1> QED BY <1>1, <1>2, <1>3, <1>4

LEMMA FewIn ==
  ASSUME NEW a \in FormWords, NEW b \in FormWords, NEW c \in FormWords
  PROVE  <<a>> \in Seq(FormWords) /\ <<a, b>> \in Seq(FormWords) /\ <<a, b, c>> \in Seq(FormWords)
BY SMT

\* what is in front of t goes first
LEMMA FirstOne ==
  ASSUME NEW t \in Seq(FormWords), NEW a \in FormWords
  PROVE  <<a>> \o t # << >> /\ (<<a>> \o t)[1] = a /\ Tail(<<a>> \o t) = t
<1>1. <<a>> \o t # << >> /\ (<<a>> \o t)[1] = a /\ Tail(<<a>> \o t) = << >> \o t
  BY FewIn, Tuples, FirstOf
<1> QED BY <1>1, EmptyConcat

LEMMA FirstOfTwo ==
  ASSUME NEW t \in Seq(FormWords), NEW a \in FormWords, NEW b \in FormWords
  PROVE  <<a, b>> \o t # << >> /\ (<<a, b>> \o t)[1] = a /\ Tail(<<a, b>> \o t) = <<b>> \o t
BY FewIn, Tuples, FirstOf

LEMMA FormWordsAre ==
  /\ Do("softmask") \in FormWords /\ Open("group") \in FormWords /\ Do("reset") \in FormWords
  /\ Do("clip") \in FormWords /\ Do("contents") \in FormWords /\ Do("always") \in FormWords
  /\ Do("down") \in FormWords /\ Do("leave form") \in FormWords
  /\ Close("group") \in FormWords /\ Do("unmask") \in FormWords
BY DEF FormWords

LEMMA FormTypes ==
  ASSUME NEW x
  PROVE  /\ Unmasks(x) \in Seq(FormWords) /\ Unmasks(x) \in Unmarked
         /\ FormEnd(x) \in Seq(FormWords)
         /\ FormEnd(x) = <<Do("always"), Do("down"), Do("leave form")>> \o Unmasks(x)
         /\ \A s \in Unmarked : s \in Seq(FormWords)
         /\ \A p \in FormPrefixes : p \in Seq(FormWords)
<1>0. << >> \in Seq(FormWords)
  OBVIOUS
<1>1. \A s \in Unmarked : s \in Seq(FormWords)
  <2>1. <<Close("group"), Do("unmask")>> \in Seq(FormWords)
    BY FormWordsAre, FewIn
  <2>2. <<Do("unmask")>> \in Seq(FormWords)
    BY FormWordsAre, FewIn
  <2> QED BY <1>0, <2>1, <2>2 DEF Unmarked
<1>2. Unmasks(x) \in Unmarked
  BY DEF Unmasks, Unmarked
<1>3. FormEnd(x) = <<Do("always"), Do("down"), Do("leave form")>> \o Unmasks(x)
  BY DEF FormEnd, Unmasks
<1>4. <<Do("always"), Do("down"), Do("leave form")>> \in Seq(FormWords)
  BY FormWordsAre, FewIn
<1>5. \A p \in FormPrefixes : p \in Seq(FormWords)
  <2>1. /\ <<Do("contents")>> \in Seq(FormWords)
        /\ <<Do("clip"), Do("contents")>> \in Seq(FormWords)
        /\ <<Do("reset")>> \in Seq(FormWords)
        /\ <<Open("group"), Do("reset")>> \in Seq(FormWords)
        /\ <<Do("softmask"), Open("group"), Do("reset")>> \in Seq(FormWords)
    BY FormWordsAre, FewIn
  <2> QED BY <1>0, <2>1, ConcatIn DEF FormPrefixes
<1> QED BY <1>1, <1>2, <1>3, <1>4, <1>5, ConcatIn

LEMMA StepNames ==
  ASSUME NEW w
  PROVE  Do(w)[1] = w /\ Open(w)[1] = "open" /\ Close(w)[1] = "close"
BY SMT DEF Do, Open, Close

\* up to fz_always
LEMMA PrefixTail ==
  ASSUME NEW p \in FormPrefixes, p # << >>
  PROVE  /\ Tail(p) \in FormPrefixes
         /\ p[1][1] \in {"softmask", "open", "reset", "clip", "contents"}
<1> DEFINE B == <<Do("clip"), Do("contents")>>
<1>1. B \in Seq(FormWords) /\ Tail(B) = <<Do("contents")>> /\ B[1] = Do("clip")
  BY FormWordsAre, FewIn, Tuples
<1>2. CASE p = <<Do("contents")>>
  BY <1>2, Tuples, StepNames DEF FormPrefixes
<1>3. CASE p = B
  BY <1>1, <1>3, StepNames DEF FormPrefixes
<1>4. CASE p = <<Do("reset")>> \o B
  <2>1. Tail(p) = B /\ p[1] = Do("reset")
    BY <1>1, <1>4, FormWordsAre, FirstOne
  <2> QED BY <2>1, StepNames DEF FormPrefixes
<1>5. CASE p = <<Open("group"), Do("reset")>> \o B
  <2>1. Tail(p) = <<Do("reset")>> \o B /\ p[1] = Open("group")
    BY <1>1, <1>5, FormWordsAre, FirstOfTwo
  <2> QED BY <2>1, StepNames DEF FormPrefixes
<1>6. CASE p = <<Do("softmask"), Open("group"), Do("reset")>> \o B
  <2>1. Tail(p) = <<Open("group"), Do("reset")>> \o B /\ p[1] = Do("softmask")
    <3>1. <<Do("softmask"), Open("group"), Do("reset")>> \in Seq(FormWords)
      BY FormWordsAre, FewIn
    <3>2. LET t == <<Do("softmask"), Open("group"), Do("reset")>>
          IN  t # << >> /\ t[1] = Do("softmask") /\ Tail(t) = <<Open("group"), Do("reset")>>
      BY Tuples
    <3> QED BY <1>1, <1>6, <3>1, <3>2, FirstOf
  <2> QED BY <2>1, StepNames DEF FormPrefixes
<1> QED BY <1>2, <1>3, <1>4, <1>5, <1>6 DEF FormPrefixes

LEMMA FormEndIs ==
  ASSUME NEW x
  PROVE  /\ FormEnd(x) # << >> /\ FormEnd(x)[1] = Do("always")
         /\ Tail(FormEnd(x)) \in Leaving(x)
         /\ FormEnd(x) \in Before(x)
<1>1. /\ FormEnd(x) # << >> /\ FormEnd(x)[1] = Do("always")
      /\ Tail(FormEnd(x)) = <<Do("down"), Do("leave form")>> \o Unmasks(x)
  <2>1. <<Do("always"), Do("down"), Do("leave form")>> \in Seq(FormWords)
    BY FormWordsAre, FewIn
  <2>2. PICK a, b, c : a = Do("always") /\ b = Do("down") /\ c = Do("leave form")
    OBVIOUS
  <2>3. <<a, b, c>> # << >> /\ <<a, b, c>>[1] = a /\ Tail(<<a, b, c>>) = <<b, c>>
    BY Tuples
  <2>4. <<a, b, c>> \in Seq(FormWords) /\ FormEnd(x) = <<a, b, c>> \o Unmasks(x)
    BY <2>1, <2>2, FormTypes
  <2>5. FormEnd(x) # << >> /\ FormEnd(x)[1] = a /\ Tail(FormEnd(x)) = <<b, c>> \o Unmasks(x)
    <3>1. Unmasks(x) \in Seq(FormWords)
      BY FormTypes
    <3> QED BY <2>3, <2>4, <3>1, FirstOf
  <2> QED BY <2>2, <2>5
<1>2. FormEnd(x) = << >> \o FormEnd(x) /\ << >> \in FormPrefixes
  BY FormTypes, EmptyConcat DEF FormPrefixes
<1> QED BY <1>1, <1>2 DEF Leaving, Before

LEMMA BeforeTail ==
  ASSUME NEW x, NEW s \in Before(x), s # FormEnd(x)
  PROVE  /\ s # << >> /\ Tail(s) \in Before(x)
         /\ s[1][1] \in {"softmask", "open", "reset", "clip", "contents"}
<1>1. PICK p \in FormPrefixes : s = p \o FormEnd(x)
  BY DEF Before
<1>2. p # << >> /\ p \in Seq(FormWords) /\ FormEnd(x) \in Seq(FormWords)
  BY <1>1, FormTypes, EmptyConcat
<1>3. s # << >> /\ s[1] = p[1] /\ Tail(s) = Tail(p) \o FormEnd(x)
  BY <1>1, <1>2, FirstOf
<1> QED BY <1>2, <1>3, PrefixTail DEF Before

LEMMA LeavingTail ==
  ASSUME NEW x, NEW s \in Leaving(x)
  PROVE  /\ s # << >>
         /\ \/ s[1][1] = "down" /\ Tail(s) \in Leaving(x)
            \/ s[1][1] = "leave form" /\ Tail(s) \in Unmarked
<1>1. Unmasks(x) \in Seq(FormWords) /\ Unmasks(x) \in Unmarked
  BY FormTypes
<1>2. CASE s = <<Do("down"), Do("leave form")>> \o Unmasks(x)
  <2>1. s # << >> /\ s[1] = Do("down") /\ Tail(s) = <<Do("leave form")>> \o Unmasks(x)
    BY <1>1, <1>2, FormWordsAre, FirstOfTwo
  <2> QED BY <2>1, StepNames DEF Leaving
<1>3. CASE s = <<Do("leave form")>> \o Unmasks(x)
  <2>1. s # << >> /\ s[1] = Do("leave form") /\ Tail(s) = Unmasks(x)
    BY <1>1, <1>3, FormWordsAre, FirstOne
  <2> QED BY <1>1, <2>1, StepNames
<1> QED BY <1>2, <1>3 DEF Leaving

LEMMA UnmarkedTail ==
  ASSUME NEW s \in Unmarked, s # << >>
  PROVE  s[1][1] \in {"close", "unmask"} /\ Tail(s) \in Unmarked
<1>1. CASE s = <<Close("group"), Do("unmask")>>
  BY <1>1, Tuples, StepNames DEF Unmarked
<1>2. CASE s = <<Do("unmask")>>
  BY <1>2, Tuples, StepNames DEF Unmarked
<1> QED BY <1>1, <1>2 DEF Unmarked

\* the mark is taken back in the middle
LEMMA MarkedBefore ==
  ASSUME NEW x, NEW s \in Before(x) \cup Leaving(x)
  PROVE  s \notin Unmarked
<1>1. CASE s = FormEnd(x)
  BY <1>1, FormEndIs, StepNames, UnmarkedTail
<1>2. CASE s \in Before(x) /\ s # FormEnd(x)
  BY <1>2, BeforeTail, UnmarkedTail
<1>3. CASE s \in Leaving(x)
  BY <1>3, LeavingTail, UnmarkedTail
<1> QED BY <1>1, <1>2, <1>3

\* the steps of a form, by what they are
LEMMA FormStep ==
  ASSUME NEW f, Shaped(f), f.fn = "form", f.todo # << >>
  PROVE  \/ /\ f.todo[1][1] \in {"softmask", "open", "reset", "clip", "contents"}
            /\ f.todo \in Before(f.form) /\ Tail(f.todo) \in Before(f.form)
            /\ f.onErr = FormEnd(f.form)
         \/ /\ f.todo[1][1] = "always" /\ f.todo = FormEnd(f.form)
            /\ Tail(f.todo) \in Leaving(f.form)
         \/ /\ f.todo[1][1] = "down" /\ f.todo \in Leaving(f.form)
            /\ Tail(f.todo) \in Leaving(f.form) /\ f.onErr = << >>
         \/ /\ f.todo[1][1] = "leave form" /\ f.todo \in Leaving(f.form)
            /\ Tail(f.todo) \in Unmarked /\ f.onErr = << >>
         \/ /\ f.todo[1][1] \in {"close", "unmask"} /\ f.todo \in Unmarked
            /\ Tail(f.todo) \in Unmarked /\ f.onErr = << >>
<1>1. IsForm(f)
  BY DEF Shaped
<1>2. CASE f.todo \in Before(f.form) /\ f.todo # FormEnd(f.form) /\ f.onErr = FormEnd(f.form)
  BY <1>2, BeforeTail
<1>3. CASE f.todo = FormEnd(f.form)
  <2>1. f.todo[1][1] = "always" /\ Tail(f.todo) \in Leaving(f.form)
    BY <1>3, FormEndIs, StepNames
  <2> QED BY <1>3, <2>1
<1>4. CASE f.todo \in Leaving(f.form) /\ f.onErr = << >>
  BY <1>4, LeavingTail
<1>5. CASE f.todo \in Unmarked /\ f.onErr = << >>
  BY <1>5, UnmarkedTail
<1> QED BY <1>1, <1>2, <1>3, <1>4, <1>5 DEF IsForm

LEMMA HeadTail ==
  ASSUME NEW S, NEW s \in Seq(S), s # << >>
  PROVE  s[1] \in S /\ Tail(s) \in Seq(S)
BY SMT

\* the steps of the other calls, by what they are
LEMMA StepIn ==
  ASSUME NEW f, Shaped(f), f.todo # << >>
  PROVE  /\ f.todo[1] \in StepsOf(f.fn) /\ Tail(f.todo) \in Seq(StepsOf(f.fn))
         /\ f.todo[1][1] \in {"page", "annot", "new", "appearance", "free"} => f.fn \in Outer
         /\ f.todo[1][1] \in {"token", "leave"} => f.fn = "stream"
         /\ f.todo[1][1] = "leave form" => f.fn = "form"
         /\ f.todo[1][1] \in {"gsave", "grestore", "draw", "pattern", "cell", "form",
                             "end mask", "end blend", "clip text"}
              => f.fn \notin Outer \cup {"stream", "form"}
         /\ f.fn = "stream" => f.todo[1][1] \in {"token", "down", "leave"}
<1>1. f.todo[1] \in StepsOf(f.fn) /\ Tail(f.todo) \in Seq(StepsOf(f.fn))
  <2>1. f.todo \in Seq(StepsOf(f.fn))
    BY DEF Shaped, IsFrame
  <2> QED BY <2>1, HeadTail
<1>2. CASE f.fn \in Outer
  <2>1. f.todo[1] \in OuterSteps /\ f.fn # "stream" /\ f.fn # "form"
    BY <1>1, <1>2 DEF StepsOf, Outer
  <2>2. f.todo[1][1] \in {"page", "annot", "new", "appearance", "free", "contents",
                         "always", "down", "open", "close"}
    BY <2>1, StepNames DEF OuterSteps
  <2> QED BY <1>1, <1>2, <2>1, <2>2
<1>3. CASE f.fn = "stream"
  <2>1. f.todo[1] \in StreamWords /\ f.fn \notin Outer
    BY <1>1, <1>3 DEF StepsOf, Outer
  <2>2. f.todo[1][1] \in {"token", "down", "leave"}
    BY <2>1, StepNames DEF StreamWords
  <2> QED BY <1>1, <1>3, <2>1, <2>2
<1>4. CASE f.fn = "form"
  <2>1. f.todo[1] \in FormWords /\ f.fn \notin Outer
    BY <1>1, <1>4 DEF StepsOf, Outer
  <2>2. f.todo[1][1] \in {"softmask", "open", "reset", "clip", "contents", "always",
                         "down", "leave form", "close", "unmask"}
    <3>1. \/ \E w \in {"softmask", "reset", "clip", "contents", "always", "down",
                       "leave form", "unmask"} : f.todo[1] = Do(w)
          \/ f.todo[1] = Open("group")
          \/ f.todo[1] = Close("group")
      BY <2>1 DEF FormWords
    <3>2. ASSUME NEW w PROVE /\ f.todo[1] = Do(w) => f.todo[1][1] = w
                             /\ f.todo[1] = Open(w) => f.todo[1][1] = "open"
                             /\ f.todo[1] = Close(w) => f.todo[1][1] = "close"
      BY StepNames
    <3> QED BY <3>1, <3>2
  <2> QED BY <1>1, <1>4, <2>1, <2>2
<1>5. CASE f.fn \notin Outer \cup {"stream", "form"}
  <2>1. f.todo[1] \in InnerSteps
    BY <1>1, <1>5 DEF StepsOf
  <2>2. f.todo[1][1] \in {"always", "gsave", "contents", "grestore", "down", "draw",
                         "pattern", "cell", "softmask", "unmask", "form", "end mask",
                         "end blend", "clip", "clip text", "open", "close"}
    <3>1. \/ \E w \in {"always", "gsave", "contents", "grestore", "down", "draw",
                       "pattern", "cell", "softmask", "unmask", "form", "end mask",
                       "end blend", "clip", "clip text"} : f.todo[1] = Do(w)
          \/ \E w \in {"clip", "group", "tile", "mask"} : f.todo[1] = Open(w)
          \/ \E w \in {"clip", "group", "tile"} : f.todo[1] = Close(w)
      BY <2>1 DEF InnerSteps
    <3>2. ASSUME NEW w PROVE /\ f.todo[1] = Do(w) => f.todo[1][1] = w
                             /\ f.todo[1] = Open(w) => f.todo[1][1] = "open"
                             /\ f.todo[1] = Close(w) => f.todo[1][1] = "close"
      BY StepNames
    <3> QED BY <3>1, <3>2
  <2> QED BY <1>1, <1>5, <2>2
<1> QED BY <1>2, <1>3, <1>4, <1>5

-----------------------------------------------------------------------------
(* Stacks                                                                  *)

\* n and gbot matter to the streams only
LEMMA Level ==
  ASSUME NEW fs, NEW n, NEW gbot, NEW mk, Stacked(fs, n, gbot, mk), NEW m, NEW gb,
         \A i \in 1..Len(fs) : Active(fs[i]) => fs[i].base <= m /\ fs[i].base <= gb
  PROVE  Stacked(fs, m, gb, mk)
BY DEF Stacked

\* a form that is not innermost marks
LEMMA WaitingMarks ==
  ASSUME NEW f, Waits(f), f.fn = "form"
  PROVE  Marks(f) /\ f.onErr # << >>
BY MarkedBefore, FormEndIs DEF Waits, Marks

\* the innermost call goes on, and may take its mark back
LEMMA Advance ==
  ASSUME NEW fs, NEW n, NEW gbot, NEW mk, Stacked(fs, n, gbot, mk), fs # << >>,
         NEW g, Shaped(g), NEW mk2,
         g.fn = fs[Len(fs)].fn, g.form = fs[Len(fs)].form,
         g.base = fs[Len(fs)].base, g.gbot = fs[Len(fs)].gbot,
         Active(g) => Active(fs[Len(fs)]),
         \/ mk2 = mk /\ (Marks(g) <=> Marks(fs[Len(fs)]))
         \/ mk2 = mk \ {g.form} /\ Marks(fs[Len(fs)]) /\ ~Marks(g)
  PROVE  Stacked(Replaced(fs, Len(fs), g), n, gbot, mk2)
<1> DEFINE L == Len(fs)
           hs == Replaced(fs, L, g)
<1>1. IsSeq(fs)
  BY DEF Stacked
<1>2. L \in Nat /\ L # 0 /\ L \in 1..L
  BY <1>1, SeqLen, SMT
<1>3. /\ IsSeq(hs) /\ Len(hs) = L /\ hs[L] = g
      /\ \A i \in 1..L : i # L => hs[i] = fs[i]
  BY <1>1, <1>2, ReplacedSeq
<1>4. \A i \in 1..L : /\ hs[i].fn = fs[i].fn /\ hs[i].form = fs[i].form
                      /\ hs[i].base = fs[i].base /\ hs[i].gbot = fs[i].gbot
                      /\ Active(hs[i]) => Active(fs[i])
                      /\ Shaped(hs[i])
  <2>1. \A i \in 1..L : Shaped(fs[i])
    BY DEF Stacked
  <2> QED BY <1>3, <2>1
<1>5. \A i \in 1..L - 1 : hs[i] = fs[i] /\ i \in 1..L /\ i # L
  BY <1>2, <1>3, SMT
<1>6. mk2 = {hs[i].form : i \in {k \in 1..L : Marks(hs[k])}}
  <2>1. mk = {fs[i].form : i \in {k \in 1..L : Marks(fs[k])}}
    BY DEF Stacked
  <2>2. CASE mk2 = mk /\ (Marks(g) <=> Marks(fs[L]))
    <3>1. \A i \in 1..L : Marks(hs[i]) <=> Marks(fs[i])
      BY <1>3, <2>2
    <3> QED BY <1>4, <2>1, <2>2, <3>1
  <2>3. CASE mk2 = mk \ {g.form} /\ Marks(fs[L]) /\ ~Marks(g)
    <3>1. \A i \in 1..L : Marks(hs[i]) <=> Marks(fs[i]) /\ i # L
      BY <1>3, <2>3
    <3>2. \A i \in 1..L : i # L /\ Marks(fs[i]) => fs[i].form # g.form
      BY <1>2, <2>3 DEF Stacked, Marks
    <3> QED BY <1>4, <2>1, <2>3, <3>1, <3>2
  <2> QED BY <2>2, <2>3
<1>7. \A i \in 1..L - 1 : Waits(hs[i])
  BY <1>5 DEF Stacked
<1> HIDE DEF hs
<1>8. \A i, j \in 1..L : i < j /\ hs[j].fn \in Outer => hs[i].fn \in Outer
  BY <1>4 DEF Stacked
<1>9. \A i \in 1..L : Active(hs[i]) => hs[i].base <= n /\ hs[i].base <= gbot
  BY <1>4 DEF Stacked
<1>10. \A i, j \in 1..L :
         i < j /\ Active(hs[i]) /\ Active(hs[j]) => hs[i].base <= hs[j].gbot
  BY <1>4 DEF Stacked
<1>11. \A i, j \in 1..L :
         hs[i].fn = "form" /\ hs[j].fn = "form" /\ i # j => hs[i].form # hs[j].form
  BY <1>4 DEF Stacked
<1> QED BY <1>3, <1>4, <1>6, <1>7, <1>8, <1>9, <1>10, <1>11 DEF Stacked, hs

\* a call
LEMMA Push ==
  ASSUME NEW fs, NEW n, NEW gbot, NEW mk, Stacked(fs, n, gbot, mk),
         fs # << >> => Waits(fs[Len(fs)]),
         NEW g, Shaped(g), NEW mk2,
         g.fn \in Outer => \A i \in 1..Len(fs) : fs[i].fn \in Outer,
         Active(g) => g.base <= n /\ g.base <= gbot,
         Active(g) => \A i \in 1..Len(fs) : Active(fs[i]) => fs[i].base <= g.gbot,
         \/ g.fn = "form" /\ Marks(g) /\ g.form \notin mk /\ mk2 = mk \cup {g.form}
         \/ g.fn # "form" /\ mk2 = mk
  PROVE  Stacked(Append(fs, g), n, gbot, mk2)
<1> DEFINE L == Len(fs)
           hs == Append(fs, g)
<1>1. IsSeq(fs)
  BY DEF Stacked
<1>2. L \in Nat /\ (fs = << >> <=> L = 0)
  BY <1>1, SeqLen
<1>3. IsSeq(hs) /\ Len(hs) = L + 1 /\ hs[L + 1] = g /\ \A i \in 1..L : hs[i] = fs[i]
  BY <1>1, AppendSeq
<1>4. \A i \in 1..L : Waits(fs[i])
  <2>1. \A i \in 1..L - 1 : Waits(fs[i])
    BY DEF Stacked
  <2> QED BY <1>2, <2>1, SMT
<1>5. \A i \in 1..L + 1 : i \in 1..L \/ i = L + 1
  BY <1>2, SMT
<1>6. /\ 1..(L + 1) - 1 = 1..L
      /\ \A i \in 1..L : i \in 1..L + 1 /\ i # L + 1 /\ i < L + 1 /\ ~(L + 1 < i)
  BY <1>2, SMT
<1>7. \A i \in 1..L : fs[i].fn = "form" => Marks(fs[i]) /\ fs[i].form \in mk
  BY <1>4, WaitingMarks DEF Stacked
<1> HIDE DEF hs
<1>8. \A i \in 1..L + 1 : Shaped(hs[i])
  BY <1>3, <1>5 DEF Stacked
<1>9. \A i, j \in 1..L + 1 : i < j /\ hs[j].fn \in Outer => hs[i].fn \in Outer
  BY <1>2, <1>3, <1>5, <1>6 DEF Stacked
<1>10. \A i \in 1..L + 1 : Active(hs[i]) => hs[i].base <= n /\ hs[i].base <= gbot
  BY <1>3, <1>5 DEF Stacked
<1>11. \A i, j \in 1..L + 1 :
         i < j /\ Active(hs[i]) /\ Active(hs[j]) => hs[i].base <= hs[j].gbot
  BY <1>2, <1>3, <1>5, <1>6 DEF Stacked
<1>12. \A i, j \in 1..L + 1 :
         hs[i].fn = "form" /\ hs[j].fn = "form" /\ i # j => hs[i].form # hs[j].form
  BY <1>3, <1>5, <1>7 DEF Stacked
<1>13. mk2 = {hs[i].form : i \in {k \in 1..L + 1 : Marks(hs[k])}}
  <2>1. mk = {fs[i].form : i \in {k \in 1..L : Marks(fs[k])}}
    BY DEF Stacked
  <2>2. CASE g.fn = "form" /\ Marks(g) /\ mk2 = mk \cup {g.form}
    BY <1>3, <1>5, <1>6, <2>1, <2>2
  <2>3. CASE ~Marks(g) /\ mk2 = mk
    BY <1>3, <1>5, <1>6, <2>1, <2>3
  <2> QED BY <2>2, <2>3 DEF Marks
<1>14. \A i \in 1..(L + 1) - 1 : Waits(hs[i])
  BY <1>3, <1>4, <1>6
<1> QED BY <1>3, <1>8, <1>9, <1>10, <1>11, <1>12, <1>13, <1>14 DEF Stacked, hs

\* some of the outermost calls, if none of the others marks
LEMMA Outermost ==
  ASSUME NEW fs, NEW n, NEW gbot, NEW mk, Stacked(fs, n, gbot, mk),
         NEW m \in 0..Len(fs), \A i \in 1..Len(fs) : i > m => ~Marks(fs[i])
  PROVE  Stacked(SubSeq(fs, 1, m), n, gbot, mk)
<1> DEFINE L == Len(fs)
           hs == SubSeq(fs, 1, m)
<1>1. IsSeq(fs)
  BY DEF Stacked
<1>2. L \in Nat /\ m \in Nat /\ m <= L
  BY <1>1, SeqLen, SMT
<1>3. IsSeq(hs) /\ Len(hs) = m /\ \A i \in 1..m : hs[i] = fs[i]
  BY <1>1, PrefixSeq
<1> HIDE DEF hs
<1>4. /\ \A i \in 1..m : i \in 1..L
      /\ \A i \in 1..m - 1 : i \in 1..L - 1 /\ i \in 1..m
      /\ \A i \in 1..L : i > m \/ i \in 1..m
  BY <1>2, SMT
<1>5. /\ \A i \in 1..m : Shaped(hs[i])
      /\ \A i \in 1..m - 1 : Waits(hs[i])
  BY <1>3, <1>4 DEF Stacked
<1>6. \A i, j \in 1..m : i < j /\ hs[j].fn \in Outer => hs[i].fn \in Outer
  BY <1>3, <1>4 DEF Stacked
<1>7. \A i \in 1..m : Active(hs[i]) => hs[i].base <= n /\ hs[i].base <= gbot
  BY <1>3, <1>4 DEF Stacked
<1>8. \A i, j \in 1..m :
         i < j /\ Active(hs[i]) /\ Active(hs[j]) => hs[i].base <= hs[j].gbot
  BY <1>3, <1>4 DEF Stacked
<1>9. \A i, j \in 1..m :
         hs[i].fn = "form" /\ hs[j].fn = "form" /\ i # j => hs[i].form # hs[j].form
  BY <1>3, <1>4 DEF Stacked
<1>10. mk = {hs[i].form : i \in {k \in 1..m : Marks(hs[k])}}
  <2>1. mk = {fs[i].form : i \in {k \in 1..L : Marks(fs[k])}}
    BY DEF Stacked
  <2> QED BY <1>3, <1>4, <2>1
<1> QED BY <1>3, <1>5, <1>6, <1>7, <1>8, <1>9, <1>10 DEF Stacked, hs

-----------------------------------------------------------------------------
(* The innermost call                                                      *)

\* Without the one that is last, what it does next.
Shorter(f) == [f EXCEPT !.todo = Tail(@)]
SameCall(f, g) ==
  /\ g.fn = f.fn /\ g.form = f.form /\ g.base = f.base /\ g.gbot = f.gbot
  /\ Active(g) => Active(f)

\* a frame with other fields
FrameOf(f, t, o, e, m) ==
  [fn |-> f.fn, todo |-> t, onErr |-> o, pend |-> e, base |-> f.base, keep |-> f.keep,
   gbot |-> f.gbot, gparent |-> f.gparent, soft |-> m, form |-> f.form]
LEMMA FrameWith ==
  ASSUME NEW f, IsFrame(f), NEW t \in Seq(StepsOf(f.fn)), NEW o \in Seq(StepsOf(f.fn)),
         NEW e, NEW m, NEW g, g = FrameOf(f, t, o, e, m)
  PROVE  /\ IsFrame(g) /\ g.todo = t /\ g.onErr = o /\ g.pend = e
         /\ g.fn = f.fn /\ g.form = f.form /\ g.base = f.base /\ g.gbot = f.gbot
<1>1. /\ g.fn = f.fn /\ g.todo = t /\ g.onErr = o /\ g.pend = e
      /\ g.base = f.base /\ g.keep = f.keep /\ g.gbot = f.gbot
      /\ g.gparent = f.gparent /\ g.soft = m /\ g.form = f.form
  BY SMT DEF FrameOf
<1>2. g = [fn |-> g.fn, todo |-> g.todo, onErr |-> g.onErr, pend |-> g.pend,
           base |-> g.base, keep |-> g.keep, gbot |-> g.gbot,
           gparent |-> g.gparent, soft |-> g.soft, form |-> g.form]
  BY <1>1, Zenon DEF FrameOf
<1> QED BY <1>1, <1>2 DEF IsFrame

\* A frame has these fields, and one of them changed changes nothing else.
LEMMA FieldChanged ==
  ASSUME NEW f, IsFrame(f), NEW y
  PROVE  /\ [f EXCEPT !.todo = y] = FrameOf(f, y, f.onErr, f.pend, f.soft)
         /\ [f EXCEPT !.onErr = y] = FrameOf(f, f.todo, y, f.pend, f.soft)
         /\ [f EXCEPT !.pend = y] = FrameOf(f, f.todo, f.onErr, y, f.soft)
         /\ [f EXCEPT !.soft = y] = FrameOf(f, f.todo, f.onErr, f.pend, y)
<1>1. DOMAIN f = {"fn", "todo", "onErr", "pend", "base", "keep", "gbot", "gparent",
                  "soft", "form"}
  BY DEF IsFrame
<1>2. f = [x \in DOMAIN f |-> f[x]]
  BY DEF IsFrame
<1>3. [f EXCEPT !.todo = y] = FrameOf(f, y, f.onErr, f.pend, f.soft)
  <2>1. [f EXCEPT !.todo = y] = [x \in DOMAIN f |-> IF x = "todo" THEN y ELSE f[x]]
    BY <1>1, <1>2
  <2>2. FrameOf(f, y, f.onErr, f.pend, f.soft)
          = [x \in DOMAIN f |-> IF x = "todo" THEN y ELSE f[x]]
    BY <1>1 DEF FrameOf
  <2> QED BY <2>1, <2>2
<1>4. [f EXCEPT !.onErr = y] = FrameOf(f, f.todo, y, f.pend, f.soft)
  <2>1. [f EXCEPT !.onErr = y] = [x \in DOMAIN f |-> IF x = "onErr" THEN y ELSE f[x]]
    BY <1>1, <1>2
  <2>2. FrameOf(f, f.todo, y, f.pend, f.soft)
          = [x \in DOMAIN f |-> IF x = "onErr" THEN y ELSE f[x]]
    BY <1>1 DEF FrameOf
  <2> QED BY <2>1, <2>2
<1>5. [f EXCEPT !.pend = y] = FrameOf(f, f.todo, f.onErr, y, f.soft)
  <2>1. [f EXCEPT !.pend = y] = [x \in DOMAIN f |-> IF x = "pend" THEN y ELSE f[x]]
    BY <1>1, <1>2
  <2>2. FrameOf(f, f.todo, f.onErr, y, f.soft)
          = [x \in DOMAIN f |-> IF x = "pend" THEN y ELSE f[x]]
    BY <1>1 DEF FrameOf
  <2> QED BY <2>1, <2>2
<1>6. [f EXCEPT !.soft = y] = FrameOf(f, f.todo, f.onErr, f.pend, y)
  <2>1. [f EXCEPT !.soft = y] = [x \in DOMAIN f |-> IF x = "soft" THEN y ELSE f[x]]
    BY <1>1, <1>2
  <2>2. FrameOf(f, f.todo, f.onErr, f.pend, y)
          = [x \in DOMAIN f |-> IF x = "soft" THEN y ELSE f[x]]
    BY <1>1 DEF FrameOf
  <2> QED BY <2>1, <2>2
<1> QED BY <1>3, <1>4, <1>5, <1>6

WithTodo(f, t) == [f EXCEPT !.todo = t]
LEMMA TodoWith ==
  ASSUME NEW f, IsFrame(f), NEW t \in Seq(StepsOf(f.fn))
  PROVE  LET g == WithTodo(f, t)
         IN  /\ IsFrame(g) /\ g.todo = t /\ g.onErr = f.onErr /\ g.pend = f.pend
             /\ g.fn = f.fn /\ g.form = f.form /\ g.base = f.base /\ g.gbot = f.gbot
<1> DEFINE g == WithTodo(f, t)
<1>1. g = FrameOf(f, t, f.onErr, f.pend, f.soft)
  BY FieldChanged, Zenon DEF WithTodo
<1>2. f.todo \in Seq(StepsOf(f.fn)) /\ f.onErr \in Seq(StepsOf(f.fn))
  BY DEF IsFrame
<1> QED BY <1>1, <1>2, FrameWith

WithOnErr(f, o) == [f EXCEPT !.onErr = o]
LEMMA OnErrWith ==
  ASSUME NEW f, IsFrame(f), NEW o \in Seq(StepsOf(f.fn))
  PROVE  LET g == WithOnErr(f, o)
         IN  /\ IsFrame(g) /\ g.todo = f.todo /\ g.onErr = o /\ g.pend = f.pend
             /\ g.fn = f.fn /\ g.form = f.form /\ g.base = f.base /\ g.gbot = f.gbot
<1> DEFINE g == WithOnErr(f, o)
<1>1. g = FrameOf(f, f.todo, o, f.pend, f.soft)
  BY FieldChanged, Zenon DEF WithOnErr
<1>2. f.todo \in Seq(StepsOf(f.fn)) /\ f.onErr \in Seq(StepsOf(f.fn))
  BY DEF IsFrame
<1> QED BY <1>1, <1>2, FrameWith

WithPend(f, e) == [f EXCEPT !.pend = e]
LEMMA PendWith ==
  ASSUME NEW f, IsFrame(f), NEW e
  PROVE  LET g == WithPend(f, e)
         IN  /\ IsFrame(g) /\ g.todo = f.todo /\ g.onErr = f.onErr /\ g.pend = e
             /\ g.fn = f.fn /\ g.form = f.form /\ g.base = f.base /\ g.gbot = f.gbot
<1> DEFINE g == WithPend(f, e)
<1>1. g = FrameOf(f, f.todo, f.onErr, e, f.soft)
  BY FieldChanged, Zenon DEF WithPend
<1>2. f.todo \in Seq(StepsOf(f.fn)) /\ f.onErr \in Seq(StepsOf(f.fn))
  BY DEF IsFrame
<1> QED BY <1>1, <1>2, FrameWith

WithSoft(f, m) == [f EXCEPT !.soft = m]
LEMMA SoftWith ==
  ASSUME NEW f, IsFrame(f), NEW m
  PROVE  LET g == WithSoft(f, m)
         IN  /\ IsFrame(g) /\ g.todo = f.todo /\ g.onErr = f.onErr /\ g.pend = f.pend
             /\ g.fn = f.fn /\ g.form = f.form /\ g.base = f.base /\ g.gbot = f.gbot
<1> DEFINE g == WithSoft(f, m)
<1>1. g = FrameOf(f, f.todo, f.onErr, f.pend, m)
  BY FieldChanged, Zenon DEF WithSoft
<1>2. f.todo \in Seq(StepsOf(f.fn)) /\ f.onErr \in Seq(StepsOf(f.fn))
  BY DEF IsFrame
<1> QED BY <1>1, <1>2, FrameWith

LEMMA StreamTail ==
  ASSUME NEW s \in {StreamSteps, <<Do("down"), Do("leave")>>, <<Do("leave")>>}
  PROVE  /\ s # << >> 
         /\ Tail(s) \in {<<Do("down"), Do("leave")>>, <<Do("leave")>>, << >>}
         /\ s[1][1] = "token" => Tail(s) # << >>
<1>1. CASE s = StreamSteps
  BY <1>1, Tuples DEF StreamSteps
<1>2. CASE s = <<Do("down"), Do("leave")>>
  BY <1>2, Tuples
<1>3. CASE s = <<Do("leave")>>
  BY <1>3, Tuples, StepNames
<1> QED BY <1>1, <1>2, <1>3

\* a step that is neither fz_always nor the end of the mark of a form
LEMMA ShorterIs ==
  ASSUME NEW f, Shaped(f), f.todo # << >>, NEW g, IsFrame(g), g.todo = Tail(f.todo),
         g.onErr = f.onErr, g.pend = f.pend, g.fn = f.fn, g.form = f.form,
         g.base = f.base, g.gbot = f.gbot,
         f.fn = "form" => f.todo[1][1] \notin {"always", "leave form"}
  PROVE  /\ Shaped(g) /\ SameCall(f, g) /\ (Marks(g) <=> Marks(f))
         /\ f.fn = "form" /\ f.todo[1][1] \in {"close", "unmask"} => ~Marks(g)
         /\ /\ f.fn = "form" => f.todo[1][1] \in {"softmask", "open", "reset", "clip", "contents"}
            /\ f.fn = "stream" => f.todo[1][1] = "token"
            => Waits(g)
<1>1. CASE f.fn = "form"
  <2>1. \/ /\ f.todo[1][1] \in {"softmask", "open", "reset", "clip", "contents"}
           /\ f.todo \in Before(f.form) /\ Tail(f.todo) \in Before(f.form)
           /\ f.onErr = FormEnd(f.form)
        \/ /\ f.todo[1][1] = "down" /\ f.todo \in Leaving(f.form)
           /\ Tail(f.todo) \in Leaving(f.form) /\ f.onErr = << >>
        \/ /\ f.todo[1][1] \in {"close", "unmask"} /\ f.todo \in Unmarked
           /\ Tail(f.todo) \in Unmarked /\ f.onErr = << >>
    BY <1>1, FormStep
  <2>2. IsForm(g)
    BY <2>1 DEF IsForm
  <2>3. Marks(g) <=> Marks(f)
    BY <1>1, <2>1, MarkedBefore DEF Marks
  <2>4. f.todo[1][1] \in {"close", "unmask"} => ~Marks(g)
    BY <2>1 DEF Marks
  <2>5. f.todo[1][1] \in {"softmask", "open", "reset", "clip", "contents"} => Waits(g)
    BY <1>1, <2>1 DEF Waits
  <2> QED BY <1>1, <2>2, <2>3, <2>4, <2>5 DEF Shaped, SameCall, Active
<1>2. CASE f.fn = "stream"
  <2>1. IsStream(f)
    BY <1>2 DEF Shaped
  <2>2. IsStream(g) /\ (f.todo[1][1] = "token" => g.todo # << >>)
    BY <2>1, StreamTail DEF IsStream
  <2> QED BY <1>2, <2>2 DEF Shaped, SameCall, Active, Marks, Waits
<1>3. CASE f.fn # "form" /\ f.fn # "stream"
  BY <1>3 DEF Shaped, SameCall, Active, Marks, Waits
<1> QED BY <1>1, <1>2, <1>3

\* fz_always
LEMMA AlwaysIs ==
  ASSUME NEW f, Shaped(f), f.todo # << >>, f.todo[1][1] = "always",
         NEW g, g = [f EXCEPT !.onErr = << >>, !.todo = Tail(@)]
  PROVE  Shaped(g) /\ SameCall(f, g) /\ (Marks(g) <=> Marks(f))
<1>1. IsFrame(f) /\ Tail(f.todo) \in Seq(StepsOf(f.fn)) /\ << >> \in Seq(StepsOf(f.fn))
  BY StepIn, LenZero DEF Shaped
<1>2. /\ IsFrame(g) /\ g.todo = Tail(f.todo) /\ g.onErr = << >>
      /\ g.fn = f.fn /\ g.form = f.form /\ g.base = f.base /\ g.gbot = f.gbot
  <2>0. PICK o, t : o = << >> /\ t = Tail(f.todo)
    OBVIOUS
  <2> DEFINE h == WithOnErr(f, o)
  <2>1. g = WithTodo(h, t)
    BY <2>0 DEF WithOnErr, WithTodo
  <2>2. /\ IsFrame(h) /\ h.onErr = << >>
        /\ h.fn = f.fn /\ h.form = f.form /\ h.base = f.base /\ h.gbot = f.gbot
    BY <1>1, <2>0, OnErrWith
  <2> HIDE DEF h
  <2> QED BY <1>1, <2>0, <2>1, <2>2, TodoWith
<1>3. f.fn # "stream"
  BY StepIn
<1>4. CASE f.fn = "form"
  <2>1. f.todo = FormEnd(f.form) /\ Tail(f.todo) \in Leaving(f.form)
    BY <1>4, FormStep
  <2>2. IsForm(g)
    BY <1>2, <2>1 DEF IsForm
  <2>3. Marks(g) /\ Marks(f)
    BY <1>2, <1>4, <2>1, FormEndIs, MarkedBefore DEF Marks
  <2> QED BY <1>2, <1>4, <2>2, <2>3 DEF Shaped, SameCall, Active
<1>5. CASE f.fn # "form"
  BY <1>2, <1>3, <1>5 DEF Shaped, SameCall, Active, Marks
<1> QED BY <1>4, <1>5

\* pdf_unmark_obj
LEMMA LeaveIs ==
  ASSUME NEW f, Shaped(f), f.todo # << >>, f.todo[1][1] = "leave form"
  PROVE  /\ Shaped(Shorter(f)) /\ SameCall(f, Shorter(f))
         /\ f.fn = "form" /\ Marks(f) /\ ~Marks(Shorter(f))
<1> DEFINE g == Shorter(f)
<1>1. IsFrame(f) /\ Tail(f.todo) \in Seq(StepsOf(f.fn)) /\ f.fn = "form"
  BY StepIn DEF Shaped
<1>2. /\ IsFrame(g) /\ g.todo = Tail(f.todo) /\ g.onErr = f.onErr
      /\ g.fn = f.fn /\ g.form = f.form /\ g.base = f.base /\ g.gbot = f.gbot
  <2>1. PICK t : t = Tail(f.todo)
    OBVIOUS
  <2>2. g = WithTodo(f, t)
    BY <2>1 DEF Shorter, WithTodo
  <2> HIDE DEF g
  <2> QED BY <1>1, <2>1, <2>2, TodoWith
<1>3. f.todo \in Leaving(f.form) /\ Tail(f.todo) \in Unmarked /\ f.onErr = << >>
  BY <1>1, FormStep
<1>4. IsForm(g) /\ Marks(f) /\ ~Marks(g)
  BY <1>1, <1>2, <1>3, MarkedBefore DEF IsForm, Marks
<1> QED BY <1>1, <1>2, <1>4 DEF Shaped, SameCall, Active

\* fz_catch
Tosses(f) == /\ f.fn = "stream" => f.todo # << >>
             /\ Marks(f) => f.onErr = FormEnd(f.form)
LEMMA CaughtIs ==
  ASSUME NEW f, NEW e, Shaped(f), Tosses(f), Stops(f, e)
  PROVE  LET g == Caught(f, e)
         IN  Shaped(g) /\ SameCall(f, g) /\ (Marks(g) <=> Marks(f))
<1> DEFINE g == Caught(f, e)
<1>1. /\ IsFrame(f) /\ f.onErr \in Seq(StepsOf(f.fn)) /\ << >> \in Seq(StepsOf(f.fn))
      /\ f.todo \in Seq(StepsOf(f.fn))
  BY DEF Shaped, IsFrame
<1>2. /\ IsFrame(g) /\ g.todo = f.onErr
      /\ g.fn = f.fn /\ g.form = f.form /\ g.base = f.base /\ g.gbot = f.gbot
      /\ f.fn = "stream" => g.onErr = f.onErr /\ g.pend = f.pend
      /\ f.fn = "form" => g.onErr = << >>
  <2>1. CASE f.fn \in {"stream", "mask"}
    <3>1. g = WithTodo(f, f.onErr)
      BY <2>1 DEF Caught, WithTodo
    <3> QED BY <1>1, <2>1, <3>1, TodoWith
  <2>2. CASE f.fn \notin {"stream", "mask"}
    <3>1. g = [f EXCEPT !.todo = f.onErr, !.onErr = << >>, !.pend = e]
      BY <2>2 DEF Caught
    <3>0. PICK o : o = << >>
      OBVIOUS
    <3> DEFINE h1 == WithTodo(f, f.onErr)
               h2 == WithOnErr(h1, o)
    <3>2. g = WithPend(h2, e)
      BY <3>0, <3>1 DEF WithTodo, WithOnErr, WithPend
    <3>3. /\ IsFrame(h1) /\ h1.todo = f.onErr
          /\ h1.fn = f.fn /\ h1.form = f.form /\ h1.base = f.base /\ h1.gbot = f.gbot
      BY <1>1, TodoWith
    <3> HIDE DEF h1
    <3>5. o \in Seq(StepsOf(h1.fn))
      BY <1>1, <3>0, <3>3
    <3>4. /\ IsFrame(h2) /\ h2.todo = f.onErr /\ h2.onErr = << >>
          /\ h2.fn = f.fn /\ h2.form = f.form /\ h2.base = f.base /\ h2.gbot = f.gbot
      BY <3>0, <3>3, <3>5, OnErrWith
    <3> HIDE DEF h2
    <3> QED BY <2>2, <3>2, <3>4, PendWith
  <2> QED BY <2>1, <2>2
<1> HIDE DEF g
<1>3. CASE f.fn = "form"
  <2>1. f.onErr # << >>
    BY <1>3 DEF Stops
  <2>2. f.todo \in Before(f.form) /\ f.onErr = FormEnd(f.form)
    BY <1>3, <2>1 DEF Shaped, IsForm
  <2>3. IsForm(g) /\ Marks(f) /\ Marks(g)
    BY <1>2, <1>3, <2>2, FormEndIs, MarkedBefore DEF IsForm, Marks
  <2> QED BY <1>2, <1>3, <2>3 DEF Shaped, SameCall, Active, g
<1>4. CASE f.fn = "stream"
  BY <1>2, <1>4 DEF Shaped, IsStream, SameCall, Active, Marks, Tosses, g
<1>5. CASE f.fn # "form" /\ f.fn # "stream"
  BY <1>2, <1>5 DEF Shaped, SameCall, Active, Marks, g
<1> QED BY <1>3, <1>4, <1>5

\* an exception
LEMMA ThrowKeeps ==
  ASSUME NEW fs, NEW n, NEW gbot, NEW mk, Stacked(fs, n, gbot, mk), NEW e,
         fs # << >> => Tosses(fs[Len(fs)])
  PROVE  Stacked(Unwound(fs, e), n, gbot, mk)
<1> DEFINE L == Len(fs)
           stops == {i \in DOMAIN fs : Stops(fs[i], e)}
<1>1. IsSeq(fs)
  BY DEF Stacked
<1>2. L \in Nat /\ DOMAIN fs = 1..L /\ (fs = << >> <=> L = 0)
  BY <1>1, SeqLen
<1>3. \A i \in 1..L : Shaped(fs[i]) /\ Tosses(fs[i])
  <2>1. \A i \in 1..L : i \in 1..L - 1 \/ i = L
    <3> HIDE DEF L
    <3> QED BY <1>2, SMT
  <2>2. \A i \in 1..L - 1 : Waits(fs[i])
    BY DEF Stacked
  <2>3. ASSUME NEW f, Waits(f)
        PROVE  Tosses(f)
    BY <2>3 DEF Waits, Tosses, Marks
  <2>4. \A i \in 1..L : fs # << >>
    BY <1>2, SMT
  <2> QED BY <2>1, <2>2, <2>3, <2>4 DEF Stacked
<1>4. \A i \in 1..L : Marks(fs[i]) => i \in stops
  <2> SUFFICES ASSUME NEW i \in 1..L, Marks(fs[i])
               PROVE  Stops(fs[i], e)
    BY <1>2
  <2>1. fs[i].fn = "form" /\ fs[i].onErr # << >>
    BY <1>3, FormEndIs DEF Tosses, Marks
  <2> QED BY <2>1 DEF Stops
<1>5. CASE stops = {}
  <2>1. 0 \in 0..L /\ Unwound(fs, e) = << >>
    BY <1>2, <1>5, SMT DEF Unwound
  <2>2. Stacked(SubSeq(fs, 1, 0), n, gbot, mk)
    BY <1>4, <1>5, <2>1, Outermost
  <2>3. SubSeq(fs, 1, 0) = << >>
    BY <1>1, <2>1, PrefixSeq, SeqLen
  <2> QED BY <2>1, <2>2, <2>3
<1>6. CASE stops # {}
  <2> DEFINE m == Max(stops)
             hs == SubSeq(fs, 1, m)
  <2>1. m \in stops /\ \A i \in stops : i <= m
    BY <1>2, <1>6, MaxIs
  <2>2. m \in 1..L /\ m \in 0..L /\ \A i \in 1..L : i > m => ~(i <= m)
    BY <1>2, <2>1, SMT
  <2>3. \A i \in 1..L : i > m => ~Marks(fs[i])
    BY <1>4, <2>1, <2>2
  <2>4. Stacked(hs, n, gbot, mk)
    BY <2>2, <2>3, Outermost
  <2>5. IsSeq(hs) /\ Len(hs) = m /\ hs[m] = fs[m] /\ hs # << >>
    BY <1>1, <2>2, PrefixSeq, SeqLen, SMT
  <2>6. Stops(fs[m], e) /\ Shaped(fs[m]) /\ Tosses(fs[m])
    BY <1>3, <2>1, <2>2
  <2>7. Unwound(fs, e) = Replaced(hs, m, Caught(fs[m], e))
    BY <1>6, <2>5 DEF Unwound, Replaced
  <2>8. LET g == Caught(fs[m], e)
        IN  Shaped(g) /\ SameCall(fs[m], g) /\ (Marks(g) <=> Marks(fs[m]))
    BY <2>6, CaughtIs
  <2> HIDE DEF m, hs
  <2> QED BY <2>4, <2>5, <2>7, <2>8, Advance DEF SameCall
<1> QED BY <1>5, <1>6

-----------------------------------------------------------------------------
(* Steps                                                                   *)

\* what CallersKept says of a step
CallersHere ==
  \A i \in DOMAIN calls \cap DOMAIN calls' :
    calls[i].fn = "stream" /\ calls'[i].fn = "stream"
      => SubSeq(gs', 1, calls[i].base - 1) = SubSeq(gs, 1, calls[i].base - 1)
\* the states of every caller are among states
KeepsCallers(states) ==
  /\ IsSeq(states)
  /\ \A i \in 1..Len(calls) : Active(calls[i]) =>
       /\ calls[i].base <= Len(states)
       /\ \A j \in 1..calls[i].base - 1 : states[j] = gs[j]
Holds == IInv' /\ CallersHere
Going == IInv /\ calls # << >> /\ Here.todo # << >>

LEMMA Ready ==
  ASSUME IInv, calls # << >>
  PROVE  /\ Len(calls) \in Nat /\ Len(calls) # 0 /\ Len(calls) \in 1..Len(calls)
         /\ DOMAIN calls = 1..Len(calls) /\ IsSeq(calls)
         /\ Shaped(Here) /\ IsFrame(Here)
         /\ IsSeq(gs) /\ Len(gs) \in Nat /\ csi.gbot \in Nat /\ IsCsi
         /\ Stacked(calls, Len(gs), csi.gbot, marked)
<1>1. IsSeq(calls) /\ IsSeq(gs) /\ IsCsi /\ Stacked(calls, Len(gs), csi.gbot, marked)
  BY DEF IInv, Stacked
<1>2. Len(gs) \in Nat /\ csi.gbot \in Nat
  BY <1>1, SeqLen DEF IsCsi
<1>3. Len(calls) \in Nat /\ Len(calls) # 0 /\ DOMAIN calls = 1..Len(calls)
  BY <1>1, SeqLen
<1>4. Len(calls) \in 1..Len(calls)
  BY <1>3, SMT
<1>5. Shaped(Here) /\ IsFrame(Here)
  BY <1>1, <1>4 DEF Stacked, Here, Shaped
<1> QED BY <1>1, <1>2, <1>3, <1>4, <1>5

LEMMA KeepsGs ==
  ASSUME IInv
  PROVE  KeepsCallers(gs)
BY DEF IInv, Stacked, KeepsCallers

LEMMA BaseNat ==
  ASSUME IInv, NEW i \in 1..Len(calls), Active(calls[i])
  PROVE  calls[i].base \in Nat /\ calls[i].base <= Len(gs) /\ calls[i].base <= csi.gbot
BY DEF IInv, Stacked, Shaped, IsFrame

LEMMA KeepsAppend ==
  ASSUME IInv, NEW x
  PROVE  KeepsCallers(Append(gs, x))
<1>1. IsSeq(gs) /\ Len(gs) \in Nat
  BY SeqLen DEF IInv
<1>2. /\ IsSeq(Append(gs, x)) /\ Len(Append(gs, x)) = Len(gs) + 1
      /\ \A i \in 1..Len(gs) : Append(gs, x)[i] = gs[i]
  BY <1>1, AppendSeq
<1>3. ASSUME NEW b \in Nat, b <= Len(gs)
      PROVE  b <= Len(gs) + 1 /\ \A j \in 1..b - 1 : j \in 1..Len(gs)
  BY <1>1, <1>3, SMT
<1> QED BY <1>2, <1>3, BaseNat DEF KeepsCallers

LEMMA KeepsReplaced ==
  ASSUME IInv, NEW x
  PROVE  KeepsCallers(Replaced(gs, Len(gs), x))
<1>1. IsSeq(gs) /\ Len(gs) \in Nat
  BY SeqLen DEF IInv
<1> DEFINE hs == Replaced(gs, Len(gs), x)
<1>2. /\ IsSeq(hs) /\ Len(hs) = Len(gs)
      /\ \A i \in 1..Len(gs) : i # Len(gs) => hs[i] = gs[i]
  BY <1>1, ReplacedSeq
<1> HIDE DEF hs
<1>3. ASSUME NEW b \in Nat, b <= Len(gs)
      PROVE  \A j \in 1..b - 1 : j \in 1..Len(gs) /\ j # Len(gs)
  BY <1>1, <1>3, SMT
<1>4. KeepsCallers(hs)
  BY <1>2, <1>3, BaseNat DEF KeepsCallers
<1> QED BY <1>4 DEF hs

LEMMA KeepsFront ==
  ASSUME IInv, Len(gs) > csi.gbot
  PROVE  KeepsCallers(Front(gs))
<1>1. IsSeq(gs) /\ Len(gs) \in Nat /\ csi.gbot \in Nat
  BY SeqLen DEF IInv, IsCsi
<1>2. gs # << >>
  BY <1>1, SeqLen, SMT
<1>3. /\ IsSeq(Front(gs)) /\ Len(Front(gs)) = Len(gs) - 1
      /\ \A i \in 1..Len(gs) - 1 : Front(gs)[i] = gs[i]
  BY <1>1, <1>2, FrontSeq
<1>4. ASSUME NEW b \in Nat, b <= csi.gbot
      PROVE  b <= Len(gs) - 1 /\ \A j \in 1..b - 1 : j \in 1..Len(gs) - 1
  BY <1>1, <1>4, SMT
<1> QED BY <1>3, <1>4, BaseNat DEF KeepsCallers

LEMMA LastOrNot ==
  ASSUME NEW n \in Nat, NEW i \in 1..n
  PROVE  i = n \/ (i < n /\ i \in 1..n - 1)
BY SMT

\* where pages and annotations are begun and ended, nothing is run
LEMMA OuterOnly ==
  ASSUME IInv, calls # << >>, Here.fn \in Outer
  PROVE  /\ \A i \in 1..Len(calls) : calls[i].fn \in Outer /\ ~Active(calls[i])
         /\ \A states : IsSeq(states) => KeepsCallers(states)
<1>1. \A i \in 1..Len(calls) : calls[i].fn \in Outer
  <2>1. \A i \in 1..Len(calls) : i < Len(calls) \/ i = Len(calls)
    BY Ready, LastOrNot
  <2> QED BY <2>1, Ready DEF Stacked, Here
<1>2. \A i \in 1..Len(calls) : ~Active(calls[i])
  BY <1>1 DEF Outer, Active
<1> QED BY <1>1, <1>2 DEF KeepsCallers

LEMMA NoPrefix ==
  ASSUME NEW s, NEW t
  PROVE  SubSeq(s, 1, 0 - 1) = SubSeq(t, 1, 0 - 1)
<1>1. 1..(0 - 1) = {}
  BY SMT
<1> QED BY <1>1, SMT

LEMMA CallersAre ==
  ASSUME Going, KeepsCallers(gs')
  PROVE  CallersHere
<1> SUFFICES ASSUME NEW i \in 1..Len(calls), calls[i].fn = "stream"
             PROVE  SubSeq(gs', 1, calls[i].base - 1) = SubSeq(gs, 1, calls[i].base - 1)
  BY Ready DEF CallersHere, Going
<1>1. Active(calls[i])
  <2>1. i \in 1..Len(calls) - 1 \/ i = Len(calls)
    BY Ready, LastOrNot DEF Going
  <2> QED BY <2>1, Ready DEF Going, Active, Stacked, Waits, Here
<1> DEFINE b == calls[i].base
<1>2. b \in Nat /\ b <= Len(gs) /\ IsSeq(gs) /\ Len(gs) \in Nat
  BY <1>1, BaseNat, Ready DEF Going
<1>3. IsSeq(gs') /\ Len(gs') \in Nat /\ b <= Len(gs') /\ \A j \in 1..b - 1 : gs'[j] = gs[j]
  BY <1>1, SeqLen DEF KeepsCallers
<1> HIDE DEF b
<1>4. CASE b = 0
  BY <1>4, NoPrefix DEF b
<1>5. CASE b # 0
  <2>1. b - 1 \in Nat /\ b - 1 <= Len(gs) /\ b - 1 <= Len(gs')
    BY <1>2, <1>3, <1>5, SMT
  <2> QED BY <1>2, <1>3, <2>1, SamePrefix DEF b
<1> QED BY <1>4, <1>5

\* the innermost call goes on as g
LEMMA GoOn ==
  ASSUME IInv, calls # << >>, NEW n, NEW gb, Stacked(calls, n, gb, marked),
         NEW g, Shaped(g), SameCall(Here, g), Marks(g) <=> Marks(Here)
  PROVE  /\ Stacked(Goes(g), n, gb, marked)
         /\ Goes(g) # << >> /\ Len(Goes(g)) = Len(calls) /\ Goes(g)[Len(Goes(g))] = g
<1>1. Goes(g) = Replaced(calls, Len(calls), g)
  BY DEF Goes, Replaced
<1>2. Stacked(Goes(g), n, gb, marked)
  BY <1>1, Advance, Zenon DEF SameCall, Here
<1>3. IsSeq(Goes(g)) /\ Len(Goes(g)) = Len(calls) /\ Goes(g)[Len(calls)] = g
  BY <1>1, Ready, ReplacedSeq
<1>4. Goes(g) # << >>
  BY <1>3, Ready, SeqLen
<1> QED BY <1>2, <1>3, <1>4

LEMMA ShorterHere ==
  ASSUME NEW f, Shaped(f), f.todo # << >>,
         f.fn = "form" => f.todo[1][1] \notin {"always", "leave form"}
  PROVE  LET g == Shorter(f)
         IN  /\ Shaped(g) /\ SameCall(f, g) /\ (Marks(g) <=> Marks(f))
             /\ f.fn = "form" /\ f.todo[1][1] \in {"close", "unmask"} => ~Marks(g)
             /\ /\ f.fn = "form" =>
                     f.todo[1][1] \in {"softmask", "open", "reset", "clip", "contents"}
                /\ f.fn = "stream" => f.todo[1][1] = "token"
                => Waits(g)
<1> DEFINE g == Shorter(f)
<1>1. PICK t : t = Tail(f.todo)
  OBVIOUS
<1>2. IsFrame(f) /\ t \in Seq(StepsOf(f.fn))
  BY <1>1, StepIn DEF Shaped
<1>3. g = WithTodo(f, t)
  BY <1>1 DEF Shorter, WithTodo
<1> HIDE DEF g
<1>4. /\ IsFrame(g) /\ g.todo = Tail(f.todo) /\ g.onErr = f.onErr /\ g.pend = f.pend
      /\ g.fn = f.fn /\ g.form = f.form /\ g.base = f.base /\ g.gbot = f.gbot
  BY <1>1, <1>2, <1>3, TodoWith
<1>5. QED
  BY <1>4, ShorterIs DEF g

LEMMA PastIs ==
  ASSUME Going
  PROVE  Past = Goes(Shorter(Here))
<1>1. Tail(Here.todo) \in Seq(StepsOf(Here.fn))
  BY Ready, StepIn DEF Going
<1>2. << >> \o Tail(Here.todo) = Tail(Here.todo)
  BY <1>1, EmptyConcat
<1> QED BY <1>2 DEF Past, Then, Shorter

LEMMA LevelHere ==
  ASSUME IInv, KeepsCallers(gs'), csi'.gbot = csi.gbot
  PROVE  Stacked(calls, Len(gs'), csi'.gbot, marked)
<1>1. Stacked(calls, Len(gs), csi.gbot, marked)
  BY DEF IInv
<1>2. \A i \in 1..Len(calls) : Active(calls[i]) =>
        calls[i].base <= Len(gs') /\ calls[i].base <= csi'.gbot
  BY BaseNat DEF KeepsCallers
<1> QED BY <1>1, <1>2, Level

\* the fields of pdf_csi
LEMMA CsiIs ==
  ASSUME IInv, NEW v,
         \/ csi' = csi
         \/ csi' = [csi EXCEPT !.clip = v]
         \/ csi' = [csi EXCEPT !.accumulate = v]
         \/ csi' = [csi EXCEPT !.gparent = v]
  PROVE  IsCsi' /\ csi'.gbot = csi.gbot
<1>1. IsCsi
  BY DEF IInv
<1>2. CASE csi' = csi
  BY <1>1, <1>2 DEF IsCsi
<1>3. CASE csi' = [csi EXCEPT !.clip = v]
  <2>1. csi' = [gbot |-> csi.gbot, gparent |-> csi.gparent, clip |-> v,
                accumulate |-> csi.accumulate]
    BY <1>1, <1>3, SMT DEF IsCsi
  <2> QED BY <1>1, <2>1, SMT DEF IsCsi
<1>4. CASE csi' = [csi EXCEPT !.accumulate = v]
  <2>1. csi' = [gbot |-> csi.gbot, gparent |-> csi.gparent, clip |-> csi.clip, accumulate |-> v]
    BY <1>1, <1>4, SMT DEF IsCsi
  <2> QED BY <1>1, <2>1, SMT DEF IsCsi
<1>5. CASE csi' = [csi EXCEPT !.gparent = v]
  <2>1. csi' = [gbot |-> csi.gbot, gparent |-> v, clip |-> csi.clip, accumulate |-> csi.accumulate]
    BY <1>1, <1>5, SMT DEF IsCsi
  <2> QED BY <1>1, <2>1, SMT DEF IsCsi
<1> QED BY <1>2, <1>3, <1>4, <1>5

LEMMA GbotIs ==
  ASSUME IInv, NEW v \in Nat, csi' = [csi EXCEPT !.gbot = v]
  PROVE  IsCsi' /\ csi'.gbot = v
<1>1. csi' = [gbot |-> v, gparent |-> csi.gparent, clip |-> csi.clip, accumulate |-> csi.accumulate]
  BY SMT DEF IInv, IsCsi
<1>2. /\ csi'.gbot = v /\ csi'.gparent = csi.gparent
      /\ csi'.clip = csi.clip /\ csi'.accumulate = csi.accumulate
  BY <1>1, SMT
<1> QED BY <1>1, <1>2, Zenon DEF IsCsi

LEMMA Together ==
  ASSUME Going, KeepsCallers(gs'), IsCsi', Stacked(calls', Len(gs'), csi'.gbot, marked')
  PROVE  Holds
<1>1. IInv'
  BY DEF IInv, KeepsCallers
<1> QED BY <1>1, CallersAre DEF Holds

\* a step that takes the innermost call on, or throws
Onward == /\ Going /\ KeepsCallers(gs') /\ IsCsi' /\ csi'.gbot = csi.gbot
          /\ marked' = marked

LEMMA StepStays ==
  ASSUME Onward, calls' = calls
  PROVE  Holds
BY LevelHere, Together DEF Onward, Going

LEMMA StepGoes ==
  ASSUME Onward, NEW g, Shaped(g), SameCall(Here, g), Marks(g) <=> Marks(Here),
         calls' = Goes(g)
  PROVE  Holds
<1>1. Stacked(calls, Len(gs'), csi'.gbot, marked)
  BY LevelHere DEF Onward, Going
<1>2. Stacked(Goes(g), Len(gs'), csi'.gbot, marked)
  BY <1>1, GoOn DEF Onward, Going
<1> QED BY <1>2, Together DEF Onward

LEMMA StepPast ==
  ASSUME Onward, calls' = Past,
         Here.fn = "form" => Here.todo[1][1] \notin {"always", "leave form"}
  PROVE  Holds
<1>1. Shaped(Here) /\ Here.todo # << >> /\ Past = Goes(Shorter(Here))
  BY PastIs, Ready DEF Onward, Going
<1>2. /\ Shaped(Shorter(Here)) /\ SameCall(Here, Shorter(Here))
      /\ Marks(Shorter(Here)) <=> Marks(Here)
  BY <1>1, ShorterHere
<1> QED BY <1>1, <1>2, StepGoes

LEMMA StepThrow ==
  ASSUME Onward, NEW e, NEW g, Shaped(g), SameCall(Here, g), Marks(g) <=> Marks(Here), Tosses(g),
         Throw(Goes(g), e)
  PROVE  Holds
<1>1. Stacked(calls, Len(gs'), csi'.gbot, marked)
  BY LevelHere DEF Onward, Going
<1>2. Stacked(Goes(g), Len(gs'), csi'.gbot, marked) /\ Goes(g)[Len(Goes(g))] = g
  BY <1>1, GoOn DEF Onward, Going
<1>3. Stacked(calls', Len(gs'), csi'.gbot, marked)
  BY <1>2, ThrowKeeps DEF Throw
<1> QED BY <1>3, Together DEF Onward

\* an exception that is thrown in the middle of a step
LEMMA StepPastThrow ==
  ASSUME Onward, NEW e, Throw(Past, e), Here.fn # "stream",
         Here.fn = "form" => Here.todo[1][1] \in {"contents", "close", "unmask"}
  PROVE  Holds
<1>1. Shaped(Here) /\ Here.todo # << >> /\ Past = Goes(Shorter(Here))
  BY PastIs, Ready DEF Onward, Going
<1>2. /\ Shaped(Shorter(Here)) /\ SameCall(Here, Shorter(Here))
      /\ Marks(Shorter(Here)) <=> Marks(Here)
      /\ Here.fn = "form" /\ Here.todo[1][1] \in {"close", "unmask"} => ~Marks(Shorter(Here))
      /\ Here.fn # "form" \/ Here.todo[1][1] = "contents" => Waits(Shorter(Here))
  BY <1>1, ShorterHere
<1>3. Tosses(Shorter(Here))
  BY <1>2 DEF Tosses, Waits, Marks, SameCall
<1> QED BY <1>1, <1>2, <1>3, StepThrow

\* a call
LEMMA StepCalls ==
  ASSUME Going, KeepsCallers(gs'), IsCsi', NEW fs,
         Stacked(fs, Len(gs'), csi'.gbot, marked), fs # << >> => Waits(fs[Len(fs)]),
         NEW g, IsFrame(g), g.fn \notin {"stream", "form"},
         g.fn \in Outer => \A i \in 1..Len(fs) : fs[i].fn \in Outer,
         calls' = Append(fs, g), marked' = marked
  PROVE  Holds
<1>1. Shaped(g) /\ ~Active(g)
  BY DEF Shaped, Active
<1>2. Stacked(calls', Len(gs'), csi'.gbot, marked')
  BY <1>1, Push
<1> QED BY <1>2, Together

\* the innermost call waits for another
LEMMA PastWaits ==
  ASSUME Going, NEW n, NEW gb, Stacked(calls, n, gb, marked),
         Here.fn = "form" => Here.todo[1][1] \in {"softmask", "contents"},
         Here.fn # "stream"
  PROVE  /\ Stacked(Past, n, gb, marked) /\ Past # << >> /\ Waits(Past[Len(Past)])
         /\ Len(Past) = Len(calls)
<1>1. Shaped(Here) /\ Here.todo # << >> /\ Past = Goes(Shorter(Here))
  BY PastIs, Ready DEF Going
<1>2. /\ Shaped(Shorter(Here)) /\ SameCall(Here, Shorter(Here))
      /\ Marks(Shorter(Here)) <=> Marks(Here)
      /\ Waits(Shorter(Here))
  BY <1>1, ShorterHere
<1>3. /\ Stacked(Goes(Shorter(Here)), n, gb, marked) /\ Goes(Shorter(Here)) # << >>
      /\ Goes(Shorter(Here))[Len(Goes(Shorter(Here)))] = Shorter(Here)
      /\ Len(Goes(Shorter(Here))) = Len(calls)
  BY <1>2, GoOn DEF Going
<1> QED BY <1>1, <1>2, <1>3

LEMMA GrestoreKeeps ==
  ASSUME IInv, Grestore
  PROVE  KeepsCallers(gs')
<1>1. CASE gs' = gs
  BY <1>1, KeepsGs
<1>2. CASE ~(Len(gs) <= csi.gbot) /\ gs' = Front(gs)
  <2>1. Len(gs) \in Nat /\ csi.gbot \in Nat
    BY SeqLen DEF IInv, IsCsi
  <2>2. Len(gs) > csi.gbot
    BY <1>2, <2>1, SMT
  <2> QED BY <1>2, <2>2, KeepsFront
<1> QED BY <1>1, <1>2 DEF Grestore, Drop

-----------------------------------------------------------------------------
(* The actions of the device and of the graphics states                    *)

LEMMA NextIs ==
  ASSUME IInv, NEW step, Next1(step)
  PROVE  Going /\ Here.todo[1][1] = step
BY DEF Next1, Going

LEMMA OpenBracketKeeps == IInv /\ OpenBracket => Holds
<1> SUFFICES ASSUME IInv, OpenBracket
             PROVE  Holds
  OBVIOUS
<1>1. Going /\ Here.todo[1][1] = "open"
  BY NextIs DEF OpenBracket
<1>2. Onward /\ calls' = Past
  BY <1>1, KeepsGs, CsiIs DEF OpenBracket, Onward
<1> QED BY <1>1, <1>2, StepPast

LEMMA CloseBracketKeeps == IInv /\ CloseBracket => Holds
<1> SUFFICES ASSUME IInv, CloseBracket
             PROVE  Holds
  OBVIOUS
<1>1. Going /\ Here.todo[1][1] = "close"
  BY NextIs DEF CloseBracket
<1>2. Onward
  BY <1>1, KeepsGs, CsiIs DEF CloseBracket, Onward
<1>3. Here.fn # "stream"
  BY <1>1, StepIn, Ready DEF Going
<1>4. CASE Throw(Past, "bad")
  BY <1>1, <1>2, <1>3, <1>4, StepPastThrow
<1>5. CASE calls' = Past
  BY <1>1, <1>2, <1>5, StepPast
<1> QED BY <1>4, <1>5 DEF CloseBracket

LEMMA EndMaskKeeps == IInv /\ EndMask => Holds
<1> SUFFICES ASSUME IInv, EndMask
             PROVE  Holds
  OBVIOUS
<1>1. Going /\ Here.todo[1][1] = "end mask"
  BY NextIs DEF EndMask
<1>2. Onward /\ calls' = Past
  BY <1>1, KeepsGs, CsiIs DEF EndMask, Onward
<1> QED BY <1>1, <1>2, StepPast

LEMMA DrawKeeps == IInv /\ Draw => Holds
<1> SUFFICES ASSUME IInv, Draw
             PROVE  Holds
  OBVIOUS
<1>1. Going /\ Here.todo[1][1] = "draw"
  BY NextIs DEF Draw
<1>2. Onward
  BY <1>1, KeepsGs, CsiIs DEF Draw, Onward
<1>3. Here.fn # "stream" /\ Here.fn # "form"
  BY <1>1, StepIn, Ready DEF Going
<1>4. CASE Throw(Past, "bad")
  BY <1>2, <1>3, <1>4, StepPastThrow
<1>5. CASE calls' = Past
  BY <1>2, <1>3, <1>5, StepPast
<1> QED BY <1>4, <1>5 DEF Draw

LEMMA GsaveStepKeeps == IInv /\ GsaveStep => Holds
<1> SUFFICES ASSUME IInv, GsaveStep
             PROVE  Holds
  OBVIOUS
<1>1. Going /\ Here.todo[1][1] = "gsave"
  BY NextIs DEF GsaveStep
<1>2. KeepsCallers(gs')
  BY KeepsAppend DEF GsaveStep, Gsave
<1>3. Onward /\ calls' = Past
  BY <1>1, <1>2, CsiIs DEF GsaveStep, Onward
<1> QED BY <1>1, <1>3, StepPast

LEMMA GrestoreStepKeeps == IInv /\ GrestoreStep => Holds
<1> SUFFICES ASSUME IInv, GrestoreStep
             PROVE  Holds
  OBVIOUS
<1>1. Going /\ Here.todo[1][1] = "grestore"
  BY NextIs DEF GrestoreStep
<1>2. KeepsCallers(gs')
  BY GrestoreKeeps DEF GrestoreStep
<1>3. Onward /\ calls' = Past
  BY <1>1, <1>2, CsiIs DEF GrestoreStep, Onward
<1> QED BY <1>1, <1>3, StepPast

LEMMA GrestoreDownKeeps == IInv /\ GrestoreDown => Holds
<1> SUFFICES ASSUME IInv, GrestoreDown
             PROVE  Holds
  OBVIOUS
<1>1. Going /\ Here.todo[1][1] = "down"
  BY NextIs DEF GrestoreDown
<1>2. IsCsi' /\ csi'.gbot = csi.gbot /\ marked' = marked
  BY CsiIs DEF GrestoreDown
<1>3. CASE Grestore /\ calls' = calls
  BY <1>1, <1>2, <1>3, GrestoreKeeps, StepStays DEF Onward
<1>4. CASE calls' = Past /\ gs' = gs
  <2>1. Onward
    BY <1>1, <1>2, <1>4, KeepsGs DEF Onward
  <2> QED BY <1>1, <1>4, <2>1, StepPast
<1> QED BY <1>3, <1>4 DEF GrestoreDown

\* a field of the current state
LEMMA KeepsState ==
  ASSUME IInv, NEW x, gs' = [gs EXCEPT ![Len(gs)] = x]
  PROVE  KeepsCallers(gs')
BY KeepsReplaced DEF Replaced

LEMMA ClipStepKeeps == IInv /\ ClipStep => Holds
<1> SUFFICES ASSUME IInv, ClipStep
             PROVE  Holds
  OBVIOUS
<1>1. Going /\ Here.todo[1][1] = "clip"
  BY NextIs DEF ClipStep
<1>2. KeepsCallers(gs')
  BY KeepsState DEF ClipStep
<1>3. Onward /\ calls' = Past
  BY <1>1, <1>2, CsiIs DEF ClipStep, Onward
<1> QED BY <1>1, <1>3, StepPast

LEMMA ClipTextKeeps == IInv /\ ClipText => Holds
<1> SUFFICES ASSUME IInv, ClipText
             PROVE  Holds
  OBVIOUS
<1>1. Going /\ Here.todo[1][1] = "clip text"
  BY NextIs DEF ClipText
<1>2. KeepsCallers(gs')
  BY KeepsState, KeepsGs DEF ClipText
<1>3. Onward
  BY <1>1, <1>2, CsiIs DEF ClipText, Onward
<1>4. Here.fn # "stream" /\ Here.fn # "form"
  BY <1>1, StepIn, Ready DEF Going
<1>5. CASE Throw(Past, "bad")
  BY <1>3, <1>4, <1>5, StepPastThrow
<1>6. CASE calls' = Past
  BY <1>3, <1>4, <1>6, StepPast
<1> QED BY <1>5, <1>6 DEF ClipText

LEMMA ResetKeeps == IInv /\ Reset => Holds
<1> SUFFICES ASSUME IInv, Reset
             PROVE  Holds
  OBVIOUS
<1>1. Going /\ Here.todo[1][1] = "reset"
  BY NextIs DEF Reset
<1>2. KeepsCallers(gs')
  BY KeepsState DEF Reset
<1>3. Onward /\ calls' = Past
  BY <1>1, <1>2, CsiIs DEF Reset, Onward
<1> QED BY <1>1, <1>3, StepPast

LEMMA EndOfStreamKeeps == IInv /\ EndOfStream => Holds
<1> SUFFICES ASSUME IInv, EndOfStream
             PROVE  Holds
  OBVIOUS
<1>1. Going /\ Here.todo[1][1] = "token"
  BY NextIs DEF EndOfStream
<1>2. Onward /\ calls' = Past
  BY <1>1, KeepsGs, CsiIs DEF EndOfStream, Onward
<1> QED BY <1>1, <1>2, StepPast

LEMMA AlwaysKeeps == IInv /\ Always => Holds
<1> SUFFICES ASSUME IInv, Always
             PROVE  Holds
  OBVIOUS
<1>1. Going /\ Here.todo[1][1] = "always"
  BY NextIs DEF Always
<1>2. Onward
  BY <1>1, KeepsGs, CsiIs DEF Always, Onward
<1> DEFINE g == [Here EXCEPT !.onErr = << >>, !.todo = Tail(@)]
<1>3. Shaped(g) /\ SameCall(Here, g) /\ (Marks(g) <=> Marks(Here))
  BY <1>1, Ready, AlwaysIs DEF Going
<1>4. calls' = Goes(g)
  BY DEF Always
<1> HIDE DEF g
<1> QED BY <1>2, <1>3, <1>4, StepGoes

LEMMA ReturnKeeps == IInv /\ Return => Holds
<1> SUFFICES ASSUME IInv, Return
             PROVE  Holds
  OBVIOUS
<1>1. /\ Stacked(calls, Len(gs), csi.gbot, marked) /\ IsSeq(calls)
      /\ Len(calls) \in Nat /\ Len(calls) # 0 /\ calls # << >> /\ Here.todo = << >>
  BY Ready DEF Return
<1>2. ~Marks(Here)
  BY <1>1 DEF Marks, Unmarked
<1> DEFINE L == Len(calls)
           fs == Front(calls)
<1>3. L - 1 \in 0..L /\ \A i \in 1..L : i > L - 1 => i = L
  BY <1>1, SMT
<1>4. Stacked(fs, Len(gs), csi.gbot, marked)
  <2>1. fs = SubSeq(calls, 1, L - 1)
    BY DEF Front
  <2> QED BY <1>1, <1>2, <1>3, <2>1, Outermost DEF Here
<1>5. fs # << >> => Tosses(fs[Len(fs)])
  <2> SUFFICES ASSUME fs # << >>
               PROVE  Tosses(fs[Len(fs)])
    OBVIOUS
  <2>1. IsSeq(fs) /\ Len(fs) = L - 1 /\ \A i \in 1..L - 1 : fs[i] = calls[i]
    BY <1>1, FrontSeq
  <2>2. L - 1 \in 1..L - 1
    BY <1>1, <2>1, SeqLen, SMT
  <2>3. Waits(fs[Len(fs)])
    BY <1>1, <2>1, <2>2 DEF Stacked
  <2> QED BY <2>3 DEF Waits, Tosses, Marks
<1> HIDE DEF fs
<1>6. Stacked(calls', Len(gs), csi.gbot, marked)
  BY <1>4, <1>5, ThrowKeeps DEF Return, Throw, fs
<1>7. IInv'
  BY <1>6 DEF IInv, IsCsi, Return
<1> QED BY <1>7 DEF Holds, CallersHere, Return

-----------------------------------------------------------------------------
(* Calls                                                                   *)

\* the record of a call
FrameRec(fn, todo, onErr, k, x) ==
  [fn |-> fn, todo |-> todo, onErr |-> onErr, pend |-> "none",
   base |-> Len(gs), keep |-> k, gbot |-> csi.gbot,
   gparent |-> csi.gparent, soft |-> None, form |-> x]
LEMMA RecIs ==
  ASSUME IInv, NEW fn, NEW todo \in Seq(StepsOf(fn)), NEW onErr \in Seq(StepsOf(fn)),
         NEW k, NEW x
  PROVE  LET g == FrameRec(fn, todo, onErr, k, x)
         IN  /\ IsFrame(g) /\ g.fn = fn /\ g.todo = todo /\ g.onErr = onErr
             /\ g.pend = "none" /\ g.base = Len(gs) /\ g.gbot = csi.gbot /\ g.form = x
<1> DEFINE g == FrameRec(fn, todo, onErr, k, x)
<1>0. Len(gs) \in Nat /\ csi.gbot \in Nat
  BY SeqLen DEF IInv, IsCsi
<1>1. /\ g.fn = fn /\ g.todo = todo /\ g.onErr = onErr /\ g.pend = "none"
      /\ g.base = Len(gs) /\ g.keep = k /\ g.gbot = csi.gbot
      /\ g.gparent = csi.gparent /\ g.soft = None /\ g.form = x
  BY SMT DEF FrameRec
<1>2. g = [fn |-> g.fn, todo |-> g.todo, onErr |-> g.onErr, pend |-> g.pend,
           base |-> g.base, keep |-> g.keep, gbot |-> g.gbot,
           gparent |-> g.gparent, soft |-> g.soft, form |-> g.form]
  BY <1>1, Zenon DEF FrameRec
<1> HIDE DEF g
<1>3. IsFrame(g)
  BY <1>0, <1>1, <1>2 DEF IsFrame
<1> QED BY <1>1, <1>3 DEF g

FrameKeeping(fn, todo, onErr, k) == [Frame(fn, todo, onErr) EXCEPT !.keep = k]
FrameFor(fn, todo, onErr, x) == [Frame(fn, todo, onErr) EXCEPT !.form = x]
FrameBoth(fn, todo, onErr, k, x) == [Frame(fn, todo, onErr) EXCEPT !.form = x, !.keep = k]
LEMMA RecWith ==
  ASSUME NEW fn, NEW todo, NEW onErr, NEW k, NEW x
  PROVE  /\ Frame(fn, todo, onErr) = FrameRec(fn, todo, onErr, Len(gs), None)
         /\ FrameKeeping(fn, todo, onErr, k) = FrameRec(fn, todo, onErr, k, None)
         /\ FrameFor(fn, todo, onErr, x) = FrameRec(fn, todo, onErr, Len(gs), x)
         /\ FrameBoth(fn, todo, onErr, k, x) = FrameRec(fn, todo, onErr, k, x)
<1>1. Frame(fn, todo, onErr) = FrameRec(fn, todo, onErr, Len(gs), None)
  BY DEF Frame, FrameRec
<1>2. [FrameRec(fn, todo, onErr, Len(gs), None) EXCEPT !.keep = k]
        = FrameRec(fn, todo, onErr, k, None)
  BY SMT DEF FrameRec
<1>3. [FrameRec(fn, todo, onErr, Len(gs), None) EXCEPT !.form = x]
        = FrameRec(fn, todo, onErr, Len(gs), x)
  BY SMT DEF FrameRec
<1>4. [FrameRec(fn, todo, onErr, Len(gs), x) EXCEPT !.keep = k]
        = FrameRec(fn, todo, onErr, k, x)
  BY SMT DEF FrameRec
<1>5. FrameBoth(fn, todo, onErr, k, x)
        = [[Frame(fn, todo, onErr) EXCEPT !.form = x] EXCEPT !.keep = k]
  BY DEF FrameBoth
<1> QED BY <1>1, <1>2, <1>3, <1>4, <1>5 DEF FrameKeeping, FrameFor

LEMMA InnerWords ==
  ASSUME NEW fn, fn \notin Outer \cup {"stream", "form"}
  PROVE  /\ StepsOf(fn) = InnerSteps
         /\ \A w \in {"always", "gsave", "contents", "grestore", "down", "draw",
                     "pattern", "cell", "softmask", "unmask", "form", "end mask",
                     "end blend", "clip", "clip text"} : Do(w) \in InnerSteps
         /\ \A w \in {"clip", "group", "tile", "mask"} : Open(w) \in InnerSteps
         /\ \A w \in {"clip", "group", "tile"} : Close(w) \in InnerSteps
BY DEF StepsOf, InnerSteps

LEMMA OuterWords ==
  ASSUME NEW fn \in Outer
  PROVE  /\ StepsOf(fn) = OuterSteps
         /\ \A w \in {"page", "annot", "new", "appearance", "free", "contents",
                     "always", "down"} : Do(w) \in OuterSteps
         /\ Open("group") \in OuterSteps /\ Close("group") \in OuterSteps
BY DEF StepsOf, OuterSteps

LEMMA ThreeWords ==
  ASSUME NEW S, NEW a \in S, NEW b \in S, NEW c \in S
  PROVE  <<a>> \in Seq(S) /\ <<a, b>> \in Seq(S) /\ <<a, b, c>> \in Seq(S)
BY SMT

\* taking the soft mask, or putting it back
Softly(f, m) == [f EXCEPT !.soft = m, !.todo = Tail(@)]
LEMMA SoftFrame ==
  ASSUME NEW f, IsFrame(f), NEW t \in Seq(StepsOf(f.fn)), NEW m
  PROVE  LET g == WithTodo(WithSoft(f, m), t)
         IN  /\ IsFrame(g) /\ g.todo = t /\ g.onErr = f.onErr /\ g.pend = f.pend
             /\ g.fn = f.fn /\ g.form = f.form /\ g.base = f.base /\ g.gbot = f.gbot
<1> DEFINE h == WithSoft(f, m)
<1>1. /\ IsFrame(h) /\ h.todo = f.todo /\ h.onErr = f.onErr /\ h.pend = f.pend
      /\ h.fn = f.fn /\ h.form = f.form /\ h.base = f.base /\ h.gbot = f.gbot
  BY SoftWith
<1> HIDE DEF h
<1>2. t \in Seq(StepsOf(h.fn))
  BY <1>1
<1> DEFINE g == WithTodo(h, t)
<1>3. /\ IsFrame(g) /\ g.todo = t /\ g.onErr = h.onErr /\ g.pend = h.pend
      /\ g.fn = h.fn /\ g.form = h.form /\ g.base = h.base /\ g.gbot = h.gbot
  BY <1>1, <1>2, TodoWith
<1> HIDE DEF g
<1> QED BY <1>1, <1>3 DEF g, h

LEMMA SoftIs ==
  ASSUME NEW f, Shaped(f), f.todo # << >>, f.fn # "stream", NEW m,
         f.fn = "form" => f.todo[1][1] \in {"softmask", "unmask"}
  PROVE  LET g == Softly(f, m)
         IN  /\ Shaped(g) /\ SameCall(f, g) /\ (Marks(g) <=> Marks(f))
             /\ f.fn = "form" /\ f.todo[1][1] = "unmask" => ~Marks(g)
             /\ f.fn = "form" => (f.todo[1][1] = "softmask" => Waits(g))
             /\ f.fn # "form" => Waits(g)
<1> DEFINE g == Softly(f, m)
<1>1. PICK t : t = Tail(f.todo)
  OBVIOUS
<1>2. IsFrame(f) /\ t \in Seq(StepsOf(f.fn))
  BY <1>1, StepIn DEF Shaped
<1>3. g = WithTodo(WithSoft(f, m), t)
  BY <1>1 DEF WithSoft, WithTodo, Softly
<1> HIDE DEF g
<1>4. /\ IsFrame(g) /\ g.todo = Tail(f.todo) /\ g.onErr = f.onErr /\ g.pend = f.pend
      /\ g.fn = f.fn /\ g.form = f.form /\ g.base = f.base /\ g.gbot = f.gbot
  BY <1>1, <1>2, <1>3, SoftFrame
<1>5. f.fn = "form" => f.todo[1][1] \notin {"always", "leave form"}
  OBVIOUS
<1> QED BY <1>4, <1>5, ShorterIs DEF g

LEMMA BeginSoftmaskKeeps == IInv /\ BeginSoftmask => Holds
<1> SUFFICES ASSUME IInv, BeginSoftmask
             PROVE  Holds
  OBVIOUS
<1>1. Going /\ Here.todo[1][1] = "softmask" /\ Shaped(Here) /\ Here.fn # "stream"
  BY NextIs, Ready, StepIn, ZenonT(60) DEF BeginSoftmask, Going
<1>2. KeepsCallers(gs')
  BY KeepsState, KeepsGs DEF BeginSoftmask
<1>3. Onward
  BY <1>1, <1>2, CsiIs DEF BeginSoftmask, Onward
<1> DEFINE m == State.soft
           taken == Softly(Here, m)
           steps == <<Open("mask"), Do("form"), Do("end mask")>>
           mask == [Frame("mask", steps, <<Do("end mask")>>) EXCEPT !.form = m]
<1>4. CASE calls' = Past
  BY <1>1, <1>3, <1>4, StepPast
<1>5. CASE calls' = Append(Goes(taken), mask)
  <2>1. /\ Shaped(taken) /\ SameCall(Here, taken) /\ (Marks(taken) <=> Marks(Here))
        /\ Waits(taken)
    <3>1. Here.todo # << >>
      BY <1>1 DEF Going
    <3> QED BY <1>1, <3>1, SoftIs
  <2> HIDE DEF taken
  <2>2. /\ Stacked(Goes(taken), Len(gs'), csi'.gbot, marked) /\ Goes(taken) # << >>
        /\ Goes(taken)[Len(Goes(taken))] = taken
    BY <1>1, <1>3, <2>1, LevelHere, GoOn DEF Onward, Going
  <2>3. "mask" \notin Outer \cup {"stream", "form"}
    BY DEF Outer
  <2>4. steps \in Seq(StepsOf("mask")) /\ <<Do("end mask")>> \in Seq(StepsOf("mask"))
    <3>1. Open("mask") \in InnerSteps /\ Do("form") \in InnerSteps /\ Do("end mask") \in InnerSteps
      BY <2>3, InnerWords
    <3> QED BY <2>3, <3>1, InnerWords, ThreeWords
  <2>5. IsFrame(mask) /\ mask.fn = "mask"
    <3>1. PICK t, o : t = steps /\ o = <<Do("end mask")>>
      OBVIOUS
    <3>2. mask = FrameFor("mask", t, o, m)
      BY <3>1 DEF FrameFor
    <3> HIDE DEF mask
    <3>3. mask = FrameRec("mask", t, o, Len(gs), m)
      BY <3>2, RecWith
    <3>4. t \in Seq(StepsOf("mask")) /\ o \in Seq(StepsOf("mask"))
      BY <2>4, <3>1
    <3> QED BY <3>3, <3>4, RecIs
  <2> HIDE DEF mask
  <2> QED BY <1>3, <1>5, <2>1, <2>2, <2>3, <2>5, StepCalls DEF Onward
<1> QED BY <1>4, <1>5 DEF BeginSoftmask, Softly

LEMMA EndSoftmaskKeeps == IInv /\ EndSoftmask => Holds
<1> SUFFICES ASSUME IInv, EndSoftmask
             PROVE  Holds
  OBVIOUS
<1>0. Going /\ Here.todo[1][1] = "unmask" /\ Shaped(Here) /\ Here.todo # << >>
  BY NextIs, Ready DEF EndSoftmask, Going
<1>1. /\ Going /\ Here.todo[1][1] = "unmask" /\ Shaped(Here) /\ Here.fn # "stream"
      /\ Here.todo # << >>
  BY <1>0, StepIn
<1>2. KeepsCallers(gs')
  BY KeepsState, KeepsGs DEF EndSoftmask
<1>3. Onward
  BY <1>1, <1>2, CsiIs DEF EndSoftmask, Onward
<1> DEFINE put == Softly(Here, None)
<1>4. Shaped(put) /\ SameCall(Here, put) /\ (Marks(put) <=> Marks(Here)) /\ Tosses(put)
  BY <1>1, SoftIs DEF Tosses, Marks, SameCall
<1> HIDE DEF put
<1>5. CASE calls' = Past
  BY <1>1, <1>3, <1>5, StepPast
<1>6. CASE calls' = Goes(put)
  BY <1>3, <1>4, <1>6, StepGoes
<1>7. CASE Throw(Goes(put), "bad")
  BY <1>3, <1>4, <1>7, StepThrow
<1> QED BY <1>5, <1>6, <1>7 DEF EndSoftmask, put, Softly

LEMMA EndBlendKeeps == IInv /\ EndBlend => Holds
<1> SUFFICES ASSUME IInv, EndBlend
             PROVE  Holds
  OBVIOUS
<1>1. Going /\ Here.todo[1][1] = "end blend" /\ Shaped(Here) /\ Here.todo # << >>
  BY NextIs, Ready DEF EndBlend, Going
<1>2. Here.fn \notin Outer \cup {"stream", "form"}
  BY <1>1, StepIn
<1>3. Onward
  BY <1>1, KeepsGs, CsiIs DEF EndBlend, Onward
<1>4. PICK s \in {<<Close("group")>>, << >>} : calls' = Then(s)
  BY DEF EndBlend
<1>5. PICK t : t = s \o Tail(Here.todo)
  OBVIOUS
<1>6. t \in Seq(StepsOf(Here.fn))
  <2>1. Tail(Here.todo) \in Seq(StepsOf(Here.fn))
    BY <1>1, StepIn
  <2>2. s \in Seq(StepsOf(Here.fn))
    BY <1>2, InnerWords, ThreeWords, LenZero
  <2> QED BY <1>5, <2>1, <2>2, ConcatIn
<1> DEFINE g == WithTodo(Here, t)
<1>7. calls' = Goes(g)
  BY <1>4, <1>5 DEF Then, WithTodo
<1>8. IsFrame(g) /\ g.fn = Here.fn /\ g.form = Here.form /\ g.base = Here.base /\ g.gbot = Here.gbot
  BY <1>1, <1>6, TodoWith DEF Shaped
<1> HIDE DEF g
<1>9. Shaped(g) /\ SameCall(Here, g) /\ (Marks(g) <=> Marks(Here))
  BY <1>2, <1>8 DEF Shaped, SameCall, Active, Marks
<1> QED BY <1>3, <1>7, <1>9, StepGoes

\* a call of one who paints, or of a pattern
LEMMA CallsInner ==
  ASSUME IInv, Going, KeepsCallers(gs'), IsCsi', csi'.gbot = csi.gbot, marked' = marked,
         Here.fn \notin {"stream", "form"},
         NEW fn, fn \notin Outer \cup {"stream", "form"},
         NEW todo \in Seq(InnerSteps), NEW onErr \in Seq(InnerSteps), NEW k,
         calls' = Append(Past, FrameRec(fn, todo, onErr, k, None))
  PROVE  Holds
<1>1. Stacked(calls, Len(gs'), csi'.gbot, marked)
  BY LevelHere
<1>2. Stacked(Past, Len(gs'), csi'.gbot, marked) /\ Waits(Past[Len(Past)])
  BY <1>1, PastWaits
<1>3. StepsOf(fn) = InnerSteps
  BY InnerWords
<1>4. PICK g : g = FrameRec(fn, todo, onErr, k, None)
  OBVIOUS
<1>5. IsFrame(g) /\ g.fn = fn
  BY <1>3, <1>4, RecIs
<1> QED BY <1>2, <1>4, <1>5, StepCalls

LEMMA TileIn ==
  /\ TileSteps \o PatternEnd \in Seq(InnerSteps) /\ <<Do("cell")>> \o PatternEnd \in Seq(InnerSteps)
  /\ <<Do("always")>> \in Seq(InnerSteps)
  /\ CellSteps \in Seq(InnerSteps) /\ <<Do("grestore"), Do("down")>> \in Seq(InnerSteps)
<1>1. "pattern" \notin Outer \cup {"stream", "form"}
  BY DEF Outer
<1>2. /\ Do("cell") \in InnerSteps /\ Do("always") \in InnerSteps /\ Do("grestore") \in InnerSteps
      /\ Do("down") \in InnerSteps /\ Do("gsave") \in InnerSteps /\ Do("contents") \in InnerSteps
      /\ Open("tile") \in InnerSteps /\ Close("tile") \in InnerSteps
  BY <1>1, InnerWords
<1>3. PatternEnd \in Seq(InnerSteps)
  BY <1>2, ThreeWords DEF PatternEnd
<1>4. TileSteps \in Seq(InnerSteps)
  BY <1>2, SMT DEF TileSteps
<1>5. CellSteps \in Seq(InnerSteps)
  BY <1>2, SMT DEF CellSteps
<1>6. /\ <<Do("always")>> \in Seq(InnerSteps) /\ <<Do("cell")>> \in Seq(InnerSteps)
      /\ <<Do("grestore"), Do("down")>> \in Seq(InnerSteps)
  BY <1>2, ThreeWords
<1> QED BY <1>3, <1>4, <1>5, <1>6, ConcatIn

LEMMA ShowPatternKeeps == IInv /\ ShowPattern => Holds
<1> SUFFICES ASSUME IInv, ShowPattern
             PROVE  Holds
  OBVIOUS
<1>1. Going /\ Here.todo[1][1] = "pattern" /\ Shaped(Here) /\ Here.todo # << >>
  BY NextIs, Ready DEF ShowPattern, Going
<1>2. Here.fn \notin {"stream", "form"}
  BY <1>1, StepIn
<1>3. KeepsCallers(gs')
  BY KeepsAppend DEF ShowPattern
<1>4. IsCsi' /\ csi'.gbot = csi.gbot /\ marked' = marked
  BY CsiIs DEF ShowPattern
<1>5. PICK steps \in {TileSteps, <<Do("cell")>>} :
        calls' = Calls([Frame("pattern", steps \o PatternEnd, <<Do("always")>>)
                        EXCEPT !.keep = Len(gs) + 1])
  BY DEF ShowPattern
<1>6. PICK t, o : t = steps \o PatternEnd /\ o = <<Do("always")>>
  OBVIOUS
<1>7. t \in Seq(InnerSteps) /\ o \in Seq(InnerSteps)
  BY <1>5, <1>6, TileIn
<1>8. calls' = Append(Past, FrameRec("pattern", t, o, Len(gs) + 1, None))
  <2>1. calls' = Append(Past, FrameKeeping("pattern", t, o, Len(gs) + 1))
    BY <1>5, <1>6 DEF Calls, FrameKeeping
  <2> QED BY <2>1, RecWith
<1>9. "pattern" \notin Outer \cup {"stream", "form"}
  BY DEF Outer
<1> QED BY <1>1, <1>2, <1>3, <1>4, <1>7, <1>8, <1>9, CallsInner

LEMMA ShowCellKeeps == IInv /\ ShowCell => Holds
<1> SUFFICES ASSUME IInv, ShowCell
             PROVE  Holds
  OBVIOUS
<1>1. Going /\ Here.todo[1][1] = "cell" /\ Shaped(Here) /\ Here.todo # << >>
  BY NextIs, Ready DEF ShowCell, Going
<1>2. Here.fn \notin {"stream", "form"}
  BY <1>1, StepIn
<1>3. KeepsCallers(gs') /\ IsCsi' /\ csi'.gbot = csi.gbot /\ marked' = marked
  BY KeepsGs, CsiIs DEF ShowCell
<1>4. PICK t, o : t = CellSteps /\ o = <<Do("grestore"), Do("down")>>
  OBVIOUS
<1>5. t \in Seq(InnerSteps) /\ o \in Seq(InnerSteps)
  BY <1>4, TileIn
<1>6. calls' = Append(Past, FrameRec("cell", t, o, Len(gs), None))
  <2>1. calls' = Append(Past, Frame("cell", t, o))
    BY <1>4 DEF Calls, ShowCell
  <2> QED BY <2>1, RecWith
<1>7. "cell" \notin Outer \cup {"stream", "form"}
  BY DEF Outer
<1> QED BY <1>1, <1>2, <1>3, <1>5, <1>6, <1>7, CallsInner

-----------------------------------------------------------------------------
(* Forms and streams                                                       *)

LEMMA FormStepsIn ==
  ASSUME NEW x
  PROVE  /\ FormSteps(x) \in Before(x) /\ FormSteps(x) \in Seq(FormWords)
         /\ FormEnd(x) \in Seq(FormWords) /\ StepsOf("form") = FormWords
<1> DEFINE B == <<Do("clip"), Do("contents")>>
           P == <<Do("softmask"), Open("group"), Do("reset")>>
<1>1. B \in Seq(FormWords)
  BY FormWordsAre, FewIn
<1>2. << >> \o B = B
  BY <1>1, EmptyConcat
<1>3. B \in FormPrefixes /\ P \o B \in FormPrefixes
  BY DEF FormPrefixes
<1>4. PICK p \in FormPrefixes : FormSteps(x) = p \o FormEnd(x)
  BY <1>2, <1>3 DEF FormSteps
<1>5. p \in Seq(FormWords) /\ FormEnd(x) \in Seq(FormWords)
  BY <1>4, FormTypes
<1>6. StepsOf("form") = FormWords
  BY DEF StepsOf, Outer
<1> QED BY <1>4, <1>5, <1>6, ConcatIn DEF Before

LEMMA RunXobjectKeeps ==
  ASSUME IInv, Going, NEW x, NEW cs, RunXobject(x, cs),
         \A n : Stacked(calls, n, csi.gbot, marked) => Stacked(cs, n, csi.gbot, marked),
         Waits(cs[Len(cs)])
  PROVE  Holds
<1>1. CASE x \in marked
  <2>1. calls' = cs /\ gs' = gs /\ csi' = csi /\ marked' = marked
    BY <1>1 DEF RunXobject
  <2>2. KeepsCallers(gs') /\ IsCsi' /\ csi'.gbot = csi.gbot
    BY <2>1, KeepsGs, CsiIs
  <2>3. Stacked(cs, Len(gs'), csi'.gbot, marked)
    BY <2>2, LevelHere
  <2> QED BY <2>1, <2>2, <2>3, Together
<1>2. CASE x \notin marked
  <2>1. /\ marked' = marked \cup {x}
        /\ csi' = [csi EXCEPT !.gparent = Len(gs)]
        /\ gs' = Append(gs, State)
        /\ calls' = Append(cs, FrameBoth("form", FormSteps(x), FormEnd(x), Len(gs) + 1, x))
    BY <1>2 DEF RunXobject, Gsave, FrameBoth
  <2>2. KeepsCallers(gs') /\ IsCsi' /\ csi'.gbot = csi.gbot
    BY <2>1, KeepsAppend, CsiIs
  <2>3. Stacked(cs, Len(gs'), csi'.gbot, marked)
    BY <2>2, LevelHere
  <2>4. PICK t, o : t = FormSteps(x) /\ o = FormEnd(x)
    OBVIOUS
  <2>5. PICK g : g = FrameRec("form", t, o, Len(gs) + 1, x)
    OBVIOUS
  <2>6. calls' = Append(cs, g)
    BY <2>1, <2>4, <2>5, RecWith
  <2>7. t \in Seq(StepsOf("form")) /\ o \in Seq(StepsOf("form")) /\ t \in Before(x)
    BY <2>4, FormStepsIn
  <2>8. IsFrame(g) /\ g.fn = "form" /\ g.todo = t /\ g.onErr = o /\ g.form = x
    BY <2>5, <2>7, RecIs
  <2>9. Shaped(g) /\ Marks(g) /\ ~Active(g) /\ g.fn \notin Outer
    BY <2>4, <2>7, <2>8, MarkedBefore DEF Shaped, IsForm, Marks, Active, Outer
  <2>10. Stacked(Append(cs, g), Len(gs'), csi'.gbot, marked')
    BY <1>2, <2>1, <2>3, <2>8, <2>9, Push
  <2> QED BY <2>2, <2>6, <2>10, Together
<1> QED BY <1>1, <1>2

LEMMA RunMaskKeeps == IInv /\ RunMask => Holds
<1> SUFFICES ASSUME IInv, RunMask
             PROVE  Holds
  OBVIOUS
<1>1. Going /\ Here.todo[1][1] = "form" /\ Shaped(Here) /\ Here.todo # << >>
  BY NextIs, Ready DEF RunMask, Going
<1>2. Here.fn \notin {"stream", "form"}
  BY <1>1, StepIn
<1>3. \A n : Stacked(calls, n, csi.gbot, marked) => Stacked(Past, n, csi.gbot, marked)
  BY <1>1, <1>2, PastWaits
<1>4. Waits(Past[Len(Past)])
  <2>1. Stacked(calls, Len(gs), csi.gbot, marked)
    BY DEF IInv
  <2> QED BY <1>1, <1>2, <2>1, PastWaits
<1> QED BY <1>1, <1>3, <1>4, RunXobjectKeeps DEF RunMask

LEMMA AppearanceKeeps == IInv /\ Appearance => Holds
<1> SUFFICES ASSUME IInv, Appearance
             PROVE  Holds
  OBVIOUS
<1>1. Going /\ Here.todo[1][1] = "appearance" /\ Shaped(Here) /\ Here.todo # << >>
  BY NextIs, Ready DEF Appearance, Going
<1>2. Here.fn \notin {"stream", "form"}
  BY <1>1, StepIn DEF Outer
<1>3. \A n : Stacked(calls, n, csi.gbot, marked) => Stacked(Past, n, csi.gbot, marked)
  BY <1>1, <1>2, PastWaits
<1>4. Waits(Past[Len(Past)])
  <2>1. Stacked(calls, Len(gs), csi.gbot, marked)
    BY DEF IInv
  <2> QED BY <1>1, <1>2, <2>1, PastWaits
<1> QED BY <1>1, <1>3, <1>4, RunXobjectKeeps DEF Appearance

LEMMA LeaveFormKeeps == IInv /\ LeaveForm => Holds
<1> SUFFICES ASSUME IInv, LeaveForm
             PROVE  Holds
  OBVIOUS
<1>1. Going /\ Here.todo[1][1] = "leave form" /\ Shaped(Here) /\ Here.todo # << >>
  BY NextIs, Ready DEF LeaveForm, Going
<1>2. KeepsCallers(gs') /\ IsCsi' /\ csi'.gbot = csi.gbot
  BY GrestoreKeeps, CsiIs DEF LeaveForm
<1>3. Stacked(calls, Len(gs'), csi'.gbot, marked)
  BY <1>2, LevelHere
<1> DEFINE g == Shorter(Here)
<1>4. /\ Shaped(g) /\ SameCall(Here, g) /\ Here.fn = "form" /\ Marks(Here) /\ ~Marks(g)
  BY <1>1, LeaveIs
<1>5. Past = Replaced(calls, Len(calls), g) /\ calls # << >>
  BY <1>1, PastIs DEF Goes, Replaced, Going
<1>6. marked' = marked \ {g.form}
  BY <1>4 DEF LeaveForm, SameCall
<1> HIDE DEF g
<1>7. Stacked(Past, Len(gs'), csi'.gbot, marked')
  BY <1>3, <1>4, <1>5, <1>6, Advance DEF SameCall, Here
<1> QED BY <1>1, <1>2, <1>7, Together DEF LeaveForm

LEMMA RunContentsKeeps == IInv /\ RunContents => Holds
<1> SUFFICES ASSUME IInv, RunContents
             PROVE  Holds
  OBVIOUS
<1>1. Going /\ Here.todo[1][1] = "contents" /\ Shaped(Here) /\ Here.todo # << >>
  BY NextIs, Ready DEF RunContents, Going
<1>2. Here.fn # "stream"
  BY <1>1, StepIn
<1>3. gs' = gs /\ marked' = marked /\ KeepsCallers(gs') /\ Len(gs) \in Nat
  BY KeepsGs, Ready, <1>1 DEF RunContents, Going
<1>4. ASSUME csi' = [csi EXCEPT !.gbot = Len(gs)],
             calls' = Calls(Frame("stream", StreamSteps, StreamSteps))
      PROVE  Holds
  <2>1. IsCsi' /\ csi'.gbot = Len(gs)
    BY <1>3, <1>4, GbotIs
  <2>2. Stacked(calls, Len(gs), csi.gbot, marked)
    BY DEF IInv
  <2>3. Stacked(calls, Len(gs), Len(gs), marked)
    <3>1. \A i \in 1..Len(calls) : Active(calls[i]) => calls[i].base <= Len(gs)
      BY BaseNat
    <3> QED BY <2>2, <3>1, Level
  <2>4. Stacked(Past, Len(gs), csi.gbot, marked) /\ Waits(Past[Len(Past)])
    BY <1>1, <1>2, <2>2, PastWaits
  <2>5. Stacked(Past, Len(gs), Len(gs), marked)
    BY <1>1, <1>2, <2>3, PastWaits
  <2>6. PICK t, g : t = StreamSteps /\ g = FrameRec("stream", t, t, Len(gs), None)
    OBVIOUS
  <2>7. calls' = Append(Past, g)
    BY <1>4, <2>6, RecWith DEF Calls
  <2>8. t \in Seq(StepsOf("stream"))
    <3>1. StepsOf("stream") = StreamWords
      BY DEF StepsOf, Outer
    <3>2. Do("token") \in StreamWords /\ Do("down") \in StreamWords /\ Do("leave") \in StreamWords
      BY DEF StreamWords
    <3> QED BY <2>6, <3>1, <3>2, ThreeWords DEF StreamSteps
  <2>9. /\ IsFrame(g) /\ g.fn = "stream" /\ g.todo = t /\ g.onErr = t /\ g.pend = "none"
        /\ g.base = Len(gs) /\ g.gbot = csi.gbot
    BY <2>6, <2>8, RecIs
  <2>10. Shaped(g) /\ g.fn # "form" /\ g.fn \notin Outer
    BY <2>6, <2>9 DEF Shaped, IsStream, Outer
  <2>11. \A i \in 1..Len(Past) : Active(Past[i]) => Past[i].base <= g.gbot
    BY <2>4, <2>9 DEF Stacked
  <2>12. Stacked(Append(Past, g), Len(gs), Len(gs), marked)
    BY <1>3, <2>4, <2>5, <2>9, <2>10, <2>11, Push
  <2> QED BY <1>1, <1>3, <2>1, <2>7, <2>12, Together
<1>5. ASSUME NEW e, Throw(Past, e), csi' = csi
      PROVE  Holds
  <2>1. Onward
    BY <1>1, <1>3, <1>5, CsiIs DEF Onward
  <2> QED BY <1>1, <1>2, <1>5, <2>1, StepPastThrow
<1> QED BY <1>4, <1>5 DEF RunContents, Contents

LEMMA LeaveKeeps == IInv /\ Leave => Holds
<1> SUFFICES ASSUME IInv, Leave
             PROVE  Holds
  OBVIOUS
<1>1. Going /\ Here.todo[1][1] = "leave" /\ Shaped(Here) /\ Here.todo # << >>
  BY NextIs, Ready DEF Leave, Going
<1>2. Here.fn = "stream" /\ IsFrame(Here)
  BY <1>1, StepIn DEF Shaped
<1>3. Tail(Here.todo) = << >>
  <2>1. StreamSteps[1] = Do("token") /\ <<Do("down"), Do("leave")>>[1] = Do("down")
    BY Tuples DEF StreamSteps
  <2>2. Here.todo = <<Do("leave")>>
    BY <1>1, <1>2, <2>1, StepNames DEF Shaped, IsStream
  <2> QED BY <2>2, Tuples
<1>4. IsCsi' /\ csi'.gbot = Here.gbot
  BY <1>2, GbotIs DEF Leave, IsFrame
<1>5. gs' = gs /\ marked' = marked /\ calls' = Past /\ KeepsCallers(gs')
  BY KeepsGs DEF Leave
<1>6. Stacked(calls, Len(gs), csi.gbot, marked)
  BY DEF IInv
<1> DEFINE L == Len(calls)
           g == Shorter(Here)
<1>7. Shaped(g) /\ SameCall(Here, g) /\ (Marks(g) <=> Marks(Here))
  BY <1>1, <1>2, ShorterHere
<1>8. g.todo = << >>
  <2>1. PICK t : t = Tail(Here.todo)
    OBVIOUS
  <2>2. t \in Seq(StepsOf(Here.fn)) /\ g = WithTodo(Here, t)
    BY <1>1, <2>1, StepIn DEF Shorter, WithTodo
  <2> HIDE DEF g
  <2> QED BY <1>2, <1>3, <2>1, <2>2, TodoWith
<1> HIDE DEF g
<1>9. Past = Goes(g) /\ Past = Replaced(calls, L, g)
  BY <1>1, PastIs DEF Goes, Replaced, g
<1>10. Stacked(Past, Len(gs), csi.gbot, marked)
  <2>1. calls # << >> /\ Past = Replaced(calls, Len(calls), g)
    BY <1>1, <1>9 DEF Going
  <2> HIDE DEF L
  <2> QED BY <1>6, <1>7, <2>1, Advance DEF SameCall, Here
<1>11. /\ Len(Past) = L /\ Past[L] = g
       /\ \A i \in 1..L : i # L => Past[i] = calls[i]
       /\ L \in Nat /\ L \in 1..L
  <2>1. IsSeq(calls) /\ L \in Nat /\ L \in 1..L
    BY <1>1, Ready DEF Going
  <2>2. Past = Replaced(calls, L, g)
    BY <1>9
  <2> HIDE DEF L
  <2>3. L = Len(calls)
    BY DEF L
  <2> QED BY <2>1, <2>2, <2>3, ReplacedSeq
<1>12. \A i \in 1..L : Active(Past[i]) =>
         Past[i].base <= Len(gs) /\ Past[i].base <= Here.gbot
  <2> SUFFICES ASSUME NEW i \in 1..L, Active(Past[i])
               PROVE  Past[i].base <= Len(gs) /\ Past[i].base <= Here.gbot
    OBVIOUS
  <2>1. i # L
    BY <1>8, <1>11 DEF Active
  <2>2. i < L /\ Past[i] = calls[i]
    BY <1>11, <2>1, LastOrNot
  <2>3. Active(Here)
    BY <1>1, <1>2 DEF Active
  <2> QED BY <1>6, <1>11, <2>2, <2>3 DEF Stacked, Here
<1>13. Stacked(Past, Len(gs), Here.gbot, marked)
  BY <1>10, <1>11, <1>12, Level
<1> QED BY <1>1, <1>4, <1>5, <1>13, Together

-----------------------------------------------------------------------------
(* Pages and annotations                                                   *)

LEMMA OuterIn ==
  ASSUME NEW fn \in Outer
  PROVE  /\ FreeSteps \in Seq(StepsOf(fn)) /\ AnnotSteps \in Seq(StepsOf(fn))
         /\ PageSteps \in Seq(StepsOf(fn))
         /\ <<Open("group")>> \o PageSteps \o <<Close("group")>> \in Seq(StepsOf(fn))
<1> DEFINE S == OuterSteps
<1>1. /\ StepsOf(fn) = S /\ Do("new") \in S /\ Do("appearance") \in S /\ Do("free") \in S
      /\ Do("contents") \in S /\ Do("always") \in S /\ Do("down") \in S
      /\ Open("group") \in S /\ Close("group") \in S
  BY OuterWords
<1> HIDE DEF S
<1>2. FreeSteps \in Seq(S)
  BY <1>1, ThreeWords DEF FreeSteps
<1>3. <<Do("new"), Do("contents")>> \in Seq(S) /\ <<Do("new"), Do("appearance")>> \in Seq(S)
  BY <1>1, ThreeWords
<1>4. PageSteps \in Seq(S) /\ AnnotSteps \in Seq(S)
  BY <1>2, <1>3, ConcatIn DEF PageSteps, AnnotSteps
<1>5. <<Open("group")>> \in Seq(S) /\ <<Close("group")>> \in Seq(S)
  BY <1>1, ThreeWords
<1>6. <<Open("group")>> \o PageSteps \o <<Close("group")>> \in Seq(S)
  BY <1>4, <1>5, ConcatIn
<1> QED BY <1>1, <1>2, <1>4, <1>6

\* a page or an annotation
LEMMA CallsOuter ==
  ASSUME IInv, Going, gs' = gs, csi' = csi, marked' = marked, Here.fn \in Outer,
         NEW fn \in Outer, NEW todo \in Seq(StepsOf(fn)), NEW onErr \in Seq(StepsOf(fn)),
         calls' = Append(Past, FrameRec(fn, todo, onErr, 1, None))
  PROVE  Holds
<1>1. Stacked(calls, Len(gs), csi.gbot, marked) /\ Here.fn \notin {"stream", "form"}
  BY DEF IInv, Outer
<1>2. Stacked(Past, Len(gs), csi.gbot, marked) /\ Waits(Past[Len(Past)])
  BY <1>1, PastWaits
<1>3. KeepsCallers(gs') /\ IsCsi'
  BY KeepsGs, CsiIs
<1>4. \A i \in 1..Len(Past) : Past[i].fn \in Outer
  <2>1. Past[Len(Past)].fn = Here.fn /\ Len(Past) \in Nat /\ Len(Past) \in 1..Len(Past)
    <3>1. Shaped(Here) /\ Here.todo # << >> /\ Past = Goes(Shorter(Here))
      BY PastIs, Ready DEF Going
    <3>2. /\ Shaped(Shorter(Here)) /\ SameCall(Here, Shorter(Here))
          /\ Marks(Shorter(Here)) <=> Marks(Here)
      BY <1>1, <3>1, ShorterHere
    <3>3. Past[Len(Past)] = Shorter(Here) /\ Len(Past) = Len(calls)
      BY <1>1, <3>1, <3>2, GoOn DEF Going
    <3> QED BY <3>2, <3>3, Ready DEF SameCall, Going
  <2>2. \A i \in 1..Len(Past) : i = Len(Past) \/ i < Len(Past)
    BY <2>1, LastOrNot
  <2> QED BY <1>2, <2>1, <2>2 DEF Stacked
<1>5. PICK g : g = FrameRec(fn, todo, onErr, 1, None)
  OBVIOUS
<1>6. IsFrame(g) /\ g.fn = fn /\ g.fn \notin {"stream", "form"}
  BY <1>5, RecIs DEF Outer
<1> QED BY <1>2, <1>3, <1>4, <1>5, <1>6, StepCalls

LEMMA RunPageKeeps == IInv /\ RunPage => Holds
<1> SUFFICES ASSUME IInv, RunPage
             PROVE  Holds
  OBVIOUS
<1>1. Going /\ Here.todo[1][1] = "page" /\ Shaped(Here) /\ Here.todo # << >>
  BY NextIs, Ready DEF RunPage, Going
<1>2. Here.fn \in Outer /\ "page" \in Outer
  BY <1>1, StepIn DEF Outer
<1>3. PICK t \in {PageSteps, <<Open("group")>> \o PageSteps \o <<Close("group")>>} :
        calls' = Calls(FrameKeeping("page", t, FreeSteps, 1))
  BY DEF RunPage, FrameKeeping
<1>4. PICK o : o = FreeSteps
  OBVIOUS
<1>5. t \in Seq(StepsOf("page")) /\ o \in Seq(StepsOf("page"))
  BY <1>2, <1>3, <1>4, OuterIn
<1>6. calls' = Append(Past, FrameRec("page", t, o, 1, None))
  BY <1>3, <1>4, RecWith DEF Calls
<1>7. gs' = gs /\ csi' = csi /\ marked' = marked
  BY DEF RunPage
<1> QED BY <1>1, <1>2, <1>5, <1>6, <1>7, CallsOuter

LEMMA RunAnnotKeeps == IInv /\ RunAnnot => Holds
<1> SUFFICES ASSUME IInv, RunAnnot
             PROVE  Holds
  OBVIOUS
<1>1. Going /\ Here.todo[1][1] = "annot" /\ Shaped(Here) /\ Here.todo # << >>
  BY NextIs, Ready DEF RunAnnot, Going
<1>2. Here.fn \in Outer /\ "annot" \in Outer
  BY <1>1, StepIn DEF Outer
<1>3. PICK t, o : t = AnnotSteps /\ o = FreeSteps
  OBVIOUS
<1>4. t \in Seq(StepsOf("annot")) /\ o \in Seq(StepsOf("annot"))
  BY <1>2, <1>3, OuterIn
<1>5. calls' = Append(Past, FrameRec("annot", t, o, 1, None))
  <2>1. calls' = Append(Past, FrameKeeping("annot", t, o, 1))
    BY <1>3 DEF Calls, FrameKeeping, RunAnnot
  <2> QED BY <2>1, RecWith
<1>6. gs' = gs /\ csi' = csi /\ marked' = marked
  BY DEF RunAnnot
<1> QED BY <1>1, <1>2, <1>4, <1>5, <1>6, CallsOuter

\* pdf_new_csi, pdf_free_csi: no stream is run
LEMMA Afresh ==
  ASSUME IInv, Going, Here.fn \in Outer, IsSeq(gs'), csi' = NewCsi, marked' = marked,
         calls' = Past
  PROVE  Holds
<1>1. KeepsCallers(gs') /\ \A i \in 1..Len(calls) : ~Active(calls[i])
  BY OuterOnly DEF Going
<1>2. IsCsi'
  BY DEF IsCsi, NewCsi
<1>3. Stacked(calls, Len(gs), csi.gbot, marked)
  BY DEF IInv
<1>4. Stacked(calls, Len(gs'), csi'.gbot, marked)
  BY <1>1, <1>3, Level
<1>5. Here.fn \notin {"stream", "form"}
  BY DEF Outer
<1>6. Stacked(Past, Len(gs'), csi'.gbot, marked)
  BY <1>4, <1>5, PastWaits
<1> QED BY <1>1, <1>2, <1>6, Together

LEMMA NewInterpreterKeeps == IInv /\ NewInterpreter => Holds
<1> SUFFICES ASSUME IInv, NewInterpreter
             PROVE  Holds
  OBVIOUS
<1>1. Going /\ Here.todo[1][1] = "new" /\ Shaped(Here) /\ Here.todo # << >>
  BY NextIs, Ready DEF NewInterpreter, Going
<1>2. Here.fn \in Outer
  BY <1>1, StepIn
<1>3. <<NewState, NewState>> \in Seq({NewState})
  BY ThreeWords
<1>4. IsSeq(gs')
  BY <1>3 DEF NewInterpreter, IsSeq
<1> QED BY <1>1, <1>2, <1>4, Afresh DEF NewInterpreter

LEMMA FreeInterpreterKeeps == IInv /\ FreeInterpreter => Holds
<1> SUFFICES ASSUME IInv, FreeInterpreter
             PROVE  Holds
  OBVIOUS
<1>1. Going /\ Here.todo[1][1] = "free" /\ Shaped(Here) /\ Here.todo # << >>
  BY NextIs, Ready DEF FreeInterpreter, Going
<1>2. Here.fn \in Outer
  BY <1>1, StepIn
<1>3. IsSeq(gs')
  BY LenZero DEF FreeInterpreter, IsSeq
<1> QED BY <1>1, <1>2, <1>3, Afresh DEF FreeInterpreter

-----------------------------------------------------------------------------
(* Operators                                                               *)

PaintWords ==
  {Do("clip"), Do("softmask"), Do("draw"), Do("pattern"), Do("end blend"), Do("unmask"),
   Do("clip text"), Open("clip"), Open("group"), Close("clip"), Close("group")}

LEMMA PaintingIn ==
  ASSUME NEW token \in {"n", "f", "sh", "Tj", "image mask"}
  PROVE  Painting(token) \in Seq(PaintWords)
<1>2. /\ Do("draw") \in PaintWords /\ Do("pattern") \in PaintWords /\ Do("softmask") \in PaintWords
      /\ Do("unmask") \in PaintWords /\ Do("end blend") \in PaintWords
      /\ Do("clip text") \in PaintWords
      /\ Open("clip") \in PaintWords /\ Close("clip") \in PaintWords /\ Open("group") \in PaintWords
  BY DEF PaintWords
<1>3. << >> \in Seq(PaintWords)
  BY LenZero
<1>4. Fill \in Seq(PaintWords)
  <2>1. <<Do("draw")>> \in Seq(PaintWords)
    BY <1>2, ThreeWords
  <2>2. <<Open("clip"), Do("draw"), Close("clip")>> \in Seq(PaintWords)
    BY <1>2, ThreeWords
  <2>3. <<Open("clip"), Do("pattern"), Close("clip")>> \in Seq(PaintWords)
    BY <1>2, ThreeWords
  <2> QED BY <2>1, <2>2, <2>3 DEF Fill
<1>5. BlendGroup \in Seq(PaintWords)
  <2>1. <<Open("group")>> \in Seq(PaintWords)
    BY <1>2, ThreeWords
  <2> QED BY <1>3, <2>1 DEF BlendGroup
<1>6. /\ <<Do("softmask")>> \in Seq(PaintWords) /\ <<Do("unmask")>> \in Seq(PaintWords)
      /\ <<Do("end blend")>> \in Seq(PaintWords) /\ <<Do("draw")>> \in Seq(PaintWords)
      /\ <<Open("clip")>> \in Seq(PaintWords)
      /\ <<Close("clip"), Do("end blend")>> \in Seq(PaintWords)
  BY <1>2, ThreeWords
<1>7. ASSUME NEW s \in Seq(PaintWords)
      PROVE  Grouped(s) \in Seq(PaintWords)
  <2>1. (IF State.soft = None THEN << >> ELSE <<Do("softmask")>>) \in Seq(PaintWords)
    BY <1>3, <1>6
  <2>2. (IF State.soft = None THEN << >> ELSE <<Do("unmask")>>) \in Seq(PaintWords)
    BY <1>3, <1>6
  <2>3. (IF State.soft = None THEN << >> ELSE <<Do("softmask")>>) \o BlendGroup \in Seq(PaintWords)
    BY <1>5, <2>1, ConcatIn
  <2>4. (IF State.soft = None THEN << >> ELSE <<Do("softmask")>>) \o BlendGroup \o s
          \in Seq(PaintWords)
    BY <2>3, ConcatIn
  <2>5. (IF State.soft = None THEN << >> ELSE <<Do("softmask")>>) \o BlendGroup \o s
          \o <<Do("end blend")>> \in Seq(PaintWords)
    BY <1>6, <2>4, ConcatIn
  <2> QED BY <2>2, <2>5, ConcatIn DEF Grouped
<1>8. CASE token = "n"
  BY <1>3, <1>8 DEF Painting
<1>9. CASE token = "f"
  BY <1>4, <1>7, <1>9 DEF Painting
<1>10. CASE token = "sh"
  BY <1>6, <1>7, <1>10 DEF Painting
<1>11. CASE token = "Tj"
  <2>1. Append(Fill, Do("clip text")) \in Seq(PaintWords)
    BY <1>2, <1>4, AppendIn
  <2> QED BY <1>7, <1>11, <2>1 DEF Painting
<1>12. CASE token = "image mask"
  <2>1. BlendGroup \o <<Open("clip")>> \in Seq(PaintWords)
    BY <1>5, <1>6, ConcatIn
  <2>2. BlendGroup \o <<Open("clip")>> \o Fill \in Seq(PaintWords)
    BY <1>4, <2>1, ConcatIn
  <2>3. BlendGroup \o <<Open("clip")>> \o Fill \o <<Close("clip"), Do("end blend")>>
          \in Seq(PaintWords)
    BY <1>6, <2>2, ConcatIn
  <2> QED BY <1>12, <2>3 DEF Painting
<1> QED BY <1>8, <1>9, <1>10, <1>11, <1>12

LEMMA Widens ==
  ASSUME NEW A, NEW B, A \subseteq B, NEW t, t \in Seq(A)
  PROVE  t \in Seq(B)
<1>1. Len(t) \in Nat /\ \A i \in 1..Len(t) : t[i] \in B
  BY SMT
<1>2. t = [i \in 1..Len(t) |-> t[i]]
  BY SMT
<1>3. t \in [1..Len(t) -> B]
  BY <1>1, <1>2
<1> QED BY <1>1, <1>3, SMT

LEMMA PaintIn ==
  ASSUME NEW token \in {"n", "f", "sh", "Tj", "image mask"}, NEW t,
         t = (IF csi.clip /\ token \in {"n", "f"} THEN <<Do("clip")>> ELSE << >>)
             \o Painting(token)
  PROVE  t \in Seq(PaintWords) /\ t \in Seq(InnerSteps)
<1>1. Do("clip") \in PaintWords
  BY DEF PaintWords
<1>2. <<Do("clip")>> \in Seq(PaintWords) /\ << >> \in Seq(PaintWords)
  BY <1>1, ThreeWords, LenZero
<1>3. (IF csi.clip /\ token \in {"n", "f"} THEN <<Do("clip")>> ELSE << >>) \in Seq(PaintWords)
  BY <1>2
<1>4. t \in Seq(PaintWords)
  BY <1>3, PaintingIn, ConcatIn
<1>5. PaintWords \subseteq InnerSteps
  BY DEF PaintWords, InnerSteps
<1> QED BY <1>4, <1>5, Widens

\* what is run is a stream
LEMMA ReadsIs ==
  ASSUME IInv, Reads
  PROVE  /\ Going /\ Here.fn = "stream" /\ Here.todo # << >> /\ Shaped(Here)
         /\ Waits(Here) /\ Tosses(Here)
<1>1. Going /\ Here.todo[1][1] = "token" /\ Shaped(Here) /\ Here.todo # << >>
  BY NextIs, Ready DEF Reads, Going
<1>2. Here.fn = "stream"
  BY <1>1, StepIn
<1> QED BY <1>1, <1>2 DEF Waits, Tosses, Marks

LEMMA PaintFrame ==
  ASSUME IInv, NEW fn, NEW t \in Seq(StepsOf(fn)), NEW o \in Seq(StepsOf(fn)),
         NEW g, g = FrameRec(fn, t, o, Len(gs), None)
  PROVE  IsFrame(g) /\ g.fn = fn
BY RecIs

LEMMA Run_PaintKeeps ==
  ASSUME IInv, NEW token \in {"n", "f", "sh", "Tj", "image mask"}, Run_Paint(token)
  PROVE  Holds
<1>1. Going /\ Waits(Here)
  BY ReadsIs DEF Run_Paint, Token
<1>2. KeepsCallers(gs') /\ IsCsi' /\ csi'.gbot = csi.gbot /\ marked' = marked
  BY KeepsGs, CsiIs DEF Run_Paint
<1>3. Stacked(calls, Len(gs'), csi'.gbot, marked)
  BY <1>2, LevelHere
<1>4. token \notin Outer \cup {"stream", "form"}
  BY DEF Outer
<1>5. PICK t, o :
        /\ t = (IF csi.clip /\ token \in {"n", "f"} THEN <<Do("clip")>> ELSE << >>)
               \o Painting(token)
        /\ o = << >>
  OBVIOUS
<1>6. t \in Seq(StepsOf(token)) /\ o \in Seq(StepsOf(token))
  <2>1. StepsOf(token) = InnerSteps
    BY <1>4, InnerWords
  <2> QED BY <1>5, <2>1, PaintIn, LenZero
<1>7. PICK g : g = FrameRec(token, t, o, Len(gs), None)
  OBVIOUS
<1>8. calls' = Append(calls, g)
  <2>1. calls' = Append(calls, Frame(token, t, o))
    BY <1>5 DEF Run_Paint, Paint
  <2> QED BY <1>7, <2>1, RecWith
<1>9. IsFrame(g) /\ g.fn = token
  BY <1>6, <1>7, PaintFrame
<1> QED BY <1>1, <1>2, <1>3, <1>4, <1>8, <1>9, StepCalls DEF Here

LEMMA Run_DoKeeps ==
  ASSUME IInv, NEW x, Run_Do(x)
  PROVE  Holds
<1>1. Going /\ Waits(Here) /\ RunXobject(x, calls)
  BY ReadsIs DEF Run_Do, Token
<1>2. Waits(calls[Len(calls)])
  BY <1>1 DEF Here
<1> QED BY <1>1, <1>2, RunXobjectKeeps

LEMMA LaterKeeps == IInv /\ Later => Holds
<1> SUFFICES ASSUME IInv, Later
             PROVE  Holds
  OBVIOUS
<1>1. Going /\ Tosses(Here) /\ Throw(calls, "later")
  BY ReadsIs DEF Later
<1>2. KeepsCallers(gs') /\ IsCsi' /\ csi'.gbot = csi.gbot /\ marked' = marked
  BY KeepsGs, CsiIs DEF Later
<1>3. Stacked(calls, Len(gs'), csi'.gbot, marked)
  BY <1>2, LevelHere
<1>4. Stacked(calls', Len(gs'), csi'.gbot, marked)
  BY <1>1, <1>3, ThrowKeeps DEF Throw, Here
<1> QED BY <1>1, <1>2, <1>4, Together

LEMMA KeepsTwice ==
  ASSUME IInv, NEW x, NEW y
  PROVE  KeepsCallers(Replaced(Replaced(gs, Len(gs), x), Len(gs), y))
<1>1. IsSeq(gs) /\ Len(gs) \in Nat
  BY SeqLen DEF IInv
<1> DEFINE hs == Replaced(gs, Len(gs), x)
           ks == Replaced(hs, Len(gs), y)
<1>2. /\ IsSeq(hs) /\ Len(hs) = Len(gs)
      /\ \A i \in 1..Len(gs) : i # Len(gs) => hs[i] = gs[i]
  BY <1>1, ReplacedSeq
<1> HIDE DEF hs
<1>3. /\ IsSeq(ks) /\ Len(ks) = Len(gs)
      /\ \A i \in 1..Len(gs) : i # Len(gs) => ks[i] = gs[i]
  BY <1>2, ReplacedSeq
<1> HIDE DEF ks
<1>4. ASSUME NEW b \in Nat, b <= Len(gs)
      PROVE  \A j \in 1..b - 1 : j \in 1..Len(gs) /\ j # Len(gs)
  BY <1>1, <1>4, SMT
<1>5. KeepsCallers(ks)
  BY <1>3, <1>4, BaseNat DEF KeepsCallers
<1> QED BY <1>5 DEF hs, ks

LEMMA SetFillKeeps ==
  ASSUME IInv, NEW kind, SetFill(kind)
  PROVE  Holds
<1>1. Going
  BY ReadsIs DEF SetFill, Token
<1> DEFINE v == IF kind = "colour" THEN 0 ELSE csi.gparent
           hs == [gs EXCEPT ![Len(gs)].fill = kind]
<1>2. gs' = [hs EXCEPT ![Len(gs)].from = v]
  BY DEF SetFill
<1>3. PICK x : hs = Replaced(gs, Len(gs), x)
  BY DEF Replaced
<1>4. PICK y : gs' = Replaced(hs, Len(gs), y)
  <2> HIDE DEF hs
  <2> QED BY <1>2 DEF Replaced
<1>5. KeepsCallers(gs')
  <2> HIDE DEF hs
  <2> QED BY <1>3, <1>4, KeepsTwice
<1>6. Onward /\ calls' = calls
  BY <1>1, <1>5, CsiIs DEF Onward, SetFill
<1> QED BY <1>6, StepStays

LEMMA Run_Keeps ==
  ASSUME IInv, Run_q \/ Run_Q \/ Run_W \/ Run_ET \/ SetBlend \/ \E m : SetSoftmask(m)
  PROVE  Holds
<1>1. Going
  BY ReadsIs DEF Run_q, Run_Q, Run_W, Run_ET, SetBlend, SetSoftmask, Token
<1>2. KeepsCallers(gs')
  <2>1. CASE Run_q
    BY <2>1, KeepsAppend DEF Run_q, Gsave
  <2>2. CASE Run_Q
    BY <2>2, GrestoreKeeps DEF Run_Q
  <2>3. CASE Run_W \/ Run_ET
    BY <2>3, KeepsGs DEF Run_W, Run_ET
  <2>4. CASE SetBlend
    BY <2>4, KeepsState DEF SetBlend
  <2>5. CASE \E m : SetSoftmask(m)
    BY <2>5, KeepsState DEF SetSoftmask
  <2> QED BY <2>1, <2>2, <2>3, <2>4, <2>5
<1>3. IsCsi' /\ csi'.gbot = csi.gbot
  BY CsiIs DEF Run_q, Run_Q, Run_W, Run_ET, SetBlend, SetSoftmask
<1>4. marked' = marked /\ calls' = calls
  BY DEF Run_q, Run_Q, Run_W, Run_ET, SetBlend, SetSoftmask
<1> QED BY <1>1, <1>2, <1>3, <1>4, StepStays DEF Onward

-----------------------------------------------------------------------------
(* The invariant                                                           *)

LEMMA InitHolds == Init => IInv
<1> SUFFICES ASSUME Init
             PROVE  IInv
  OBVIOUS
<1>1. gs = << >> /\ csi = NewCsi /\ marked = {}
  BY DEF Init
<1>2. IsSeq(gs) /\ IsCsi
  BY <1>1, LenZero DEF IsSeq, IsCsi, NewCsi
<1> DEFINE todo == <<Do("page")>> \o [i \in 1..Annots |-> Do("annot")]
           f == Frame("page", todo, << >>)
<1>3. todo \in Seq(OuterSteps)
  <2>1. "page" \in Outer
    BY DEF Outer
  <2>2. Do("page") \in OuterSteps /\ Do("annot") \in OuterSteps
    BY <2>1, OuterWords
  <2>3. [i \in 1..Annots |-> Do("annot")] \in Seq(OuterSteps)
    BY <2>2, RunsAssumption, SMT
  <2>4. <<Do("page")>> \in Seq(OuterSteps)
    BY <2>2, ThreeWords
  <2> QED BY <2>3, <2>4, ConcatIn
<1>4. StepsOf("page") = OuterSteps
  BY OuterWords DEF Outer
<1>5. IsFrame(f) /\ f.fn = "page"
  <2>1. Len(gs) = 0 /\ csi.gbot = 1
    BY <1>1 DEF NewCsi
  <2>2. << >> \in Seq(OuterSteps)
    BY LenZero
  <2>3. PICK t, o : t = todo /\ o = << >>
    OBVIOUS
  <2> HIDE DEF todo
  <2>4. PICK n : n = Len(gs)
    OBVIOUS
  <2>5. f = [fn |-> "page", todo |-> t, onErr |-> o, pend |-> "none",
             base |-> n, keep |-> n, gbot |-> csi.gbot,
             gparent |-> csi.gparent, soft |-> None, form |-> None]
    BY <2>3, <2>4 DEF Frame
  <2> HIDE DEF f
  <2>6. /\ f.fn = "page" /\ f.todo = t /\ f.onErr = o /\ f.pend = "none"
        /\ f.base = n /\ f.keep = n /\ f.gbot = csi.gbot
        /\ f.gparent = csi.gparent /\ f.soft = None /\ f.form = None
    BY <2>5, SMT
  <2>7. f = [fn |-> f.fn, todo |-> f.todo, onErr |-> f.onErr, pend |-> f.pend,
             base |-> f.base, keep |-> f.keep, gbot |-> f.gbot,
             gparent |-> f.gparent, soft |-> f.soft, form |-> f.form]
    BY <2>5, <2>6, Zenon
  <2> QED BY <1>3, <1>4, <2>1, <2>2, <2>3, <2>4, <2>6, <2>7 DEF IsFrame
<1>6. calls = <<f>>
  BY DEF Init
<1> HIDE DEF f
<1>7. Shaped(f) /\ ~Active(f) /\ ~Marks(f)
  BY <1>5 DEF Shaped, Active, Marks
<1>8. IsSeq(calls) /\ Len(calls) = 1 /\ calls[1] = f
  <2>1. <<f>> \in Seq({f})
    BY ThreeWords
  <2>2. Len(<<f>>) = 1 /\ <<f>>[1] = f
    BY SMT
  <2> QED BY <1>6, <2>1, <2>2 DEF IsSeq
<1>9. \A i \in 1..1 : i = 1
  BY SMT
<1>10. 1..1 - 1 = {}
  BY SMT
<1>11. Stacked(calls, Len(gs), csi.gbot, marked)
  BY <1>1, <1>5, <1>7, <1>8, <1>9, <1>10 DEF Stacked
<1> QED BY <1>2, <1>11 DEF IInv

LEMMA StepHolds == IInv /\ [Next]_vars => Holds
<1> SUFFICES ASSUME IInv, [Next]_vars
             PROVE  Holds
  OBVIOUS
<1>1. CASE UNCHANGED vars
  BY <1>1 DEF vars, Holds, IInv, IsCsi, CallersHere
<1>2. CASE Step
  BY <1>2, ReturnKeeps, AlwaysKeeps, OpenBracketKeeps, CloseBracketKeeps, EndMaskKeeps,
     DrawKeeps, GsaveStepKeeps, GrestoreStepKeeps, GrestoreDownKeeps, ClipStepKeeps,
     ClipTextKeeps, BeginSoftmaskKeeps, EndSoftmaskKeeps, EndBlendKeeps, ShowPatternKeeps,
     ShowCellKeeps, RunMaskKeeps, LeaveFormKeeps, ResetKeeps, RunContentsKeeps, LeaveKeeps,
     EndOfStreamKeeps, RunPageKeeps, RunAnnotKeeps, AppearanceKeeps, NewInterpreterKeeps,
     FreeInterpreterKeeps, Zenon DEF Step
<1>3. CASE Operator
  BY <1>3, Run_Keeps, LaterKeeps, SetFillKeeps, Run_PaintKeeps, Run_DoKeeps DEF Operator
<1> QED BY <1>1, <1>2, <1>3 DEF Next

\* The C stack is in order: a form is marked for as long as it has not come to
\* pdf_unmark_obj, a stream is above the states of its caller.
THEOREM StackInOrder == Spec => []IInv
<1>1. IInv /\ [Next]_vars => IInv'
  BY StepHolds DEF Holds
<1> QED BY <1>1, InitHolds, PTL DEF Spec

\* A form is marked for as long as it is run, so that pdf_run_xobject does not
\* run it in itself, whatever the forms, and whatever is thrown.
THEOREM MarksKept == Spec => []MarkedWhileRun
<1>1. IInv => MarkedWhileRun
  <2> SUFFICES ASSUME IInv
               PROVE  MarkedWhileRun
    OBVIOUS
  <2>1. Stacked(calls, Len(gs), csi.gbot, marked) /\ IsSeq(calls)
    BY DEF IInv, Stacked
  <2>2. DOMAIN calls = 1..Len(calls) /\ (calls = << >> => Len(calls) = 0)
    BY <2>1, SeqLen
  <2>3. 1..0 = {}
    BY SMT
  <2>4. calls = << >> => marked = {}
    BY <2>1, <2>2, <2>3 DEF Stacked
  <2> QED BY <2>1, <2>2, <2>4 DEF Stacked, MarkedWhileRun
<1> QED BY <1>1, StackInOrder, PTL

\* What a stream does to the states its caller has saved is nothing, however
\* its operators are nested and whatever is thrown.
THEOREM StreamsKeepCallers == Spec => CallersKept
<1>1. IInv /\ [Next]_vars =>
        [\A i \in DOMAIN calls \cap DOMAIN calls' :
           calls[i].fn = "stream" /\ calls'[i].fn = "stream"
             => SubSeq(gs', 1, calls[i].base - 1) = SubSeq(gs, 1, calls[i].base - 1)]_vars
  BY StepHolds DEF Holds, CallersHere
<1> QED BY <1>1, StackInOrder, PTL DEF Spec, CallersKept

-----------------------------------------------------------------------------
(* The fields of frames                                                    *)

IsRec(f) ==
  f = [fn |-> f.fn, todo |-> f.todo, onErr |-> f.onErr, pend |-> f.pend,
       base |-> f.base, keep |-> f.keep, gbot |-> f.gbot,
       gparent |-> f.gparent, soft |-> f.soft, form |-> f.form]
\* the fields that a call never changes
Kin(f, g) ==
  /\ g.fn = f.fn /\ g.base = f.base /\ g.keep = f.keep /\ g.gbot = f.gbot
  /\ g.gparent = f.gparent /\ g.form = f.form

LEMMA OfFields ==
  ASSUME NEW f, NEW t, NEW o, NEW e, NEW m, NEW g, g = FrameOf(f, t, o, e, m)
  PROVE  /\ IsRec(g) /\ Kin(f, g)
         /\ g.todo = t /\ g.onErr = o /\ g.pend = e /\ g.soft = m
<1>1. /\ g.fn = f.fn /\ g.base = f.base /\ g.keep = f.keep /\ g.gbot = f.gbot
      /\ g.gparent = f.gparent /\ g.form = f.form
      /\ g.todo = t /\ g.onErr = o /\ g.pend = e /\ g.soft = m
  BY SMT DEF FrameOf
<1>2. g = [fn |-> g.fn, todo |-> g.todo, onErr |-> g.onErr, pend |-> g.pend,
           base |-> g.base, keep |-> g.keep, gbot |-> g.gbot,
           gparent |-> g.gparent, soft |-> g.soft, form |-> g.form]
  BY <1>1, Zenon DEF FrameOf
<1> QED BY <1>1, <1>2, Zenon DEF IsRec, Kin

LEMMA TodoFields ==
  ASSUME NEW f, IsRec(f), NEW t
  PROVE  WithTodo(f, t) = FrameOf(f, t, f.onErr, f.pend, f.soft)
<1>1. [[fn |-> f.fn, todo |-> f.todo, onErr |-> f.onErr, pend |-> f.pend,
        base |-> f.base, keep |-> f.keep, gbot |-> f.gbot,
        gparent |-> f.gparent, soft |-> f.soft, form |-> f.form] EXCEPT !.todo = t]
        = FrameOf(f, t, f.onErr, f.pend, f.soft)
  BY SMT DEF FrameOf
<1> QED BY <1>1, Zenon DEF IsRec, WithTodo

LEMMA OnErrFields ==
  ASSUME NEW f, IsRec(f), NEW o
  PROVE  WithOnErr(f, o) = FrameOf(f, f.todo, o, f.pend, f.soft)
<1>1. [[fn |-> f.fn, todo |-> f.todo, onErr |-> f.onErr, pend |-> f.pend,
        base |-> f.base, keep |-> f.keep, gbot |-> f.gbot,
        gparent |-> f.gparent, soft |-> f.soft, form |-> f.form] EXCEPT !.onErr = o]
        = FrameOf(f, f.todo, o, f.pend, f.soft)
  BY SMT DEF FrameOf
<1> QED BY <1>1, Zenon DEF IsRec, WithOnErr

LEMMA PendFields ==
  ASSUME NEW f, IsRec(f), NEW e
  PROVE  WithPend(f, e) = FrameOf(f, f.todo, f.onErr, e, f.soft)
<1>1. [[fn |-> f.fn, todo |-> f.todo, onErr |-> f.onErr, pend |-> f.pend,
        base |-> f.base, keep |-> f.keep, gbot |-> f.gbot,
        gparent |-> f.gparent, soft |-> f.soft, form |-> f.form] EXCEPT !.pend = e]
        = FrameOf(f, f.todo, f.onErr, e, f.soft)
  BY SMT DEF FrameOf
<1> QED BY <1>1, Zenon DEF IsRec, WithPend

LEMMA SoftFields ==
  ASSUME NEW f, IsRec(f), NEW m
  PROVE  WithSoft(f, m) = FrameOf(f, f.todo, f.onErr, f.pend, m)
<1>1. [[fn |-> f.fn, todo |-> f.todo, onErr |-> f.onErr, pend |-> f.pend,
        base |-> f.base, keep |-> f.keep, gbot |-> f.gbot,
        gparent |-> f.gparent, soft |-> f.soft, form |-> f.form] EXCEPT !.soft = m]
        = FrameOf(f, f.todo, f.onErr, f.pend, m)
  BY SMT DEF FrameOf
<1> QED BY <1>1, Zenon DEF IsRec, WithSoft

\* the frame after a step, without the step; with another soft mask; in fz_always
LEMMA StepFields ==
  ASSUME NEW f, IsRec(f), NEW t, NEW m
  PROVE  /\ LET g == WithTodo(f, t)
            IN  /\ IsRec(g) /\ Kin(f, g)
                /\ g.todo = t /\ g.onErr = f.onErr /\ g.pend = f.pend /\ g.soft = f.soft
         /\ LET g == WithTodo(WithSoft(f, m), t)
            IN  /\ IsRec(g) /\ Kin(f, g)
                /\ g.todo = t /\ g.onErr = f.onErr /\ g.pend = f.pend /\ g.soft = m
         /\ \A o : LET g == WithTodo(WithOnErr(f, o), t)
                   IN  /\ IsRec(g) /\ Kin(f, g)
                       /\ g.todo = t /\ g.onErr = o /\ g.pend = f.pend /\ g.soft = f.soft
<1>1. LET g == WithTodo(f, t)
      IN  /\ IsRec(g) /\ Kin(f, g)
          /\ g.todo = t /\ g.onErr = f.onErr /\ g.pend = f.pend /\ g.soft = f.soft
  BY TodoFields, OfFields
<1>2. ASSUME NEW h, IsRec(h), Kin(f, h), h.pend = f.pend
      PROVE  LET g == WithTodo(h, t)
             IN  /\ IsRec(g) /\ Kin(f, g)
                 /\ g.todo = t /\ g.onErr = h.onErr /\ g.pend = f.pend /\ g.soft = h.soft
  <2> DEFINE g == WithTodo(h, t)
  <2>1. /\ IsRec(g) /\ Kin(h, g)
        /\ g.todo = t /\ g.onErr = h.onErr /\ g.pend = h.pend /\ g.soft = h.soft
    BY <1>2, TodoFields, OfFields
  <2> HIDE DEF g
  <2>2. Kin(f, g)
    BY <1>2, <2>1, Zenon DEF Kin
  <2> QED BY <1>2, <2>1, <2>2 DEF g
<1>3. LET g == WithTodo(WithSoft(f, m), t)
      IN  /\ IsRec(g) /\ Kin(f, g)
          /\ g.todo = t /\ g.onErr = f.onErr /\ g.pend = f.pend /\ g.soft = m
  <2> DEFINE h == WithSoft(f, m)
  <2>1. IsRec(h) /\ Kin(f, h) /\ h.pend = f.pend /\ h.onErr = f.onErr /\ h.soft = m
    BY SoftFields, OfFields
  <2> HIDE DEF h
  <2>2. LET g == WithTodo(h, t)
        IN  /\ IsRec(g) /\ Kin(f, g)
            /\ g.todo = t /\ g.onErr = h.onErr /\ g.pend = f.pend /\ g.soft = h.soft
    BY <1>2, <2>1
  <2> QED BY <2>1, <2>2 DEF h
<1>4. ASSUME NEW o
      PROVE  LET g == WithTodo(WithOnErr(f, o), t)
             IN  /\ IsRec(g) /\ Kin(f, g)
                 /\ g.todo = t /\ g.onErr = o /\ g.pend = f.pend /\ g.soft = f.soft
  <2> DEFINE h == WithOnErr(f, o)
  <2>1. IsRec(h) /\ Kin(f, h) /\ h.pend = f.pend /\ h.onErr = o /\ h.soft = f.soft
    BY OnErrFields, OfFields
  <2> HIDE DEF h
  <2>2. LET g == WithTodo(h, t)
        IN  /\ IsRec(g) /\ Kin(f, g)
            /\ g.todo = t /\ g.onErr = h.onErr /\ g.pend = f.pend /\ g.soft = h.soft
    BY <1>2, <2>1
  <2> QED BY <2>1, <2>2 DEF h
<1> QED BY <1>1, <1>3, <1>4

\* fz_catch
LEMMA CaughtFields ==
  ASSUME NEW f, IsRec(f), NEW e, NEW g, g = Caught(f, e)
  PROVE  /\ IsRec(g) /\ Kin(f, g) /\ g.todo = f.onErr /\ g.soft = f.soft
         /\ f.fn \in {"stream", "mask"} => g.onErr = f.onErr /\ g.pend = f.pend
         /\ f.fn \notin {"stream", "mask"} => g.onErr = << >> /\ g.pend = e
<1>1. CASE f.fn \in {"stream", "mask"}
  <2>1. g = WithTodo(f, f.onErr)
    BY <1>1 DEF Caught, WithTodo
  <2> QED BY <1>1, <2>1, StepFields, SMTT(40)
<1>2. CASE f.fn \notin {"stream", "mask"}
  <2>0. PICK o : o = << >>
    OBVIOUS
  <2> DEFINE h == WithOnErr(f, o)
             k == WithTodo(h, f.onErr)
  <2>1. g = WithPend(WithOnErr(WithTodo(f, f.onErr), o), e)
    BY <1>2, <2>0 DEF Caught, WithTodo, WithOnErr, WithPend
  <2> DEFINE h1 == WithTodo(f, f.onErr)
             h2 == WithOnErr(h1, o)
  <2>2. IsRec(h1) /\ Kin(f, h1) /\ h1.todo = f.onErr /\ h1.soft = f.soft
    BY StepFields
  <2> HIDE DEF h1
  <2>3. IsRec(h2) /\ Kin(h1, h2) /\ h2.todo = h1.todo /\ h2.onErr = o /\ h2.soft = h1.soft
    BY <2>2, OnErrFields, OfFields
  <2> HIDE DEF h2
  <2>4. /\ IsRec(g) /\ Kin(h2, g) /\ g.todo = h2.todo /\ g.onErr = h2.onErr /\ g.pend = e
        /\ g.soft = h2.soft
    BY <2>1, <2>3, PendFields, OfFields DEF h2, h1
  <2>5. Kin(f, g)
    BY <2>2, <2>3, <2>4, Zenon DEF Kin
  <2> QED BY <1>2, <2>0, <2>2, <2>3, <2>4, <2>5
<1> QED BY <1>1, <1>2

\* a new frame
LEMMA NewFields ==
  ASSUME NEW fn, NEW todo, NEW onErr, NEW k, NEW x, NEW g, g = FrameRec(fn, todo, onErr, k, x)
  PROVE  /\ IsRec(g) /\ g.fn = fn /\ g.todo = todo /\ g.onErr = onErr /\ g.pend = "none"
         /\ g.base = Len(gs) /\ g.keep = k /\ g.gbot = csi.gbot
         /\ g.gparent = csi.gparent /\ g.soft = None /\ g.form = x
<1>1. /\ g.fn = fn /\ g.todo = todo /\ g.onErr = onErr /\ g.pend = "none"
      /\ g.base = Len(gs) /\ g.keep = k /\ g.gbot = csi.gbot
      /\ g.gparent = csi.gparent /\ g.soft = None /\ g.form = x
  BY SMT DEF FrameRec
<1>2. g = [fn |-> g.fn, todo |-> g.todo, onErr |-> g.onErr, pend |-> g.pend,
           base |-> g.base, keep |-> g.keep, gbot |-> g.gbot,
           gparent |-> g.gparent, soft |-> g.soft, form |-> g.form]
  BY <1>1, Zenon DEF FrameRec
<1> QED BY <1>1, <1>2, Zenon DEF IsRec

\* what is left of the C stack when an exception has been caught
LEMMA UnwoundIs ==
  ASSUME NEW fs, IsSeq(fs), NEW e
  PROVE  \/ Unwound(fs, e) = << >>
         \/ \E k \in 1..Len(fs) :
              /\ Stops(fs[k], e) /\ \A i \in k + 1..Len(fs) : ~Stops(fs[i], e)
              /\ IsSeq(Unwound(fs, e)) /\ Len(Unwound(fs, e)) = k /\ Unwound(fs, e) # << >>
              /\ Unwound(fs, e)[k] = Caught(fs[k], e)
              /\ \A i \in 1..k - 1 : Unwound(fs, e)[i] = fs[i]
<1> DEFINE L == Len(fs)
           stops == {i \in DOMAIN fs : Stops(fs[i], e)}
<1>1. L \in Nat /\ DOMAIN fs = 1..L
  BY SeqLen
<1>2. CASE stops = {}
  BY <1>2 DEF Unwound
<1>3. CASE stops # {}
  <2> DEFINE m == Max(stops)
             hs == SubSeq(fs, 1, m)
  <2>1. m \in stops /\ \A i \in stops : i <= m
    BY <1>1, <1>3, MaxIs
  <2>2. /\ m \in 1..L /\ m \in 0..L /\ \A i \in m + 1..L : i \in 1..L /\ ~(i <= m)
        /\ m # 0 /\ \A i \in 1..m - 1 : i \in 1..m /\ i # m
        /\ m \in 1..m
    <3>1. m \in 1..L
      BY <1>1, <2>1
    <3> HIDE DEF m, L
    <3> QED BY <1>1, <3>1, SMT
  <2>3. \A i \in m + 1..L : ~Stops(fs[i], e)
    BY <1>1, <2>1, <2>2
  <2>4. IsSeq(hs) /\ Len(hs) = m /\ hs[m] = fs[m] /\ \A i \in 1..m - 1 : hs[i] = fs[i]
    BY <2>2, PrefixSeq
  <2>5. Unwound(fs, e) = Replaced(hs, m, Caught(fs[m], e))
    BY <1>3, <2>4 DEF Unwound, Replaced
  <2>6. Stops(fs[m], e)
    BY <2>1
  <2> HIDE DEF m, hs
  <2>7. /\ IsSeq(Unwound(fs, e)) /\ Len(Unwound(fs, e)) = m
        /\ Unwound(fs, e)[m] = Caught(fs[m], e)
        /\ \A i \in 1..m - 1 : Unwound(fs, e)[i] = fs[i]
    BY <2>2, <2>4, <2>5, ReplacedSeq
  <2>8. Unwound(fs, e) # << >>
    BY <2>2, <2>7, SeqLen
  <2> QED BY <2>2, <2>3, <2>6, <2>7, <2>8
<1> QED BY <1>2, <1>3

-----------------------------------------------------------------------------
(* How many states there are while a call is at a step                     *)

\* With annotations and pages, and between them, there is an interpreter for as
\* long as one of these is next.
RunWords == {"contents", "appearance", "always", "down", "free"}
Ended(s) == {s, s \o <<Close("group")>>}
BaseTodos == Seq({Do("page"), Do("annot")})
Fresh == Ended(PageSteps)
         \cup {<<Open("group")>> \o PageSteps \o <<Close("group")>>, AnnotSteps}
Running == Ended(<<Do("contents")>> \o FreeSteps) \cup {<<Do("appearance")>> \o FreeSteps}
           \cup Ended(FreeSteps)
Freeing == Ended(<<Do("down"), Do("free")>>) \cup Ended(<<Do("free")>>)
OuterAt(t, o, k) ==
  \/ t \in BaseTodos /\ o = << >>
  \/ k = 1 /\ t \in Fresh /\ o = FreeSteps
  \/ k = 1 /\ t \in Running /\ o \in {FreeSteps, << >>}
  \/ k = 1 /\ t \in Freeing \cup Ended(<< >>) /\ o = << >>
NeedsAt(fn, t) == fn \notin Outer \/ (t # << >> /\ t[1][1] \in RunWords)

\* A call has run as many pdf_gsave as pdf_grestore at its end, and only while
\* it is in a stream can there be more states than it says itself.
StreamAt(f, t, o, e, n, gb, gp) ==
  /\ t \in {StreamSteps, <<Do("down"), Do("leave")>>, <<Do("leave")>>, << >>}
  /\ o = StreamSteps /\ e = "none"
  /\ f.keep = f.base /\ gp = f.gparent /\ n >= f.base
  /\ t \in {<<Do("leave")>>, << >>} => n = f.base
  /\ gb = IF t = << >> THEN f.gbot ELSE f.base
FormAt(f, t, o, e, n, gb, gp) ==
  /\ f.keep = f.base + 1 /\ gb = f.gbot
  /\ \/ /\ t \in Before(f.form) /\ t # FormEnd(f.form) /\ o = FormEnd(f.form)
        /\ n = f.base + 1 /\ gp = f.base
     \/ /\ t = FormEnd(f.form) /\ o \in {FormEnd(f.form), << >>}
        /\ n >= f.base + 1 /\ gp = f.base
     \/ /\ t = <<Do("down"), Do("leave form")>> \o Unmasks(f.form) /\ o = << >>
        /\ n >= f.base + 1 /\ gp = f.gparent
     \/ /\ t = <<Do("leave form")>> \o Unmasks(f.form) /\ o = << >>
        /\ n = f.base + 1 /\ gp = f.gparent
     \/ t \in Unmarked /\ o = << >> /\ n = f.base /\ gp = f.gparent
TileUp == {<<Do("contents"), Do("grestore"), Do("down"), Close("tile")>> \o PatternEnd,
           <<Do("grestore"), Do("down"), Close("tile")>> \o PatternEnd}
TileFlat == {TileSteps \o PatternEnd,
             <<Do("gsave"), Do("contents"), Do("grestore"), Do("down"), Close("tile")>>
               \o PatternEnd,
             <<Do("down"), Close("tile")>> \o PatternEnd, <<Close("tile")>> \o PatternEnd,
             <<Do("cell")>> \o PatternEnd, PatternEnd}
PatternAt(f, t, o, e, n, gb, gp) ==
  /\ f.keep = f.base + 1 /\ gb = f.gbot
  /\ \/ /\ e = "none" /\ o = <<Do("always")>> /\ gp = f.base
        /\ (t \in TileUp /\ n = f.base + 2) \/ (t \in TileFlat /\ n = f.base + 1)
     \/ /\ e # "none" /\ o = << >> /\ t = <<Do("always")>> /\ n >= f.base + 1
        /\ gp = f.base
     \/ /\ e = "none" /\ o = << >> /\ t = <<Do("grestore")>> /\ n = f.base + 1
        /\ gp = f.gparent
     \/ e = "none" /\ o = << >> /\ t = << >> /\ n = f.base /\ gp = f.gparent
     \/ e # "none" /\ o = << >> /\ t = << >> /\ n >= f.base + 1 /\ gp = f.gparent
CellUp == {<<Do("contents"), Do("grestore"), Do("down")>>, <<Do("grestore"), Do("down")>>}
CellFlat == {CellSteps, <<Do("down")>>, << >>}
CellAt(f, t, o, e, n, gb, gp) ==
  /\ f.keep = f.base /\ gb = f.gbot /\ gp = f.gparent
  /\ \/ e = "none" /\ o = <<Do("grestore"), Do("down")>>
     \/ e # "none" /\ o = << >>
  /\ (t \in CellUp /\ n = f.base + 1) \/ (t \in CellFlat /\ n = f.base)
PaintAt(f, t, o, e, n, gb, gp) ==
  /\ gb = f.gbot /\ gp = f.gparent /\ n = f.base
  /\ t \in Seq(PaintWords) /\ o = << >> /\ e = "none"
MaskTodos == {<<Open("mask"), Do("form"), Do("end mask")>>, <<Do("form"), Do("end mask")>>,
              <<Do("end mask")>>, << >>}
MaskAt(f, t, o, e, n, gb, gp) ==
  /\ gb = f.gbot /\ gp = f.gparent /\ n = f.base
  /\ t \in MaskTodos /\ o = <<Do("end mask")>> /\ e = "none"
PageAt(f, gb, gp) == f.base = 0 /\ f.gbot = 1 /\ f.gparent = 1 /\ gb = 1 /\ gp = 1
Named == {"stream", "form", "pattern", "cell", "mask"}
StrongAt(f, t, o, e, n, gb, gp) ==
  /\ f.fn \in Outer => PageAt(f, gb, gp)
  /\ f.fn \notin Outer => f.gbot <= f.base /\ f.gparent <= f.base
  /\ f.fn = "stream" => StreamAt(f, t, o, e, n, gb, gp)
  /\ f.fn = "form" => FormAt(f, t, o, e, n, gb, gp)
  /\ f.fn = "pattern" => PatternAt(f, t, o, e, n, gb, gp)
  /\ f.fn = "cell" => CellAt(f, t, o, e, n, gb, gp)
  /\ f.fn = "mask" => MaskAt(f, t, o, e, n, gb, gp)
  /\ f.fn \notin Outer \cup Named => PaintAt(f, t, o, e, n, gb, gp)

\* Nothing that is missing passes a stream: there is nothing missing, or the
\* cookie says that a rendering may be incomplete.
Patient == "later" \in Faults => Cookies = {"lenient"}

\* a call, as it would be with the steps t, at a number of states, gbot and gparent
WeakAt(f, t, o, e, n, gb) ==
  /\ f.keep \in Nat /\ f.gparent \in Nat /\ f.base \in Nat /\ f.gbot \in Nat
  /\ gb >= 1 /\ f.gbot >= 1 /\ (e = "later" => "later" \in Faults)
  /\ f.fn \in Outer => OuterAt(t, o, f.keep) /\ f.base = 0
  /\ f.fn \notin Outer => f.base >= 1
  /\ NeedsAt(f.fn, t) <=> (n >= 1)
LevelAt(f, t, o, e, n, gb, gp) ==
  WeakAt(f, t, o, e, n, gb) /\ (Patient => StrongAt(f, t, o, e, n, gb, gp))
At(f, n, gb, gp) == LevelAt(f, f.todo, f.onErr, f.pend, n, gb, gp)

\* a call and the one it waits for
Between(f, g) ==
  /\ f.fn \in Outer /\ g.fn \in Outer => f.onErr = << >>
  /\ Patient => /\ f.fn = "mask" => g.fn = "form"
                /\ f.fn = "cell" => g.fn = "stream"
                /\ f.onErr = << >> => g.gparent = f.gparent
Levelled(fs, n, gb, gp) ==
  /\ \A i \in 1..Len(fs) - 1 :
       At(fs[i], fs[i + 1].base, fs[i + 1].gbot, fs[i + 1].gparent) /\ Between(fs[i], fs[i + 1])
  /\ fs # << >> => At(fs[Len(fs)], n, gb, gp)

\* steps that leave the states, gbot and gparent as they are, and the others
Still == {"open", "close", "end mask", "draw", "clip", "clip text", "softmask", "unmask",
          "pattern", "cell", "form", "reset", "contents", "page", "annot", "appearance",
          "token", "end blend"}
Restored(n, gb) == IF n <= gb THEN n ELSE n - 1
After(f, n, gb, gp, t, o, n2, gb2, gp2) ==
  LET w == f.todo[1][1]
      r == Tail(f.todo)
      same == o = f.onErr /\ gb2 = gb /\ gp2 = gp
  IN  \/ w \in Still /\ t = r /\ n2 = n /\ same
      \/ w = "end blend" /\ t = <<Close("group")>> \o r /\ n2 = n /\ same
      \/ w = "gsave" /\ t = r /\ n2 = n + 1 /\ same
      \/ w \in {"grestore", "leave form"} /\ t = r /\ n2 = Restored(n, gb) /\ same
      \/ w = "down" /\ n > f.keep /\ t = f.todo /\ n2 = Restored(n, gb) /\ same
      \/ w = "down" /\ ~(n > f.keep) /\ t = r /\ n2 = n /\ same
      \/ w = "token" /\ t = f.todo /\ n2 \in {n, n + 1, Restored(n, gb)} /\ same
      \/ w = "always" /\ t = r /\ o = << >> /\ n2 = n /\ gb2 = gb /\ gp2 = f.gparent
      \/ w = "leave" /\ t = r /\ o = f.onErr /\ n2 = n /\ gb2 = f.gbot /\ gp2 = gp
      \/ w = "new" /\ t = r /\ o = f.onErr /\ n2 = 2 /\ gb2 = 1 /\ gp2 = 1
      \/ w = "free" /\ t = r /\ o = f.onErr /\ n2 = 0 /\ gb2 = 1 /\ gp2 = 1

-----------------------------------------------------------------------------
(* The steps of a call in order                                            *)

LEMMA SixTuples ==
  ASSUME NEW a, NEW b, NEW c, NEW d, NEW e, NEW f
  PROVE  /\ <<a, b, c, d>> # << >> /\ <<a, b, c, d>>[1] = a
         /\ Tail(<<a, b, c, d>>) = <<b, c, d>>
         /\ <<a, b, c, d, e>> # << >> /\ <<a, b, c, d, e>>[1] = a
         /\ Tail(<<a, b, c, d, e>>) = <<b, c, d, e>>
         /\ <<a, b, c, d, e, f>> # << >> /\ <<a, b, c, d, e, f>>[1] = a
         /\ Tail(<<a, b, c, d, e, f>>) = <<b, c, d, e, f>>
BY SMT

LEMMA SixIn ==
  ASSUME NEW S, NEW a \in S, NEW b \in S, NEW c \in S, NEW d \in S, NEW e \in S, NEW f \in S
  PROVE  /\ <<a, b, c, d>> \in Seq(S) /\ <<a, b, c, d, e>> \in Seq(S)
         /\ <<a, b, c, d, e, f>> \in Seq(S)
BY SMT

\* a tile or a cell, from pdf_gsave to pdf_grestore, and around them
LEMMA UpNext ==
  ASSUME NEW t \in TileUp
  PROVE  /\ t # << >>
         /\ \/ t[1][1] = "contents" /\ Tail(t) \in TileUp
            \/ t[1][1] = "grestore" /\ Tail(t) \in TileFlat
<1> DEFINE C == Do("contents")
           R == Do("grestore")
           D == Do("down")
           X == Close("tile")
           A == Do("always")
           E == PatternEnd
<1>1. C \in InnerSteps /\ R \in InnerSteps /\ D \in InnerSteps /\ X \in InnerSteps /\ A \in InnerSteps
  BY DEF InnerSteps
<1>2. C[1] = "contents" /\ R[1] = "grestore"
  BY StepNames
<1>3. E = <<A, R>>
  BY DEF PatternEnd
<1>4. TileUp = {<<C, R, D, X>> \o E, <<R, D, X>> \o E} /\ <<D, X>> \o E \in TileFlat
  BY DEF TileUp, TileFlat
<1> HIDE DEF C, R, D, X, A, E
<1>5. E \in Seq(InnerSteps)
  BY <1>1, <1>3, ThreeWords
<1>6. CASE t = <<C, R, D, X>> \o E
  <2>1. t # << >> /\ t[1] = C /\ Tail(t) = <<R, D, X>> \o E
    BY <1>1, <1>5, <1>6, SixIn, SixTuples, FirstOf
  <2> QED BY <1>2, <1>4, <2>1
<1>7. CASE t = <<R, D, X>> \o E
  <2>1. t # << >> /\ t[1] = R /\ Tail(t) = <<D, X>> \o E
    BY <1>1, <1>5, <1>7, ThreeWords, Tuples, FirstOf
  <2> QED BY <1>2, <1>4, <2>1
<1> QED BY <1>4, <1>6, <1>7

LEMMA FlatNext ==
  ASSUME NEW t \in TileFlat
  PROVE  /\ t # << >>
         /\ \/ t[1][1] \in {"open", "down", "close", "cell"} /\ Tail(t) \in TileFlat
            \/ t[1][1] = "gsave" /\ Tail(t) \in TileUp
            \/ t[1][1] = "always" /\ Tail(t) = <<Do("grestore")>>
<1> DEFINE O == Open("tile")
           G == Do("gsave")
           C == Do("contents")
           R == Do("grestore")
           D == Do("down")
           X == Close("tile")
           E == PatternEnd
           Z == Do("cell")
           A == Do("always")
<1>1. /\ O \in InnerSteps /\ G \in InnerSteps /\ C \in InnerSteps /\ R \in InnerSteps
      /\ D \in InnerSteps /\ X \in InnerSteps /\ Z \in InnerSteps /\ A \in InnerSteps
  BY DEF InnerSteps
<1>2. /\ O[1] = "open" /\ G[1] = "gsave" /\ D[1] = "down" /\ X[1] = "close"
      /\ Z[1] = "cell" /\ A[1] = "always"
  BY StepNames
<1>3. E = <<A, R>>
  BY DEF PatternEnd
<1>4. /\ <<C, R, D, X>> \o E \in TileUp
      /\ TileFlat = {<<O, G, C, R, D, X>> \o E, <<G, C, R, D, X>> \o E, <<D, X>> \o E, <<X>> \o E,
                     <<Z>> \o E, E}
  BY DEF TileUp, TileFlat, TileSteps
<1> HIDE DEF O, G, C, R, D, X, E, Z, A
<1>5. E \in Seq(InnerSteps) /\ E # << >> /\ E[1] = A /\ Tail(E) = <<R>>
  BY <1>1, <1>3, ThreeWords, Tuples
<1>6. CASE t = <<O, G, C, R, D, X>> \o E
  <2>1. t # << >> /\ t[1] = O /\ Tail(t) = <<G, C, R, D, X>> \o E
    BY <1>1, <1>5, <1>6, SixIn, SixTuples, FirstOf
  <2> QED BY <1>2, <1>4, <2>1
<1>7. CASE t = <<G, C, R, D, X>> \o E
  <2>1. t # << >> /\ t[1] = G /\ Tail(t) = <<C, R, D, X>> \o E
    BY <1>1, <1>5, <1>7, SixIn, SixTuples, FirstOf
  <2> QED BY <1>2, <1>4, <2>1
<1>8. CASE t = <<D, X>> \o E
  <2>1. t # << >> /\ t[1] = D /\ Tail(t) = <<X>> \o E
    BY <1>1, <1>5, <1>8, ThreeWords, Tuples, FirstOf
  <2> QED BY <1>2, <1>4, <2>1
<1>9. CASE t \in {<<X>> \o E, <<Z>> \o E}
  <2>1. << >> \o E = E
    BY <1>5, EmptyConcat
  <2>2. t # << >> /\ t[1] \in {X, Z} /\ Tail(t) = E
    BY <1>1, <1>5, <1>9, <2>1, ThreeWords, Tuples, FirstOf
  <2> QED BY <1>2, <1>4, <2>2
<1>10. CASE t = E
  BY <1>2, <1>5, <1>10 DEF R
<1> QED BY <1>4, <1>6, <1>7, <1>8, <1>9, <1>10

LEMMA CellNext ==
  ASSUME NEW t \in CellUp \cup CellFlat, t # << >>
  PROVE  \/ t[1][1] = "gsave" /\ t \in CellFlat /\ t = CellSteps /\ Tail(t) \in CellUp
         \/ t[1][1] = "contents" /\ t \in CellUp /\ Tail(t) \in CellUp
         \/ t[1][1] = "grestore" /\ t \in CellUp /\ Tail(t) \in CellFlat
         \/ t[1][1] = "down" /\ t \in CellFlat /\ Tail(t) \in CellFlat
<1>1. CASE t = CellSteps
  <2>1. t[1] = Do("gsave") /\ Tail(t) = <<Do("contents"), Do("grestore"), Do("down")>>
    BY <1>1, SixTuples DEF CellSteps
  <2> QED BY <1>1, <2>1, StepNames DEF CellUp, CellFlat
<1>2. CASE t = <<Do("contents"), Do("grestore"), Do("down")>>
  <2>1. t[1] = Do("contents") /\ Tail(t) = <<Do("grestore"), Do("down")>>
    BY <1>2, Tuples
  <2> QED BY <1>2, <2>1, StepNames DEF CellUp, CellFlat
<1>3. CASE t = <<Do("grestore"), Do("down")>>
  <2>1. t[1] = Do("grestore") /\ Tail(t) = <<Do("down")>>
    BY <1>3, Tuples
  <2> QED BY <1>3, <2>1, StepNames DEF CellUp, CellFlat
<1>4. CASE t = <<Do("down")>>
  <2>1. t[1] = Do("down") /\ Tail(t) = << >>
    BY <1>4, Tuples
  <2> QED BY <1>4, <2>1, StepNames DEF CellUp, CellFlat
<1> QED BY <1>1, <1>2, <1>3, <1>4 DEF CellUp, CellFlat

LEMMA StreamNext ==
  ASSUME NEW t \in {StreamSteps, <<Do("down"), Do("leave")>>, <<Do("leave")>>, << >>}, t # << >>
  PROVE  \/ t[1][1] = "token" /\ t = StreamSteps /\ Tail(t) = <<Do("down"), Do("leave")>>
         \/ t[1][1] = "down" /\ t = <<Do("down"), Do("leave")>> /\ Tail(t) = <<Do("leave")>>
         \/ t[1][1] = "leave" /\ t = <<Do("leave")>> /\ Tail(t) = << >>
<1>1. CASE t = StreamSteps
  BY <1>1, Tuples, StepNames DEF StreamSteps
<1>2. CASE t = <<Do("down"), Do("leave")>>
  BY <1>2, Tuples, StepNames
<1>3. CASE t = <<Do("leave")>>
  BY <1>3, Tuples, StepNames
<1> QED BY <1>1, <1>2, <1>3

LEMMA StreamTodos ==
  /\ StreamSteps # << >> /\ StreamSteps # <<Do("leave")>>
  /\ <<Do("down"), Do("leave")>> # << >> /\ <<Do("down"), Do("leave")>> # <<Do("leave")>>
  /\ <<Do("leave")>> # << >>
<1>1. /\ StreamSteps # << >> /\ <<Do("down"), Do("leave")>> # << >> /\ <<Do("leave")>> # << >>
  BY Tuples DEF StreamSteps
<1>2. /\ StreamSteps[1][1] = "token" /\ <<Do("down"), Do("leave")>>[1][1] = "down"
      /\ <<Do("leave")>>[1][1] = "leave"
  BY Tuples, StepNames DEF StreamSteps
<1> QED BY <1>1, <1>2

\* the steps of a form from fz_always on
LEMMA EndNext ==
  ASSUME NEW x
  PROVE  LET d == <<Do("down"), Do("leave form")>> \o Unmasks(x)
             l == <<Do("leave form")>> \o Unmasks(x)
         IN  /\ FormEnd(x) # << >> /\ FormEnd(x)[1][1] = "always" /\ Tail(FormEnd(x)) = d
             /\ d # << >> /\ d[1][1] = "down" /\ Tail(d) = l
             /\ l # << >> /\ l[1][1] = "leave form" /\ Tail(l) \in Unmarked
<1> DEFINE U == Unmasks(x)
<1>1. U \in Seq(FormWords) /\ U \in Unmarked
      /\ FormEnd(x) = <<Do("always"), Do("down"), Do("leave form")>> \o U
  BY FormTypes
<1> HIDE DEF U
<1>2. /\ <<Do("always"), Do("down"), Do("leave form")>> \in Seq(FormWords)
      /\ <<Do("down"), Do("leave form")>> \in Seq(FormWords)
  BY FormWordsAre, FewIn
<1>3. /\ FormEnd(x) # << >> /\ FormEnd(x)[1] = Do("always")
      /\ Tail(FormEnd(x)) = <<Do("down"), Do("leave form")>> \o U
  <2> DEFINE s == <<Do("always"), Do("down"), Do("leave form")>>
  <2>1. s # << >> /\ s[1] = Do("always") /\ Tail(s) = <<Do("down"), Do("leave form")>>
    <3>1. ASSUME NEW a, NEW b, NEW c
          PROVE  /\ <<a, b, c>> # << >> /\ <<a, b, c>>[1] = a /\ Tail(<<a, b, c>>) = <<b, c>>
      BY Tuples
    <3> QED BY <3>1, Zenon
  <2>2. s \in Seq(FormWords) /\ FormEnd(x) = s \o U
    BY <1>1, <1>2
  <2> HIDE DEF s
  <2>3. s \o U # << >> /\ (s \o U)[1] = s[1] /\ Tail(s \o U) = Tail(s) \o U
    BY <1>1, <2>1, <2>2, FirstOf, ZenonT(60)
  <2> QED BY <2>1, <2>2, <2>3
<1>4. LET d == <<Do("down"), Do("leave form")>> \o U
      IN  d # << >> /\ d[1] = Do("down") /\ Tail(d) = <<Do("leave form")>> \o U
  BY <1>1, FormWordsAre, FirstOfTwo
<1>5. LET l == <<Do("leave form")>> \o U
      IN  l # << >> /\ l[1] = Do("leave form") /\ Tail(l) = U
  BY <1>1, FormWordsAre, FirstOne
<1> QED BY <1>1, <1>3, <1>4, <1>5, StepNames DEF U

-----------------------------------------------------------------------------
(* Steps and levels                                                        *)

LEMMA StreamAfter ==
  ASSUME NEW f, f.fn = "stream", NEW n \in Nat, NEW gb \in Nat, NEW gp \in Nat, f.base \in Nat,
         f.todo # << >>, StreamAt(f, f.todo, f.onErr, f.pend, n, gb, gp),
         NEW t, NEW o, NEW n2, NEW gb2, NEW gp2, After(f, n, gb, gp, t, o, n2, gb2, gp2)
  PROVE  StreamAt(f, t, o, f.pend, n2, gb2, gp2)
<1> DEFINE w == f.todo[1][1]
<1>1. \/ w = "token" /\ f.todo = StreamSteps /\ Tail(f.todo) = <<Do("down"), Do("leave")>>
      \/ /\ w = "down" /\ f.todo = <<Do("down"), Do("leave")>>
         /\ Tail(f.todo) = <<Do("leave")>>
      \/ w = "leave" /\ f.todo = <<Do("leave")>> /\ Tail(f.todo) = << >>
  BY StreamNext DEF StreamAt
<1>2. CASE w = "token"
  <2>1. f.todo = StreamSteps /\ Tail(f.todo) = <<Do("down"), Do("leave")>>
    BY <1>1, <1>2
  <2>2. o = f.onErr /\ gb2 = gb /\ gp2 = gp /\ t \in {f.todo, Tail(f.todo)}
        /\ n2 \in {n, n + 1, Restored(n, gb)}
    BY <1>2 DEF After, Still
  <2>3. n >= f.base /\ gb = f.base
    BY <2>1, StreamTodos DEF StreamAt
  <2>4. n2 >= f.base
    BY <2>2, <2>3, SMT DEF Restored
  <2> QED BY <2>1, <2>2, <2>3, <2>4, StreamTodos DEF StreamAt
<1>3. CASE w = "down"
  <2>1. f.todo = <<Do("down"), Do("leave")>> /\ Tail(f.todo) = <<Do("leave")>>
    BY <1>1, <1>3
  <2>2. n >= f.base /\ gb = f.base /\ f.keep = f.base
    BY <2>1, StreamTodos DEF StreamAt
  <2>3. /\ o = f.onErr /\ gb2 = gb /\ gp2 = gp
        /\ \/ n > f.keep /\ t = f.todo /\ n2 = Restored(n, gb)
           \/ ~(n > f.keep) /\ t = Tail(f.todo) /\ n2 = n
    BY <1>3 DEF After, Still
  <2>4. CASE n > f.keep /\ t = f.todo /\ n2 = Restored(n, gb)
    <3>1. n2 >= f.base
      BY <2>2, <2>4, SMT DEF Restored
    <3> QED BY <2>1, <2>2, <2>3, <2>4, <3>1, StreamTodos DEF StreamAt
  <2>5. CASE ~(n > f.keep) /\ t = Tail(f.todo) /\ n2 = n
    <3>1. n2 = f.base /\ n2 >= f.base
      BY <2>2, <2>5, SMT
    <3> QED BY <2>1, <2>2, <2>3, <2>5, <3>1, StreamTodos DEF StreamAt
  <2> QED BY <2>3, <2>4, <2>5
<1>4. CASE w = "leave"
  <2>1. f.todo = <<Do("leave")>> /\ Tail(f.todo) = << >>
    BY <1>1, <1>4
  <2>2. o = f.onErr /\ gb2 = f.gbot /\ gp2 = gp /\ t = << >> /\ n2 = n
    BY <1>4, <2>1 DEF After, Still
  <2> QED BY <2>1, <2>2 DEF StreamAt
<1> QED BY <1>1, <1>2, <1>3, <1>4

LEMMA FormAfter ==
  ASSUME NEW f, f.fn = "form", NEW n \in Nat, NEW gb \in Nat, NEW gp \in Nat, f.base \in Nat,
         f.todo # << >>, FormAt(f, f.todo, f.onErr, f.pend, n, gb, gp), f.gbot <= f.base,
         f.gbot \in Nat,
         NEW t, NEW o, NEW n2, NEW gb2, NEW gp2, After(f, n, gb, gp, t, o, n2, gb2, gp2)
  PROVE  FormAt(f, t, o, f.pend, n2, gb2, gp2)
<1> DEFINE w == f.todo[1][1]
           x == f.form
           d == <<Do("down"), Do("leave form")>> \o Unmasks(x)
           l == <<Do("leave form")>> \o Unmasks(x)
<1>0. f.keep = f.base + 1 /\ gb = f.gbot
  BY DEF FormAt
<1>1. /\ FormEnd(x) # << >> /\ FormEnd(x)[1][1] = "always" /\ Tail(FormEnd(x)) = d
      /\ d # << >> /\ d[1][1] = "down" /\ Tail(d) = l
      /\ l # << >> /\ l[1][1] = "leave form" /\ Tail(l) \in Unmarked
  BY EndNext
<1>2. CASE /\ f.todo \in Before(x) /\ f.todo # FormEnd(x) /\ f.onErr = FormEnd(x)
           /\ n = f.base + 1 /\ gp = f.base
  <2>1. /\ Tail(f.todo) \in Before(x)
        /\ w \in {"softmask", "open", "reset", "clip", "contents"}
    BY <1>2, BeforeTail
  <2>2. t = Tail(f.todo) /\ n2 = n /\ o = f.onErr /\ gb2 = gb /\ gp2 = gp
    BY <2>1 DEF After
  <2>3. n2 >= f.base + 1
    BY <1>2, <2>2, SMT
  <2> QED BY <1>0, <1>2, <2>1, <2>2, <2>3 DEF FormAt
<1>3. CASE /\ f.todo = FormEnd(x) /\ f.onErr \in {FormEnd(x), << >>}
           /\ n >= f.base + 1 /\ gp = f.base
  <2>1. t = d /\ n2 = n /\ o = << >> /\ gb2 = gb /\ gp2 = f.gparent
    BY <1>1, <1>3 DEF After, Still
  <2> QED BY <1>0, <1>3, <2>1 DEF FormAt
<1>4. CASE f.todo = d /\ f.onErr = << >> /\ n >= f.base + 1 /\ gp = f.gparent
  <2>1. /\ o = f.onErr /\ gb2 = gb /\ gp2 = gp
        /\ \/ n > f.keep /\ t = f.todo /\ n2 = Restored(n, gb)
           \/ ~(n > f.keep) /\ t = Tail(f.todo) /\ n2 = n
    BY <1>1, <1>4 DEF After, Still
  <2>2. CASE n > f.keep /\ t = f.todo /\ n2 = Restored(n, gb)
    <3>1. n2 >= f.base + 1
      BY <1>0, <2>2, SMT DEF Restored
    <3> QED BY <1>0, <1>4, <2>1, <2>2, <3>1 DEF FormAt
  <2>3. CASE ~(n > f.keep) /\ t = Tail(f.todo) /\ n2 = n
    <3>0. n >= f.base + 1 /\ ~(n > f.keep) /\ n2 = n
      BY <1>4, <2>3
    <3>1. n2 = f.base + 1
      BY <1>0, <3>0, SMT
    <3> QED BY <1>0, <1>1, <1>4, <2>1, <2>3, <3>1 DEF FormAt
  <2> QED BY <2>1, <2>2, <2>3
<1>5. CASE f.todo = l /\ f.onErr = << >> /\ n = f.base + 1 /\ gp = f.gparent
  <2>1. o = f.onErr /\ gb2 = gb /\ gp2 = gp /\ t = Tail(f.todo) /\ n2 = Restored(n, gb)
    BY <1>1, <1>5 DEF After, Still
  <2>2. n = f.base + 1 /\ n2 = Restored(n, gb)
    BY <1>5, <2>1
  <2>3. n2 = f.base
    BY <1>0, <2>2, SMT DEF Restored
  <2> QED BY <1>0, <1>1, <1>5, <2>1, <2>3 DEF FormAt
<1>6. CASE f.todo \in Unmarked /\ f.onErr = << >> /\ n = f.base /\ gp = f.gparent
  <2>1. w \in {"close", "unmask"} /\ Tail(f.todo) \in Unmarked
    BY <1>6, UnmarkedTail
  <2>2. t = Tail(f.todo) /\ n2 = n /\ o = f.onErr /\ gb2 = gb /\ gp2 = gp
    BY <2>1 DEF After
  <2> QED BY <1>0, <1>6, <2>1, <2>2 DEF FormAt
<1> QED BY <1>2, <1>3, <1>4, <1>5, <1>6 DEF FormAt

LEMMA PatternAfter ==
  ASSUME NEW f, f.fn = "pattern", NEW n \in Nat, NEW gb \in Nat, NEW gp \in Nat, f.base \in Nat,
         f.todo # << >>, PatternAt(f, f.todo, f.onErr, f.pend, n, gb, gp), f.gbot <= f.base,
         f.gbot \in Nat,
         NEW t, NEW o, NEW n2, NEW gb2, NEW gp2, After(f, n, gb, gp, t, o, n2, gb2, gp2)
  PROVE  PatternAt(f, t, o, f.pend, n2, gb2, gp2)
<1> DEFINE w == f.todo[1][1]
<1>0. f.keep = f.base + 1 /\ gb = f.gbot
  BY DEF PatternAt
<1>1. CASE /\ f.pend = "none" /\ f.onErr = <<Do("always")>> /\ gp = f.base
           /\ f.todo \in TileUp /\ n = f.base + 2
  <2>1. CASE w = "contents" /\ Tail(f.todo) \in TileUp
    <3>1. t = Tail(f.todo) /\ n2 = n /\ o = f.onErr /\ gb2 = gb /\ gp2 = gp
      BY <2>1 DEF After
    <3> QED BY <1>0, <1>1, <2>1, <3>1 DEF PatternAt
  <2>2. CASE w = "grestore" /\ Tail(f.todo) \in TileFlat
    <3>1. t = Tail(f.todo) /\ n2 = Restored(n, gb) /\ o = f.onErr /\ gb2 = gb /\ gp2 = gp
      BY <2>2 DEF After, Still
    <3>2. n = f.base + 2 /\ n2 = Restored(n, gb)
      BY <1>1, <3>1
    <3>3. n2 = f.base + 1
      BY <1>0, <3>2, SMT DEF Restored
    <3> QED BY <1>0, <1>1, <2>2, <3>1, <3>3 DEF PatternAt
  <2> QED BY <1>1, <2>1, <2>2, UpNext
<1>2. CASE /\ f.pend = "none" /\ f.onErr = <<Do("always")>> /\ gp = f.base
           /\ f.todo \in TileFlat /\ n = f.base + 1
  <2>1. CASE w \in {"open", "down", "close", "cell"} /\ Tail(f.todo) \in TileFlat
    <3>0. n = f.base + 1 /\ ~(n > f.keep)
      <4>1. n = f.base + 1
        BY <1>2
      <4> QED BY <1>0, <4>1, SMT
    <3>1. t = Tail(f.todo) /\ n2 = n /\ o = f.onErr /\ gb2 = gb /\ gp2 = gp
      BY <2>1, <3>0 DEF After
    <3> QED BY <1>0, <1>2, <2>1, <3>1 DEF PatternAt
  <2>2. CASE w = "gsave" /\ Tail(f.todo) \in TileUp
    <3>1. t = Tail(f.todo) /\ n2 = n + 1 /\ o = f.onErr /\ gb2 = gb /\ gp2 = gp
      BY <2>2 DEF After, Still
    <3>2. n = f.base + 1 /\ n2 = n + 1
      BY <1>2, <3>1
    <3>3. n2 = f.base + 2
      BY <3>2, SMT
    <3> QED BY <1>0, <1>2, <2>2, <3>1, <3>3 DEF PatternAt
  <2>3. CASE w = "always" /\ Tail(f.todo) = <<Do("grestore")>>
    <3>1. t = <<Do("grestore")>> /\ n2 = n /\ o = << >> /\ gb2 = gb /\ gp2 = f.gparent
      BY <2>3 DEF After, Still
    <3> QED BY <1>0, <1>2, <3>1 DEF PatternAt
  <2> QED BY <1>2, <2>1, <2>2, <2>3, FlatNext
<1>3. CASE /\ f.pend # "none" /\ f.onErr = << >> /\ f.todo = <<Do("always")>>
           /\ n >= f.base + 1 /\ gp = f.base
  <2>1. w = "always" /\ Tail(f.todo) = << >>
    BY <1>3, Tuples, StepNames
  <2>2. t = << >> /\ n2 = n /\ o = << >> /\ gb2 = gb /\ gp2 = f.gparent
    BY <2>1 DEF After, Still
  <2> QED BY <1>0, <1>3, <2>2 DEF PatternAt
<1>4. CASE /\ f.pend = "none" /\ f.onErr = << >> /\ f.todo = <<Do("grestore")>>
           /\ n = f.base + 1 /\ gp = f.gparent
  <2>1. w = "grestore" /\ Tail(f.todo) = << >>
    BY <1>4, Tuples, StepNames
  <2>2. t = << >> /\ n2 = Restored(n, gb) /\ o = << >> /\ gb2 = gb /\ gp2 = gp
    BY <1>4, <2>1 DEF After, Still
  <2>3. n2 = f.base
    BY <1>0, <1>4, <2>2, SMT DEF Restored
  <2> QED BY <1>0, <1>4, <2>2, <2>3 DEF PatternAt
<1> QED BY <1>1, <1>2, <1>3, <1>4 DEF PatternAt

LEMMA CellAfter ==
  ASSUME NEW f, f.fn = "cell", NEW n \in Nat, NEW gb \in Nat, NEW gp \in Nat, f.base \in Nat,
         f.todo # << >>, CellAt(f, f.todo, f.onErr, f.pend, n, gb, gp), f.gbot <= f.base,
         f.gbot \in Nat,
         NEW t, NEW o, NEW n2, NEW gb2, NEW gp2, After(f, n, gb, gp, t, o, n2, gb2, gp2)
  PROVE  CellAt(f, t, o, f.pend, n2, gb2, gp2)
<1> DEFINE w == f.todo[1][1]
<1>0. f.keep = f.base /\ gb = f.gbot /\ gp = f.gparent
  BY DEF CellAt
<1>1. \/ f.todo \in CellUp /\ n = f.base + 1
      \/ f.todo \in CellFlat /\ n = f.base
  BY DEF CellAt
<1>2. \/ w = "gsave" /\ f.todo \notin CellUp /\ Tail(f.todo) \in CellUp
      \/ w = "contents" /\ f.todo \notin CellFlat /\ Tail(f.todo) \in CellUp
      \/ w = "grestore" /\ f.todo \notin CellFlat /\ Tail(f.todo) \in CellFlat
      \/ w = "down" /\ f.todo \notin CellUp /\ Tail(f.todo) \in CellFlat
  <2>1. /\ CellSteps[1][1] = "gsave" /\ <<Do("down")>>[1][1] = "down"
        /\ <<Do("contents"), Do("grestore"), Do("down")>>[1][1] = "contents"
        /\ <<Do("grestore"), Do("down")>>[1][1] = "grestore"
    BY SixTuples, Tuples, StepNames DEF CellSteps
  <2> QED BY <1>1, <2>1, CellNext DEF CellUp, CellFlat
<1>3. CASE w = "gsave"
  <2>1. t = Tail(f.todo) /\ n2 = n + 1 /\ o = f.onErr /\ gb2 = gb /\ gp2 = gp
    BY <1>3 DEF After, Still
  <2>2. n2 = f.base + 1 /\ t \in CellUp
    BY <1>1, <1>2, <1>3, <2>1
  <2> QED BY <2>1, <2>2 DEF CellAt
<1>4. CASE w = "contents"
  <2>1. t = Tail(f.todo) /\ n2 = n /\ o = f.onErr /\ gb2 = gb /\ gp2 = gp
    BY <1>4 DEF After, Still
  <2>2. n2 = f.base + 1 /\ t \in CellUp
    BY <1>1, <1>2, <1>4, <2>1
  <2> QED BY <2>1, <2>2 DEF CellAt
<1>5. CASE w = "grestore"
  <2>1. t = Tail(f.todo) /\ n2 = Restored(n, gb) /\ o = f.onErr /\ gb2 = gb /\ gp2 = gp
    BY <1>5 DEF After, Still
  <2>2. n = f.base + 1 /\ t \in CellFlat
    BY <1>1, <1>2, <1>5, <2>1
  <2>3. n2 = f.base
    BY <1>0, <2>1, <2>2, SMT DEF Restored
  <2> QED BY <2>1, <2>2, <2>3 DEF CellAt
<1>6. CASE w = "down"
  <2>1. n = f.base /\ ~(n > f.keep) /\ Tail(f.todo) \in CellFlat
    <3>1. n = f.base /\ Tail(f.todo) \in CellFlat
      BY <1>1, <1>2, <1>6
    <3>2. ~(n > f.keep)
      BY <1>0, <3>1, SMT
    <3> QED BY <3>1, <3>2
  <2>2. t = Tail(f.todo) /\ n2 = n /\ o = f.onErr /\ gb2 = gb /\ gp2 = gp
    BY <1>6, <2>1 DEF After, Still
  <2> QED BY <2>1, <2>2 DEF CellAt
<1> QED BY <1>2, <1>3, <1>4, <1>5, <1>6

LEMMA PaintAfter ==
  ASSUME NEW f, NEW n \in Nat, NEW gb \in Nat, NEW gp \in Nat,
         f.todo # << >>, PaintAt(f, f.todo, f.onErr, f.pend, n, gb, gp),
         NEW t, NEW o, NEW n2, NEW gb2, NEW gp2, After(f, n, gb, gp, t, o, n2, gb2, gp2)
  PROVE  PaintAt(f, t, o, f.pend, n2, gb2, gp2)
<1> DEFINE w == f.todo[1][1]
<1>1. f.todo[1] \in PaintWords /\ Tail(f.todo) \in Seq(PaintWords)
  BY HeadTail DEF PaintAt
<1>2. w \in {"clip", "softmask", "draw", "pattern", "end blend", "unmask", "clip text",
             "open", "close"}
  <2>1. /\ \A w1 : Do(w1)[1] = w1 /\ Open(w1)[1] = "open" /\ Close(w1)[1] = "close"
    BY StepNames
  <2>2. f.todo[1] \in PaintWords
    BY <1>1
  <2> QED BY <2>1, <2>2, Zenon DEF PaintWords
<1>3. <<Close("group")>> \in Seq(PaintWords)
  <2>1. Close("group") \in PaintWords
    BY DEF PaintWords
  <2> QED BY <2>1, ThreeWords
<1>4. <<Close("group")>> \o Tail(f.todo) \in Seq(PaintWords)
  BY <1>1, <1>3, ConcatIn
<1>5. /\ n2 = n /\ o = f.onErr /\ gb2 = gb /\ gp2 = gp
      /\ t = Tail(f.todo) \/ t = <<Close("group")>> \o Tail(f.todo)
  BY <1>2 DEF After, Still
<1> QED BY <1>1, <1>4, <1>5 DEF PaintAt

LEMMA MaskNext ==
  ASSUME NEW t \in MaskTodos, t # << >>
  PROVE  /\ t[1][1] \in {"open", "form", "end mask"} /\ Tail(t) \in MaskTodos
         /\ t[1][1] = "form" => Tail(t) = <<Do("end mask")>>
<1>1. PICK a, b, c : a = Open("mask") /\ b = Do("form") /\ c = Do("end mask")
  BY Zenon
<1>2. a[1] = "open" /\ b[1] = "form" /\ c[1] = "end mask"
  BY <1>1, StepNames, Zenon
<1>3. MaskTodos = {<<a, b, c>>, <<b, c>>, <<c>>, << >>}
  BY <1>1, Zenon DEF MaskTodos
<1>4. \/ t[1] = a /\ Tail(t) = <<b, c>>
      \/ t[1] = b /\ Tail(t) = <<c>>
      \/ t[1] = c /\ Tail(t) = << >>
  <2>1. t = <<a, b, c>> \/ t = <<b, c>> \/ t = <<c>>
    BY <1>3, Zenon
  <2>2. /\ <<a, b, c>>[1] = a /\ Tail(<<a, b, c>>) = <<b, c>>
        /\ <<b, c>>[1] = b /\ Tail(<<b, c>>) = <<c>> /\ <<c>>[1] = c /\ Tail(<<c>>) = << >>
    BY Tuples
  <2> QED BY <2>1, <2>2, Zenon
<1>5. a[1] # "form" /\ c[1] # "form"
  BY <1>2, Zenon
<1>6. Tail(t) \in MaskTodos
  BY <1>3, <1>4
<1>7. t[1][1] \in {"open", "form", "end mask"}
  BY <1>2, <1>4, Zenon
<1>8. t[1][1] = "form" => Tail(t) = <<c>>
  BY <1>4, <1>5, Zenon
<1> QED BY <1>1, <1>6, <1>7, <1>8, Zenon

LEMMA MaskAfter ==
  ASSUME NEW f, NEW n \in Nat, NEW gb \in Nat, NEW gp \in Nat,
         f.todo # << >>, MaskAt(f, f.todo, f.onErr, f.pend, n, gb, gp),
         NEW t, NEW o, NEW n2, NEW gb2, NEW gp2, After(f, n, gb, gp, t, o, n2, gb2, gp2)
  PROVE  MaskAt(f, t, o, f.pend, n2, gb2, gp2)
<1> DEFINE w == f.todo[1][1]
<1>1. w \in {"open", "form", "end mask"} /\ Tail(f.todo) \in MaskTodos
  BY MaskNext DEF MaskAt
<1>2. w \in {"open", "form", "end mask"}
  BY <1>1
<1>3. n2 = n /\ o = f.onErr /\ gb2 = gb /\ gp2 = gp /\ t = Tail(f.todo)
  BY <1>2 DEF After, Still
<1> QED BY <1>1, <1>3 DEF MaskAt

LEMMA PageAfter ==
  ASSUME NEW f, NEW n, NEW gb, NEW gp, PageAt(f, gb, gp),
         NEW t, NEW o, NEW n2, NEW gb2, NEW gp2, After(f, n, gb, gp, t, o, n2, gb2, gp2)
  PROVE  PageAt(f, gb2, gp2)
BY DEF After, PageAt

LEMMA StrongAfter ==
  ASSUME NEW f, NEW n \in Nat, NEW gb \in Nat, NEW gp \in Nat, f.base \in Nat, f.gbot \in Nat,
         f.todo # << >>, StrongAt(f, f.todo, f.onErr, f.pend, n, gb, gp),
         NEW t, NEW o, NEW n2, NEW gb2, NEW gp2, After(f, n, gb, gp, t, o, n2, gb2, gp2)
  PROVE  StrongAt(f, t, o, f.pend, n2, gb2, gp2)
<1>1. f.fn \in Outer => PageAt(f, gb2, gp2)
  BY PageAfter DEF StrongAt
<1>2. f.fn \notin Outer => f.gbot <= f.base /\ f.gparent <= f.base
  BY DEF StrongAt
<1>3. f.fn \in Named => f.fn \notin Outer
  BY DEF Named, Outer
<1>4. f.fn = "stream" => StreamAt(f, t, o, f.pend, n2, gb2, gp2)
  BY StreamAfter DEF StrongAt
<1>5. f.fn = "form" => FormAt(f, t, o, f.pend, n2, gb2, gp2)
  BY <1>3, FormAfter DEF StrongAt, Named
<1>6. f.fn = "pattern" => PatternAt(f, t, o, f.pend, n2, gb2, gp2)
  BY <1>3, PatternAfter DEF StrongAt, Named
<1>7. f.fn = "cell" => CellAt(f, t, o, f.pend, n2, gb2, gp2)
  BY <1>3, CellAfter DEF StrongAt, Named
<1>8. f.fn = "mask" => MaskAt(f, t, o, f.pend, n2, gb2, gp2)
  BY MaskAfter DEF StrongAt
<1>9. f.fn \notin Outer \cup Named => PaintAt(f, t, o, f.pend, n2, gb2, gp2)
  BY PaintAfter DEF StrongAt
<1> QED BY <1>1, <1>2, <1>4, <1>5, <1>6, <1>7, <1>8, <1>9 DEF StrongAt

\* pages and annotations
LEMMA EndedNext ==
  ASSUME NEW s \in Seq(OuterSteps), s # << >>, NEW t \in Ended(s)
  PROVE  t # << >> /\ t[1] = s[1] /\ Tail(t) \in Ended(Tail(s))
<1> DEFINE e == <<Close("group")>>
<1>1. e \in Seq(OuterSteps)
  <2>1. Close("group") \in OuterSteps
    BY DEF OuterSteps
  <2> QED BY <2>1, ThreeWords
<1>2. Ended(s) = {s, s \o e} /\ Ended(Tail(s)) = {Tail(s), Tail(s) \o e}
  BY DEF Ended
<1> HIDE DEF e
<1>3. s \o e # << >> /\ (s \o e)[1] = s[1] /\ Tail(s \o e) = Tail(s) \o e
  BY <1>1, FirstOf
<1> QED BY <1>2, <1>3

\* does a run of a page or an annotation need an interpreter next?
Headed(t) == t # << >> /\ t[1][1] \in RunWords

LEMMA OuterPieces ==
  /\ FreeSteps = <<Do("always"), Do("down"), Do("free")>> /\ FreeSteps \in Seq(OuterSteps)
  /\ PageSteps \in Seq(OuterSteps) /\ PageSteps # << >> /\ PageSteps[1][1] = "new"
  /\ Tail(PageSteps) = <<Do("contents")>> \o FreeSteps
  /\ AnnotSteps # << >> /\ AnnotSteps[1][1] = "new"
  /\ Tail(AnnotSteps) = <<Do("appearance")>> \o FreeSteps
  /\ LET g == <<Open("group")>> \o PageSteps \o <<Close("group")>>
     IN  g # << >> /\ g[1][1] = "open" /\ Tail(g) = PageSteps \o <<Close("group")>>
  /\ LET c == <<Do("contents")>> \o FreeSteps
     IN  c \in Seq(OuterSteps) /\ c # << >> /\ c[1][1] = "contents" /\ Tail(c) = FreeSteps
  /\ LET a == <<Do("appearance")>> \o FreeSteps
     IN  a # << >> /\ a[1][1] = "appearance" /\ Tail(a) = FreeSteps
  /\ <<Do("down"), Do("free")>> \in Seq(OuterSteps) /\ <<Do("free")>> \in Seq(OuterSteps)
<1> DEFINE N == Do("new")
           C == Do("contents")
           P == Do("appearance")
           A == Do("always")
           D == Do("down")
           F == Do("free")
           O == Open("group")
           X == Close("group")
           E == FreeSteps
           B == PageSteps
<1>1. /\ N \in OuterSteps /\ C \in OuterSteps /\ P \in OuterSteps /\ A \in OuterSteps
      /\ D \in OuterSteps /\ F \in OuterSteps /\ O \in OuterSteps /\ X \in OuterSteps
  BY DEF OuterSteps
<1>2. /\ N[1] = "new" /\ C[1] = "contents" /\ P[1] = "appearance" /\ O[1] = "open"
  BY StepNames
<1>3. E = <<A, D, F>> /\ B = <<N, C>> \o E /\ AnnotSteps = <<N, P>> \o E
  BY DEF FreeSteps, PageSteps, AnnotSteps
<1> HIDE DEF N, C, P, A, D, F, O, X, E, B
<1>4. E \in Seq(OuterSteps) /\ <<D, F>> \in Seq(OuterSteps) /\ <<F>> \in Seq(OuterSteps)
  BY <1>1, <1>3, ThreeWords
<1>5. << >> \o E = E /\ << >> \in Seq(OuterSteps)
  BY <1>4, EmptyConcat
<1>6. /\ <<N, C>> \in Seq(OuterSteps) /\ <<N, P>> \in Seq(OuterSteps) /\ <<C>> \in Seq(OuterSteps)
      /\ <<P>> \in Seq(OuterSteps) /\ <<O>> \in Seq(OuterSteps) /\ <<X>> \in Seq(OuterSteps)
  BY <1>1, ThreeWords
<1>7. B \in Seq(OuterSteps) /\ B # << >> /\ B[1] = N /\ Tail(B) = <<C>> \o E
  BY <1>3, <1>4, <1>6, Tuples, FirstOf
<1>8. AnnotSteps # << >> /\ AnnotSteps[1] = N /\ Tail(AnnotSteps) = <<P>> \o E
  BY <1>3, <1>4, <1>6, Tuples, FirstOf
<1>9. LET c == <<C>> \o E IN c \in Seq(OuterSteps) /\ c # << >> /\ c[1] = C /\ Tail(c) = E
  BY <1>4, <1>5, <1>6, Tuples, FirstOf
<1>10. LET a == <<P>> \o E IN a # << >> /\ a[1] = P /\ Tail(a) = E
  BY <1>4, <1>5, <1>6, Tuples, FirstOf
<1>11. LET g == <<O>> \o B \o <<X>> IN g # << >> /\ g[1] = O /\ Tail(g) = B \o <<X>>
  <2>1. LET h == <<O>> \o B IN h \in Seq(OuterSteps) /\ h # << >> /\ h[1] = O /\ Tail(h) = B
    <3>1. << >> \o B = B
      BY <1>7, EmptyConcat
    <3> QED BY <1>6, <1>7, <3>1, Tuples, FirstOf
  <2> QED BY <1>6, <2>1, FirstOf
<1> QED BY <1>2, <1>3, <1>4, <1>7, <1>8, <1>9, <1>10, <1>11 DEF N, C, P, A, D, F, O, X, E, B

LEMMA OuterNext ==
  ASSUME NEW t, NEW o, NEW k, OuterAt(t, o, k), t # << >>
  PROVE  \/ t[1][1] \in {"page", "annot"} /\ OuterAt(Tail(t), o, k) /\ ~Headed(Tail(t)) /\ o = << >>
         \/ t[1][1] = "open" /\ OuterAt(Tail(t), o, k) /\ ~Headed(Tail(t))
         \/ t[1][1] = "new" /\ OuterAt(Tail(t), o, k) /\ Headed(Tail(t))
         \/ t[1][1] \in {"contents", "appearance"} /\ OuterAt(Tail(t), o, k) /\ Headed(Tail(t))
         \/ t[1][1] = "always" /\ OuterAt(Tail(t), << >>, k) /\ Headed(Tail(t))
         \/ t[1][1] = "down" /\ OuterAt(Tail(t), o, k) /\ Headed(Tail(t)) /\ o = << >> /\ k = 1
         \/ t[1][1] = "free" /\ OuterAt(Tail(t), o, k) /\ ~Headed(Tail(t)) /\ o = << >>
         \/ t[1][1] = "close" /\ OuterAt(Tail(t), o, k) /\ ~Headed(Tail(t)) /\ o = << >>
<1> DEFINE w == t[1][1]
           r == Tail(t)
           D == <<Do("down"), Do("free")>>
           F == <<Do("free")>>
           C == <<Do("contents")>> \o FreeSteps
<1>0. /\ D # << >> /\ D[1][1] = "down" /\ Tail(D) = F /\ F # << >> /\ F[1][1] = "free"
      /\ Tail(F) = << >> /\ FreeSteps # << >> /\ FreeSteps[1][1] = "always" /\ Tail(FreeSteps) = D
  BY Tuples, StepNames, OuterPieces
<1>1. ASSUME NEW s \in Ended(FreeSteps)
      PROVE  s # << >> /\ s[1][1] = "always" /\ Tail(s) \in Ended(D)
  <2>1. FreeSteps \in Seq(OuterSteps)
    BY OuterPieces
  <2>2. s # << >> /\ s[1] = FreeSteps[1] /\ Tail(s) \in Ended(Tail(FreeSteps))
    BY <1>0, <2>1, EndedNext
  <2> QED BY <1>0, <2>2
<1>2. ASSUME NEW s \in Ended(D)
      PROVE  s # << >> /\ s[1][1] = "down" /\ Tail(s) \in Ended(F)
  BY <1>0, <1>2, OuterPieces, EndedNext
<1>3. ASSUME NEW s \in Ended(F)
      PROVE  s # << >> /\ s[1][1] = "free" /\ Tail(s) \in Ended(<< >>)
  BY <1>0, <1>3, OuterPieces, EndedNext
<1>4. ASSUME NEW s \in Ended(C)
      PROVE  s # << >> /\ s[1][1] = "contents" /\ Tail(s) \in Ended(FreeSteps)
  BY <1>4, OuterPieces, EndedNext
<1>5. ASSUME NEW s \in Ended(PageSteps)
      PROVE  s # << >> /\ s[1][1] = "new" /\ Tail(s) \in Ended(C)
  BY <1>5, OuterPieces, EndedNext
<1>6. ASSUME NEW s \in Ended(<< >>), s # << >>
      PROVE  s[1][1] = "close" /\ Tail(s) = << >>
  <2>1. s = << >> \o <<Close("group")>>
    BY <1>6 DEF Ended
  <2>2. << >> \o <<Close("group")>> = <<Close("group")>>
    <3>1. <<Close("group")>> \in Seq({Close("group")})
      BY ThreeWords
    <3> QED BY <3>1, EmptyConcat
  <2> QED BY <2>1, <2>2, Tuples, StepNames
<1>7. << >> \in Ended(<< >>) /\ FreeSteps \in Ended(FreeSteps)
  BY DEF Ended
<1>8. CASE t \in BaseTodos /\ o = << >>
  <2>1. \A s \in BaseTodos : s # << >> => /\ s[1][1] \in {"page", "annot"} /\ Tail(s) \in BaseTodos
    BY HeadTail, StepNames DEF BaseTodos
  <2>2. w \in {"page", "annot"} /\ r \in BaseTodos
    BY <1>8, <2>1
  <2>3. ~Headed(r)
    BY <2>1, <2>2 DEF Headed, RunWords
  <2> QED BY <1>8, <2>2, <2>3 DEF OuterAt
<1>9. CASE k = 1 /\ t \in Fresh /\ o = FreeSteps
  <2>1. CASE t \in Ended(PageSteps)
    <3>1. w = "new" /\ r \in Ended(C)
      BY <1>5, <2>1
    <3>2. Headed(r) /\ r \in Running
      BY <1>4, <3>1 DEF Headed, Running, RunWords
    <3> QED BY <1>9, <3>1, <3>2 DEF OuterAt
  <2>2. CASE t = <<Open("group")>> \o PageSteps \o <<Close("group")>>
    <3>1. w = "open" /\ r = PageSteps \o <<Close("group")>>
      BY <2>2, OuterPieces
    <3>2. r \in Ended(PageSteps) /\ r \in Fresh
      BY <3>1 DEF Ended, Fresh
    <3>3. ~Headed(r)
      BY <1>5, <3>2 DEF Headed, RunWords
    <3> QED BY <1>9, <3>1, <3>2, <3>3 DEF OuterAt
  <2>3. CASE t = AnnotSteps
    <3>1. w = "new" /\ r = <<Do("appearance")>> \o FreeSteps
      BY <2>3, OuterPieces
    <3>2. Headed(r) /\ r \in Running
      BY <3>1, OuterPieces DEF Headed, Running, RunWords
    <3> QED BY <1>9, <3>1, <3>2 DEF OuterAt
  <2> QED BY <1>9, <2>1, <2>2, <2>3 DEF Fresh
<1>10. CASE k = 1 /\ t \in Running /\ o \in {FreeSteps, << >>}
  <2>1. CASE t \in Ended(C)
    <3>1. w = "contents" /\ r \in Ended(FreeSteps)
      BY <1>4, <2>1
    <3>2. Headed(r) /\ r \in Running
      BY <1>1, <3>1 DEF Headed, Running, RunWords
    <3> QED BY <1>10, <3>1, <3>2 DEF OuterAt
  <2>2. CASE t = <<Do("appearance")>> \o FreeSteps
    <3>1. w = "appearance" /\ r = FreeSteps
      BY <2>2, OuterPieces
    <3>2. Headed(r) /\ r \in Running
      BY <1>0, <1>7, <3>1 DEF Headed, Running, RunWords
    <3> QED BY <1>10, <3>1, <3>2 DEF OuterAt
  <2>3. CASE t \in Ended(FreeSteps)
    <3>1. w = "always" /\ r \in Ended(D)
      BY <1>1, <2>3
    <3>2. Headed(r) /\ r \in Freeing
      BY <1>2, <3>1 DEF Headed, Freeing, RunWords
    <3> QED BY <1>10, <3>1, <3>2 DEF OuterAt
  <2> QED BY <1>10, <2>1, <2>2, <2>3 DEF Running
<1>11. CASE k = 1 /\ t \in Freeing /\ o = << >>
  <2>1. CASE t \in Ended(D)
    <3>1. w = "down" /\ r \in Ended(F)
      BY <1>2, <2>1
    <3>2. Headed(r) /\ r \in Freeing
      BY <1>3, <3>1 DEF Headed, Freeing, RunWords
    <3> QED BY <1>11, <3>1, <3>2 DEF OuterAt
  <2>2. CASE t \in Ended(F)
    <3>1. w = "free" /\ r \in Ended(<< >>)
      BY <1>3, <2>2
    <3>2. ~Headed(r)
      BY <1>6, <3>1 DEF Headed, RunWords
    <3> QED BY <1>11, <3>1, <3>2 DEF OuterAt
  <2> QED BY <1>11, <2>1, <2>2 DEF Freeing
<1>12. CASE k = 1 /\ t \in Ended(<< >>) /\ o = << >>
  <2>1. w = "close" /\ r = << >>
    BY <1>6, <1>12
  <2>2. ~Headed(r) /\ r \in Ended(<< >>)
    BY <1>7, <2>1 DEF Headed
  <2> QED BY <1>12, <2>1, <2>2 DEF OuterAt
<1> QED BY <1>8, <1>9, <1>10, <1>11, <1>12 DEF OuterAt

\* which steps are of pages and annotations, and which are not
Fitting(f) ==
  /\ f.todo[1][1] \in {"new", "free"} => f.fn \in Outer
  /\ f.todo[1][1] \in {"gsave", "grestore", "leave form", "token", "leave"} => f.fn \notin Outer

LEMMA WeakAfter ==
  ASSUME NEW f, NEW n \in Nat, NEW gb \in Nat, NEW gp, f.todo # << >>, Fitting(f),
         WeakAt(f, f.todo, f.onErr, f.pend, n, gb),
         NEW t, NEW o, NEW n2, NEW gb2, NEW gp2, After(f, n, gb, gp, t, o, n2, gb2, gp2)
  PROVE  /\ WeakAt(f, t, o, f.pend, n2, gb2) /\ n2 \in Nat /\ gb2 \in Nat
         /\ gp \in Nat => gp2 \in Nat
<1> DEFINE w == f.todo[1][1]
           r == Tail(f.todo)
<1>0. /\ gb >= 1 /\ f.gbot >= 1 /\ f.gbot \in Nat /\ f.gparent \in Nat
      /\ f.fn \in Outer => OuterAt(f.todo, f.onErr, f.keep)
      /\ NeedsAt(f.fn, f.todo) <=> (n >= 1)
  BY DEF WeakAt
<1>1. gb2 >= 1 /\ gb2 \in Nat
  <2>1. gb2 = gb \/ gb2 = f.gbot \/ gb2 = 1
    BY DEF After
  <2> QED BY <1>0, <2>1, SMT
<1>2. gp \in Nat => gp2 \in Nat
  <2>1. gp2 = gp \/ gp2 = f.gparent \/ gp2 = 1
    BY DEF After
  <2> QED BY <1>0, <2>1, SMT
<1>3. n2 \in Nat
  <2>1. n2 \in {n, n + 1, Restored(n, gb), 2, 0}
    BY DEF After
  <2> QED BY <1>0, <2>1, SMT DEF Restored
<1>4. CASE f.fn \notin Outer
  <2>1. n2 \in {n, n + 1, Restored(n, gb)}
    BY <1>4 DEF After, Fitting
  <2>2. n >= 1
    BY <1>0, <1>4 DEF NeedsAt
  <2>3. n2 >= 1
    BY <1>0, <2>1, <2>2, SMT DEF Restored
  <2>4. NeedsAt(f.fn, t)
    BY <1>4 DEF NeedsAt
  <2>5. WeakAt(f, t, o, f.pend, n2, gb2)
    BY <1>1, <1>4, <2>3, <2>4 DEF WeakAt
  <2> QED BY <1>1, <1>2, <1>3, <2>5
<1>5. CASE f.fn \in Outer
  <2>1. OuterAt(t, o, f.keep) /\ (Headed(t) <=> (n2 >= 1))
    <3>0. /\ Headed(f.todo) <=> (n >= 1)
          /\ w \notin {"gsave", "grestore", "leave form", "token", "leave"}
      BY <1>0, <1>5 DEF NeedsAt, Headed, Fitting
    <3>1. CASE w \in {"page", "annot"} /\ OuterAt(r, f.onErr, f.keep) /\ ~Headed(r)
      <4>1. t = r /\ n2 = n /\ o = f.onErr /\ ~Headed(f.todo)
        BY <3>1 DEF After, Headed, RunWords
      <4> QED BY <3>0, <3>1, <4>1
    <3>2. CASE w \in {"open", "close"} /\ OuterAt(r, f.onErr, f.keep) /\ ~Headed(r)
      <4>1. t = r /\ n2 = n /\ o = f.onErr /\ ~Headed(f.todo)
        BY <3>2 DEF After, Headed, RunWords
      <4> QED BY <3>0, <3>2, <4>1
    <3>3. CASE w = "new" /\ OuterAt(r, f.onErr, f.keep) /\ Headed(r)
      <4>1. t = r /\ n2 = 2 /\ o = f.onErr
        BY <3>3 DEF After, Still
      <4>2. n2 >= 1
        BY <4>1, SMT
      <4> QED BY <3>3, <4>1, <4>2
    <3>4. CASE w \in {"contents", "appearance"} /\ OuterAt(r, f.onErr, f.keep) /\ Headed(r)
      <4>1. t = r /\ n2 = n /\ o = f.onErr /\ Headed(f.todo)
        BY <3>4 DEF After, Headed, RunWords
      <4> QED BY <3>0, <3>4, <4>1
    <3>5. CASE w = "always" /\ OuterAt(r, << >>, f.keep) /\ Headed(r)
      <4>1. t = r /\ n2 = n /\ o = << >> /\ Headed(f.todo)
        BY <3>5 DEF After, Headed, RunWords, Still
      <4> QED BY <3>0, <3>5, <4>1
    <3>6. CASE w = "down" /\ OuterAt(r, f.onErr, f.keep) /\ Headed(r) /\ f.keep = 1
      <4>1. Headed(f.todo)
        BY <3>6 DEF Headed, RunWords
      <4>2. CASE n > f.keep /\ t = f.todo /\ n2 = Restored(n, gb)
        <5>1. n2 >= 1
          BY <1>0, <3>6, <4>2, SMT DEF Restored
        <5>2. o = f.onErr
          BY <3>6 DEF After, Still
        <5> QED BY <1>0, <1>5, <4>1, <4>2, <5>1, <5>2
      <4>3. CASE ~(n > f.keep) /\ t = r /\ n2 = n
        <5>1. o = f.onErr
          BY <3>6 DEF After, Still
        <5> QED BY <3>0, <3>6, <4>1, <4>3, <5>1
      <4> QED BY <3>6, <4>2, <4>3 DEF After, Still
    <3>7. CASE w = "free" /\ OuterAt(r, f.onErr, f.keep) /\ ~Headed(r)
      <4>1. t = r /\ n2 = 0 /\ o = f.onErr
        BY <3>7 DEF After, Still
      <4>2. ~(n2 >= 1)
        BY <4>1, SMT
      <4> QED BY <3>7, <4>1, <4>2
    <3> QED BY <1>0, <1>5, <3>1, <3>2, <3>3, <3>4, <3>5, <3>6, <3>7, OuterNext
  <2>2. NeedsAt(f.fn, t) <=> (n2 >= 1)
    BY <1>5, <2>1 DEF NeedsAt, Headed
  <2>3. WeakAt(f, t, o, f.pend, n2, gb2)
    BY <1>1, <1>5, <2>1, <2>2 DEF WeakAt
  <2> QED BY <1>1, <1>2, <1>3, <2>3
<1> QED BY <1>4, <1>5

LEMMA LevelAfter ==
  ASSUME NEW f, NEW n \in Nat, NEW gb \in Nat, NEW gp \in Nat, f.todo # << >>, Fitting(f),
         At(f, n, gb, gp),
         NEW t, NEW o, NEW n2, NEW gb2, NEW gp2, After(f, n, gb, gp, t, o, n2, gb2, gp2)
  PROVE  LevelAt(f, t, o, f.pend, n2, gb2, gp2) /\ n2 \in Nat /\ gb2 \in Nat /\ gp2 \in Nat
<1>1. WeakAt(f, f.todo, f.onErr, f.pend, n, gb)
  BY DEF At, LevelAt
<1>2. f.base \in Nat /\ f.gbot \in Nat
  BY <1>1 DEF WeakAt
<1>3. Patient => StrongAt(f, t, o, f.pend, n2, gb2, gp2)
  BY <1>2, StrongAfter DEF At, LevelAt
<1>4. WeakAt(f, t, o, f.pend, n2, gb2) /\ n2 \in Nat /\ gb2 \in Nat /\ gp2 \in Nat
  BY <1>1, WeakAfter
<1> QED BY <1>3, <1>4 DEF LevelAt

LEMMA KinAt ==
  ASSUME NEW f, NEW g, Kin(f, g), NEW n, NEW gb, NEW gp,
         LevelAt(f, g.todo, g.onErr, g.pend, n, gb, gp)
  PROVE  At(g, n, gb, gp)
<1> DEFINE t == g.todo
           o == g.onErr
           e == g.pend
<1>0. /\ g.fn = f.fn /\ g.base = f.base /\ g.keep = f.keep /\ g.gbot = f.gbot
      /\ g.gparent = f.gparent /\ g.form = f.form
  BY DEF Kin
<1> HIDE DEF t, o, e
<1>1. WeakAt(f, t, o, e, n, gb) => WeakAt(g, t, o, e, n, gb)
  BY <1>0, Zenon DEF WeakAt
<1>2. StreamAt(f, t, o, e, n, gb, gp) => StreamAt(g, t, o, e, n, gb, gp)
  BY <1>0, Zenon DEF StreamAt
<1>3. FormAt(f, t, o, e, n, gb, gp) => FormAt(g, t, o, e, n, gb, gp)
  BY <1>0, Zenon DEF FormAt
<1>4. PatternAt(f, t, o, e, n, gb, gp) => PatternAt(g, t, o, e, n, gb, gp)
  BY <1>0, Zenon DEF PatternAt
<1>5. CellAt(f, t, o, e, n, gb, gp) => CellAt(g, t, o, e, n, gb, gp)
  BY <1>0, Zenon DEF CellAt
<1>6. MaskAt(f, t, o, e, n, gb, gp) => MaskAt(g, t, o, e, n, gb, gp)
  BY <1>0, Zenon DEF MaskAt
<1>7. PaintAt(f, t, o, e, n, gb, gp) => PaintAt(g, t, o, e, n, gb, gp)
  BY <1>0, Zenon DEF PaintAt
<1>8. PageAt(f, gb, gp) => PageAt(g, gb, gp)
  BY <1>0, Zenon DEF PageAt
<1>9. StrongAt(f, t, o, e, n, gb, gp) => StrongAt(g, t, o, e, n, gb, gp)
  BY <1>0, <1>2, <1>3, <1>4, <1>5, <1>6, <1>7, <1>8, Zenon DEF StrongAt
<1>10. LevelAt(f, t, o, e, n, gb, gp)
  BY DEF t, o, e
<1>11. LevelAt(g, t, o, e, n, gb, gp)
  BY <1>1, <1>9, <1>10, Zenon DEF LevelAt
<1> QED BY <1>11, Zenon DEF At, t, o, e

-----------------------------------------------------------------------------
(* Levels of the C stack                                                   *)

LEMMA Settles ==
  ASSUME NEW fs, IsSeq(fs), fs # << >>, NEW n, NEW gb, NEW gp, Levelled(fs, n, gb, gp),
         NEW g, Kin(fs[Len(fs)], g), NEW n2, NEW gb2, NEW gp2, At(g, n2, gb2, gp2),
         g.onErr = << >> \/ g.onErr = fs[Len(fs)].onErr
  PROVE  Levelled(Replaced(fs, Len(fs), g), n2, gb2, gp2)
<1> DEFINE L == Len(fs)
           hs == Replaced(fs, L, g)
<1>1. L \in Nat /\ L # 0
  BY SeqLen
<1>2. /\ L \in 1..L /\ \A i \in 1..L - 1 : i \in 1..L /\ i # L /\ i + 1 \in 1..L
  <2> HIDE DEF L
  <2> QED BY <1>1, SMT
<1>3. IsSeq(hs) /\ Len(hs) = L /\ hs[L] = g /\ \A i \in 1..L : i # L => hs[i] = fs[i]
  BY <1>2, ReplacedSeq, SMTT(40)
<1>4. hs # << >>
  BY <1>1, <1>3, SeqLen
<1> HIDE DEF hs
<1>5. \A i \in 1..L : /\ hs[i].base = fs[i].base /\ hs[i].gbot = fs[i].gbot
                      /\ hs[i].gparent = fs[i].gparent /\ hs[i].fn = fs[i].fn
  BY <1>3 DEF Kin
<1>6. ASSUME NEW i \in 1..L - 1
      PROVE  At(hs[i], hs[i + 1].base, hs[i + 1].gbot, hs[i + 1].gparent)
             /\ Between(hs[i], hs[i + 1])
  <2>1. hs[i] = fs[i] /\ i + 1 \in 1..L
    BY <1>2, <1>3
  <2>2. At(fs[i], fs[i + 1].base, fs[i + 1].gbot, fs[i + 1].gparent)
        /\ Between(fs[i], fs[i + 1])
    BY DEF Levelled
  <2>3. /\ hs[i + 1].base = fs[i + 1].base /\ hs[i + 1].gbot = fs[i + 1].gbot
        /\ hs[i + 1].gparent = fs[i + 1].gparent /\ hs[i + 1].fn = fs[i + 1].fn
    BY <1>5, <2>1
  <2>4. At(hs[i], hs[i + 1].base, hs[i + 1].gbot, hs[i + 1].gparent)
    BY <2>1, <2>2, <2>3
  <2>5. Between(hs[i], hs[i + 1])
    BY <2>1, <2>2, <2>3, Zenon DEF Between
  <2> QED BY <2>4, <2>5
<1> QED BY <1>3, <1>4, <1>6 DEF Levelled, hs

LEMMA Pushes ==
  ASSUME NEW fs, IsSeq(fs), NEW n, NEW gb, NEW gp, Levelled(fs, n, gb, gp),
         NEW g, g.base = n, g.gbot = gb, g.gparent = gp, fs # << >> => Between(fs[Len(fs)], g),
         NEW n2, NEW gb2, NEW gp2, At(g, n2, gb2, gp2)
  PROVE  Levelled(Append(fs, g), n2, gb2, gp2)
<1> DEFINE L == Len(fs)
           hs == Append(fs, g)
<1>1. L \in Nat /\ (fs = << >> <=> L = 0)
  BY SeqLen
<1>2. /\ IsSeq(hs) /\ Len(hs) = L + 1 /\ hs[L + 1] = g /\ \A i \in 1..L : hs[i] = fs[i]
  BY AppendSeq
<1>3. L + 1 # 0 /\ L + 1 - 1 = L
      /\ \A i \in 1..L : i = L \/ (i \in 1..L - 1 /\ i + 1 \in 1..L)
  <2> HIDE DEF L
  <2> QED BY <1>1, SMT
<1>4. hs # << >>
  BY <1>2, <1>3, SeqLen
<1>5. ASSUME NEW i \in 1..L
      PROVE  fs # << >>
  <2>1. L # 0
    <3> HIDE DEF L
    <3> QED BY <1>1, <1>5, SMT
  <2> QED BY <1>1, <2>1
<1> HIDE DEF hs
<1>6. ASSUME NEW i \in 1..L
      PROVE  At(hs[i], hs[i + 1].base, hs[i + 1].gbot, hs[i + 1].gparent)
             /\ Between(hs[i], hs[i + 1])
  <2>1. CASE i = L
    <3>1. At(fs[L], n, gb, gp) /\ Between(fs[L], g)
      BY <1>5 DEF Levelled
    <3> QED BY <1>2, <2>1, <3>1
  <2>2. CASE i \in 1..L - 1 /\ i + 1 \in 1..L
    <3>1. At(fs[i], fs[i + 1].base, fs[i + 1].gbot, fs[i + 1].gparent)
          /\ Between(fs[i], fs[i + 1])
      BY <2>2 DEF Levelled
    <3> QED BY <1>2, <2>2, <3>1
  <2> QED BY <1>3, <2>1, <2>2
<1> HIDE DEF L
<1>7. \A i \in 1..Len(hs) - 1 : i \in 1..L
  BY <1>1, <1>2, <1>3
<1>8. hs[Len(hs)] = g
  BY <1>2
<1> QED BY <1>4, <1>6, <1>7, <1>8 DEF Levelled, hs

\* a call that is done
LEMMA DoneAt ==
  ASSUME NEW f, NEW n \in Nat, NEW gb, NEW gp, At(f, n, gb, gp), f.todo = << >>
  PROVE  /\ f.base \in Nat /\ f.gbot \in Nat /\ f.gparent \in Nat
         /\ ((f.base >= 1) <=> (n >= 1)) /\ ((f.fn \in Outer) <=> ~(n >= 1))
         /\ gb >= 1 /\ (f.pend = "later" => "later" \in Faults)
         /\ Patient => /\ gb = f.gbot /\ gp = f.gparent /\ n >= f.base
                       /\ f.pend = "none" => n = f.base
                       /\ f.fn = "form" => n = f.base
                       /\ f.fn = "stream" => f.pend = "none"
<1>0. WeakAt(f, << >>, f.onErr, f.pend, n, gb)
  BY DEF At, LevelAt
<1>1. /\ f.base \in Nat /\ f.gbot \in Nat /\ f.gparent \in Nat
      /\ gb >= 1 /\ (f.pend = "later" => "later" \in Faults)
      /\ (f.fn \in Outer => f.base = 0) /\ (f.fn \notin Outer => f.base >= 1)
      /\ (f.fn \notin Outer) <=> (n >= 1)
  BY <1>0 DEF WeakAt, NeedsAt
<1>2. ((f.base >= 1) <=> (n >= 1)) /\ (f.fn \in Outer <=> ~(n >= 1))
  BY <1>1, SMT
<1>3. ASSUME Patient
      PROVE  /\ gb = f.gbot /\ gp = f.gparent /\ n >= f.base
             /\ f.pend = "none" => n = f.base
             /\ f.fn = "form" => n = f.base
             /\ f.fn = "stream" => f.pend = "none"
  <2>0. StrongAt(f, << >>, f.onErr, f.pend, n, gb, gp)
    BY <1>3 DEF At, LevelAt
  <2>1. CASE f.fn \in Outer
    <3>1. f.base = 0 /\ ~(n >= 1) /\ f.fn \notin {"form", "stream"}
      BY <1>1, <1>2, <2>1 DEF Outer
    <3>2. n = f.base /\ n >= f.base
      BY <3>1, SMT
    <3> QED BY <2>0, <2>1, <3>1, <3>2 DEF StrongAt, PageAt
  <2>2. CASE f.fn = "stream"
    BY <2>0, <2>2, StreamTodos DEF StrongAt, StreamAt
  <2>3. CASE f.fn = "form"
    <3>0. FormAt(f, << >>, f.onErr, f.pend, n, gb, gp)
      BY <2>0, <2>3 DEF StrongAt
    <3>1. << >> \notin Before(f.form) \/ << >> = FormEnd(f.form)
      BY BeforeTail
    <3>2. /\ << >> # FormEnd(f.form)
          /\ << >> # <<Do("down"), Do("leave form")>> \o Unmasks(f.form)
          /\ << >> # <<Do("leave form")>> \o Unmasks(f.form)
      BY EndNext
    <3>3. gb = f.gbot /\ gp = f.gparent /\ n = f.base
      BY <3>0, <3>1, <3>2 DEF FormAt
    <3>4. n >= f.base
      BY <1>1, <3>3, SMT
    <3> QED BY <2>3, <3>3, <3>4
  <2>4. CASE f.fn = "pattern"
    <3>0. PatternAt(f, << >>, f.onErr, f.pend, n, gb, gp)
      BY <2>0, <2>4 DEF StrongAt
    <3>1. << >> \notin TileUp /\ << >> \notin TileFlat
      BY UpNext, FlatNext
    <3>2. << >> # <<Do("always")>> /\ << >> # <<Do("grestore")>>
      BY Tuples
    <3>3. gb = f.gbot /\ gp = f.gparent
          /\ \/ f.pend = "none" /\ n = f.base
             \/ f.pend # "none" /\ n >= f.base + 1
      BY <3>0, <3>1, <3>2 DEF PatternAt
    <3>4. n >= f.base
      BY <1>1, <3>3, SMT
    <3> QED BY <2>4, <3>3, <3>4
  <2>5. CASE f.fn = "cell"
    <3>0. CellAt(f, << >>, f.onErr, f.pend, n, gb, gp)
      BY <2>0, <2>5 DEF StrongAt
    <3>1. << >> \notin CellUp
      BY Tuples DEF CellUp
    <3>2. gb = f.gbot /\ gp = f.gparent /\ n = f.base
      BY <3>0, <3>1 DEF CellAt
    <3>3. n >= f.base
      BY <1>1, <3>2, SMT
    <3> QED BY <2>5, <3>2, <3>3
  <2>6. CASE f.fn = "mask" \/ f.fn \notin Outer \cup Named
    <3>1. gb = f.gbot /\ gp = f.gparent /\ n = f.base
      BY <2>0, <2>6 DEF StrongAt, MaskAt, PaintAt
    <3>2. n >= f.base
      BY <1>1, <3>1, SMT
    <3> QED BY <2>6, <3>1, <3>2 DEF Named
  <2> QED BY <2>1, <2>2, <2>3, <2>4, <2>5, <2>6 DEF Named
<1> QED BY <1>1, <1>2, <1>3

\* one that is waited for
LEMMA ReturnsTo ==
  ASSUME NEW f, NEW m \in Nat, NEW g0, NEW p0, At(f, m, g0, p0),
         NEW n \in Nat, NEW gb \in Nat, NEW gp, gb >= 1, (m >= 1) <=> (n >= 1),
         Patient => n = m /\ gb = g0 /\ gp = p0
  PROVE  At(f, n, gb, gp)
<1>1. WeakAt(f, f.todo, f.onErr, f.pend, n, gb)
  BY DEF At, LevelAt, WeakAt
<1>2. Patient => StrongAt(f, f.todo, f.onErr, f.pend, n, gb, gp)
  BY DEF At, LevelAt
<1> QED BY <1>1, <1>2 DEF At, LevelAt

LEMMA LessLevelled ==
  ASSUME NEW fs, IsSeq(fs), fs # << >>, NEW n, NEW gb, NEW gp, Levelled(fs, n, gb, gp)
  PROVE  LET L == Len(fs)
             hs == Front(fs)
         IN  /\ IsSeq(hs) /\ Len(hs) = L - 1
             /\ \A i \in 1..L - 1 : hs[i] = fs[i]
             /\ Levelled(hs, fs[L].base, fs[L].gbot, fs[L].gparent)
             /\ hs # << >> => L - 1 \in 1..L - 1 /\ Between(hs[Len(hs)], fs[L])
<1> DEFINE L == Len(fs)
           hs == Front(fs)
<1>1. L \in Nat /\ L # 0
  BY SeqLen
<1>2. IsSeq(hs) /\ Len(hs) = L - 1 /\ \A i \in 1..L - 1 : hs[i] = fs[i]
  BY FrontSeq
<1>3. hs # << >> => L - 1 # 0
  BY <1>2, SeqLen
<1> HIDE DEF L, hs
<1>4. /\ \A i \in 1..L - 1 - 1 : i \in 1..L - 1 /\ i + 1 \in 1..L - 1
      /\ L - 1 # 0 => L - 1 \in 1..L - 1 /\ L - 1 + 1 = L
  BY <1>1, SMT
<1>5. \A i \in 1..L - 1 : At(fs[i], fs[i + 1].base, fs[i + 1].gbot, fs[i + 1].gparent)
                          /\ Between(fs[i], fs[i + 1])
  BY DEF Levelled, L
<1>6. \A i \in 1..Len(hs) - 1 :
        At(hs[i], hs[i + 1].base, hs[i + 1].gbot, hs[i + 1].gparent) /\ Between(hs[i], hs[i + 1])
  BY <1>2, <1>4, <1>5
<1>7. hs # << >> => /\ At(hs[Len(hs)], fs[L].base, fs[L].gbot, fs[L].gparent)
                    /\ Between(hs[Len(hs)], fs[L])
  <2> SUFFICES ASSUME hs # << >>
               PROVE  /\ At(hs[Len(hs)], fs[L].base, fs[L].gbot, fs[L].gparent)
                      /\ Between(hs[Len(hs)], fs[L])
    OBVIOUS
  <2>1. L - 1 \in 1..L - 1 /\ L - 1 + 1 = L
    BY <1>3, <1>4
  <2>2. At(fs[L - 1], fs[L - 1 + 1].base, fs[L - 1 + 1].gbot, fs[L - 1 + 1].gparent)
        /\ Between(fs[L - 1], fs[L - 1 + 1])
    BY <1>5, <2>1
  <2> QED BY <1>2, <2>1, <2>2
<1>8. Levelled(hs, fs[L].base, fs[L].gbot, fs[L].gparent)
  BY <1>6, <1>7 DEF Levelled
<1> QED BY <1>2, <1>3, <1>4, <1>7, <1>8 DEF L, hs

-----------------------------------------------------------------------------
(* Exceptions and levels                                                   *)

\* What is so of the call f that throws, or that is returned to by a call that
\* throws again: n0 states are those it would have, n those there are.
Thrown(f, n0, n, gp) ==
  /\ f.fn = "stream" => f.todo # << >>
  /\ f.fn \in Outer /\ f.onErr # << >> => n >= 1
  /\ Patient => /\ f.fn \in {"mask", "cell"} => n = n0
                /\ f.fn = "cell" => f.todo \in CellUp
                /\ f.onErr = << >> => gp = f.gparent
                /\ f.fn = "form" /\ f.onErr = << >> => n = n0 /\ n0 = f.base

\* a call that an exception passes has put back what is its caller's
LEMMA Passing ==
  ASSUME NEW f, NEW n \in Nat, NEW gb, NEW gp, At(f, n, gb, gp), Patient, NEW e, ~Stops(f, e),
         e = "later" => "later" \in Faults, cookie \in Cookies,
         f.onErr = << >> => gp = f.gparent
  PROVE  /\ gb = f.gbot /\ gp = f.gparent /\ n >= f.base
         /\ f.fn # "stream" /\ (f.fn # "mask" => f.onErr = << >>)
<1>0. StrongAt(f, f.todo, f.onErr, f.pend, n, gb, gp) /\ f.base \in Nat
  BY DEF At, LevelAt, WeakAt
<1>1. f.fn # "stream"
  BY DEF Stops, Patient
<1>2. f.fn # "mask" => f.onErr = << >>
  BY <1>1 DEF Stops
<1>3. CASE f.fn = "mask"
  <2>1. gb = f.gbot /\ gp = f.gparent /\ n = f.base
    BY <1>0, <1>3 DEF StrongAt, MaskAt
  <2>2. n >= f.base
    BY <1>0, <2>1, SMT
  <2> QED BY <1>1, <1>2, <2>1, <2>2
<1>4. CASE f.fn # "mask"
  <2>0. f.onErr = << >> /\ gp = f.gparent
    BY <1>2, <1>4
  <2>1. CASE f.fn \in Outer
    <3>1. gb = f.gbot /\ f.base = 0
      BY <1>0, <2>1 DEF StrongAt, PageAt
    <3>2. n >= f.base
      BY <3>1, SMT
    <3> QED BY <1>1, <2>0, <3>1, <3>2
  <2>2. CASE f.fn = "form"
    <3>1. FormAt(f, f.todo, f.onErr, f.pend, n, gb, gp)
      BY <1>0, <2>2 DEF StrongAt
    <3>2. gb = f.gbot /\ (n = f.base \/ n = f.base + 1 \/ n >= f.base + 1)
      BY <3>1 DEF FormAt
    <3>3. n >= f.base
      BY <1>0, <3>2, SMT
    <3> QED BY <1>1, <2>0, <3>2, <3>3
  <2>3. CASE f.fn = "pattern"
    <3>1. PatternAt(f, f.todo, f.onErr, f.pend, n, gb, gp)
      BY <1>0, <2>3 DEF StrongAt
    <3>2. gb = f.gbot /\ (n = f.base \/ n = f.base + 1 \/ n = f.base + 2 \/ n >= f.base + 1)
      BY <3>1 DEF PatternAt
    <3>3. n >= f.base
      BY <1>0, <3>2, SMT
    <3> QED BY <1>1, <2>0, <3>2, <3>3
  <2>4. CASE f.fn = "cell"
    <3>1. CellAt(f, f.todo, f.onErr, f.pend, n, gb, gp)
      BY <1>0, <2>4 DEF StrongAt
    <3>2. gb = f.gbot /\ (n = f.base \/ n = f.base + 1)
      BY <3>1 DEF CellAt
    <3>3. n >= f.base
      BY <1>0, <3>2, SMT
    <3> QED BY <1>1, <2>0, <3>2, <3>3
  <2>5. CASE f.fn \notin Outer \cup Named
    <3>1. gb = f.gbot /\ n = f.base
      BY <1>0, <2>5 DEF StrongAt, PaintAt
    <3>2. n >= f.base
      BY <1>0, <3>1, SMT
    <3> QED BY <1>1, <2>0, <3>1, <3>2
  <2> QED BY <1>1, <1>4, <2>1, <2>2, <2>3, <2>4, <2>5 DEF Named
<1> QED BY <1>3, <1>4

\* the one that catches it
LEMMA CaughtStrong ==
  ASSUME NEW f, NEW m \in Nat, NEW gb, NEW gp, At(f, m, gb, gp), Patient,
         NEW n \in Nat, n >= m, NEW e, e # "none", Stops(f, e),
         f.fn = "stream" => f.todo # << >>, f.fn \in {"mask", "cell"} => n = m,
         f.fn = "cell" => f.todo \in CellUp,
         NEW t, t = f.onErr, NEW o, NEW p,
         f.fn \in {"stream", "mask"} => o = f.onErr /\ p = f.pend,
         f.fn \notin {"stream", "mask"} => o = << >> /\ p = e
  PROVE  StrongAt(f, t, o, p, n, gb, gp)
<1>0. StrongAt(f, f.todo, f.onErr, f.pend, m, gb, gp) /\ f.base \in Nat
  BY DEF At, LevelAt, WeakAt
<1>1. f.fn \notin {"stream", "mask"} => f.onErr # << >>
  BY DEF Stops
<1>2. CASE f.fn \in Outer
  BY <1>0, <1>2 DEF StrongAt, Outer
<1>3. CASE f.fn = "stream"
  <2>1. StreamAt(f, f.todo, f.onErr, f.pend, m, gb, gp)
    BY <1>0, <1>3 DEF StrongAt
  <2>2. m >= f.base /\ gb = f.base /\ o = StreamSteps /\ p = "none" /\ t = StreamSteps
        /\ f.keep = f.base /\ gp = f.gparent
    BY <1>3, <2>1 DEF StreamAt
  <2>3. n >= f.base
    BY <1>0, <2>2, SMT
  <2>4. StreamAt(f, t, o, p, n, gb, gp)
    BY <2>2, <2>3, StreamTodos DEF StreamAt
  <2> QED BY <1>0, <1>3, <2>4 DEF StrongAt, Outer, Named
<1>4. CASE f.fn = "form"
  <2>1. FormAt(f, f.todo, f.onErr, f.pend, m, gb, gp)
    BY <1>0, <1>4 DEF StrongAt
  <2>2. /\ f.keep = f.base + 1 /\ gb = f.gbot /\ f.onErr = FormEnd(f.form) /\ gp = f.base
        /\ (m = f.base + 1 \/ m >= f.base + 1)
    BY <1>1, <1>4, <2>1 DEF FormAt
  <2>3. n >= f.base + 1
    BY <1>0, <2>2, SMT
  <2>4. t = FormEnd(f.form) /\ o = << >>
    BY <1>4, <2>2
  <2>5. FormAt(f, t, o, p, n, gb, gp)
    BY <2>2, <2>3, <2>4, Zenon DEF FormAt
  <2> QED BY <1>0, <1>4, <2>5 DEF StrongAt, Outer, Named
<1>5. CASE f.fn = "pattern"
  <2>1. PatternAt(f, f.todo, f.onErr, f.pend, m, gb, gp)
    BY <1>0, <1>5 DEF StrongAt
  <2>2. /\ f.keep = f.base + 1 /\ gb = f.gbot /\ f.onErr = <<Do("always")>> /\ gp = f.base
        /\ (m = f.base + 1 \/ m = f.base + 2)
    BY <1>1, <1>5, <2>1 DEF PatternAt
  <2>3. n >= f.base + 1
    BY <1>0, <2>2, SMT
  <2>4. t = <<Do("always")>> /\ o = << >> /\ p # "none"
    BY <1>5, <2>2
  <2>5. PatternAt(f, t, o, p, n, gb, gp)
    BY <2>2, <2>3, <2>4, Zenon DEF PatternAt
  <2> QED BY <1>0, <1>5, <2>5 DEF StrongAt, Outer, Named
<1>6. CASE f.fn = "cell"
  <2>1. CellAt(f, f.todo, f.onErr, f.pend, m, gb, gp)
    BY <1>0, <1>6 DEF StrongAt
  <2>2. f.todo \notin CellFlat
    <3>1. /\ CellSteps[1][1] = "gsave" /\ <<Do("down")>>[1][1] = "down"
      BY StepNames, SixTuples, Tuples DEF CellSteps
    <3>2. \A s \in CellUp : s # << >> /\ s[1][1] \in {"contents", "grestore"}
      BY StepNames, Tuples DEF CellUp
    <3> QED BY <1>6, <3>1, <3>2 DEF CellFlat
  <2>3. /\ f.keep = f.base /\ gb = f.gbot /\ gp = f.gparent
        /\ f.onErr = <<Do("grestore"), Do("down")>> /\ m = f.base + 1
    BY <1>1, <1>6, <2>1, <2>2 DEF CellAt
  <2>4. t = <<Do("grestore"), Do("down")>> /\ o = << >> /\ p # "none" /\ n = f.base + 1
    BY <1>6, <2>3
  <2>5. t \in CellUp
    BY <2>4 DEF CellUp
  <2>6. CellAt(f, t, o, p, n, gb, gp)
    BY <2>3, <2>4, <2>5, Zenon DEF CellAt
  <2> QED BY <1>0, <1>6, <2>6 DEF StrongAt, Outer, Named
<1>7. CASE f.fn = "mask"
  <2>1. MaskAt(f, f.todo, f.onErr, f.pend, m, gb, gp)
    BY <1>0, <1>7 DEF StrongAt
  <2>2. <<Do("end mask")>> \in MaskTodos
    BY Zenon DEF MaskTodos
  <2>3. MaskAt(f, t, o, p, n, gb, gp)
    BY <1>7, <2>1, <2>2 DEF MaskAt
  <2> QED BY <1>0, <1>7, <2>3 DEF StrongAt, Outer, Named
<1>8. CASE f.fn \notin Outer \cup Named
  <2>1. f.onErr = << >>
    BY <1>0, <1>8 DEF StrongAt, PaintAt
  <2> QED BY <1>1, <1>8, <2>1 DEF Named
<1> QED BY <1>2, <1>3, <1>4, <1>5, <1>6, <1>7, <1>8 DEF Named

LEMMA CaughtWeak ==
  ASSUME NEW f, NEW m, NEW g0, NEW gp, At(f, m, g0, gp),
         NEW n \in Nat, n >= 1, NEW gb \in Nat, gb >= 1, NEW e, e = "later" => "later" \in Faults,
         Stops(f, e), NEW t, t = f.onErr, NEW o, NEW p,
         f.fn \in {"stream", "mask"} => o = f.onErr /\ p = f.pend,
         f.fn \notin {"stream", "mask"} => o = << >> /\ p = e
  PROVE  WeakAt(f, t, o, p, n, gb)
<1>0. WeakAt(f, f.todo, f.onErr, f.pend, m, g0)
  BY DEF At, LevelAt
<1>1. p = "later" => "later" \in Faults
  BY <1>0 DEF WeakAt
<1>2. CASE f.fn \in Outer
  <2>1. f.fn \notin {"stream", "mask"}
    BY <1>2 DEF Outer
  <2>2. f.onErr # << >>
    BY <2>1 DEF Stops
  <2>3. f.onErr = FreeSteps /\ f.keep = 1
    BY <1>0, <1>2, <2>2 DEF WeakAt, OuterAt
  <2>4. t = FreeSteps /\ o = << >> /\ p = e
    BY <2>1, <2>3
  <2>5. FreeSteps \in Running
    BY DEF Running, Ended
  <2>6. OuterAt(t, o, f.keep)
    BY <2>3, <2>4, <2>5 DEF OuterAt
  <2>7. t # << >> /\ t[1][1] \in RunWords
    <3>1. FreeSteps # << >> /\ FreeSteps[1] = Do("always")
      BY OuterPieces, Tuples
    <3> QED BY <2>4, <3>1, StepNames DEF RunWords
  <2>8. NeedsAt(f.fn, t)
    BY <2>7 DEF NeedsAt
  <2> QED BY <1>0, <1>1, <1>2, <2>6, <2>8 DEF WeakAt
<1>3. CASE f.fn \notin Outer
  <2>1. NeedsAt(f.fn, t)
    BY <1>3 DEF NeedsAt
  <2> QED BY <1>0, <1>1, <1>3, <2>1 DEF WeakAt
<1> QED BY <1>2, <1>3

\* an exception, thrown by the innermost of fs
LEMMA Unwinds ==
  ASSUME NEW fs, IsSeq(fs), NEW n0 \in Nat, NEW gb0 \in Nat, NEW gp0, Levelled(fs, n0, gb0, gp0),
         \A i \in 1..Len(fs) : IsRec(fs[i]),
         \A i \in 1..Len(fs) - 1 : Waits(fs[i]),
         \A i, j \in 1..Len(fs) : i < j /\ fs[j].fn \in Outer => fs[i].fn \in Outer,
         NEW n \in Nat, NEW gb \in Nat, NEW gp, gb >= 1, (n >= 1) <=> (n0 >= 1),
         Patient => gb = gb0 /\ gp = gp0 /\ n >= n0,
         NEW e, e # "none", e = "later" => "later" \in Faults, cookie \in Cookies,
         fs # << >> => Thrown(fs[Len(fs)], n0, n, gp)
  PROVE  Levelled(Unwound(fs, e), n, gb, gp)
<1> DEFINE L == Len(fs)
           hs == Unwound(fs, e)
           N(i) == IF i = L THEN n0 ELSE fs[i + 1].base
           B(i) == IF i = L THEN gb0 ELSE fs[i + 1].gbot
           P(i) == IF i = L THEN gp0 ELSE fs[i + 1].gparent
           Fine(i) == gb = B(i) /\ gp = P(i) /\ n >= N(i)
<1>1. L \in Nat /\ DOMAIN fs = 1..L
  BY SeqLen
<1>2. CASE hs = << >>
  <2>1. Len(hs) = 0
    BY <1>2, SMT
  <2>2. 1..0 - 1 = {}
    BY SMT
  <2> QED BY <1>2, <2>1, <2>2 DEF Levelled
<1>3. ASSUME hs # << >>
      PROVE  Levelled(hs, n, gb, gp)
  <2>1. PICK k \in 1..L :
          /\ Stops(fs[k], e) /\ \A i \in k + 1..L : ~Stops(fs[i], e)
          /\ IsSeq(hs) /\ Len(hs) = k /\ hs # << >>
          /\ hs[k] = Caught(fs[k], e)
          /\ \A i \in 1..k - 1 : hs[i] = fs[i]
    BY <1>3, UnwoundIs
  <2>2. L # 0 /\ L \in 1..L /\ k \in Nat /\ k # 0
        /\ \A i \in 1..L : i = L \/ (i \in 1..L - 1 /\ i + 1 \in 1..L /\ i < i + 1 /\ i # i + 1)
    <3> HIDE DEF L
    <3> QED BY <1>1, <2>1, SMT
  <2>3. fs # << >> /\ Thrown(fs[L], n0, n, gp)
    BY <1>1, <2>2, SeqLen
  <2>4. \A i \in 1..L : At(fs[i], N(i), B(i), P(i))
    <3> SUFFICES ASSUME NEW i \in 1..L
                 PROVE  At(fs[i], N(i), B(i), P(i))
      OBVIOUS
    <3>1. CASE i = L
      BY <2>3, <3>1 DEF Levelled
    <3>2. CASE i # L /\ i \in 1..L - 1
      BY <3>2 DEF Levelled
    <3> QED BY <2>2, <3>1, <3>2
  <2>5. \A i \in 1..L : i # L => Between(fs[i], fs[i + 1])
    <3> SUFFICES ASSUME NEW i \in 1..L, i # L
                 PROVE  Between(fs[i], fs[i + 1])
      OBVIOUS
    <3>1. i \in 1..L - 1
      BY <2>2
    <3> QED BY <3>1 DEF Levelled
  <2>6. \A i \in 1..L : N(i) \in Nat /\ B(i) \in Nat
    <3> SUFFICES ASSUME NEW i \in 1..L
                 PROVE  N(i) \in Nat /\ B(i) \in Nat
      OBVIOUS
    <3>1. CASE i = L
      BY <3>1
    <3>2. CASE i # L /\ i + 1 \in 1..L
      <4>1. fs[i + 1].base \in Nat /\ fs[i + 1].gbot \in Nat
        BY <2>4, <3>2 DEF At, LevelAt, WeakAt
      <4> QED BY <3>2, <4>1
    <3> QED BY <2>2, <3>1, <3>2
  <2> HIDE DEF L, hs
  <2>7. ASSUME Patient
        PROVE  \A i \in 1..L : i >= k => Fine(i)
    <3>1. ASSUME NEW j \in 1..L, j > k, Fine(j)
          PROVE  /\ gb = fs[j].gbot /\ gp = fs[j].gparent /\ n >= fs[j].base
                 /\ fs[j].fn # "stream" /\ (fs[j].fn # "mask" => fs[j].onErr = << >>)
      <4>1. j \in k + 1..L
        BY <1>1, <2>2, <3>1, SMT
      <4>2. ~Stops(fs[j], e)
        BY <2>1, <4>1 DEF L
      <4>3. fs[j].onErr = << >> => P(j) = fs[j].gparent
        <5>1. CASE j = L
          BY <2>3, <2>7, <3>1, <5>1 DEF Thrown
        <5>2. CASE j # L
          BY <2>5, <2>7, <5>2 DEF Between
        <5> QED BY <5>1, <5>2
      <4>4. /\ B(j) = fs[j].gbot /\ P(j) = fs[j].gparent /\ N(j) >= fs[j].base
            /\ fs[j].fn # "stream" /\ (fs[j].fn # "mask" => fs[j].onErr = << >>)
        <5> DEFINE b == B(j)
                   p == P(j)
                   m == N(j)
                   f == fs[j]
        <5>1. At(f, m, b, p) /\ m \in Nat /\ (f.onErr = << >> => p = f.gparent) /\ ~Stops(f, e)
          BY <2>4, <2>6, <4>2, <4>3
        <5> HIDE DEF b, p, m, f
        <5>2. b = f.gbot /\ p = f.gparent /\ m >= f.base
              /\ f.fn # "stream" /\ (f.fn # "mask" => f.onErr = << >>)
          BY <2>7, <5>1, Passing
        <5> QED BY <5>2 DEF b, p, m, f
      <4>5. fs[j].base \in Nat /\ N(j) \in Nat
        BY <2>4, <2>6 DEF At, LevelAt, WeakAt
      <4>6. n >= fs[j].base
        <5> DEFINE m == N(j)
                   q == fs[j].base
        <5>1. n >= m /\ m >= q /\ m \in Nat /\ q \in Nat
          BY <3>1, <4>4, <4>5
        <5> HIDE DEF m, q
        <5>2. n >= q
          BY <5>1, SMT
        <5> QED BY <5>2 DEF q
      <4> QED BY <3>1, <4>4, <4>6
    <3>2. Fine(L)
      BY <2>7
    <3> DEFINE T == {i \in 1..L : i >= k /\ ~Fine(i)}
    <3>3. ASSUME T # {}
          PROVE  FALSE
      <4> DEFINE j == Max(T)
      <4>1. j \in T /\ \A y \in T : y <= j
        <5>1. T \in SUBSET (1..L)
          OBVIOUS
        <5> HIDE DEF T
        <5> QED BY <1>1, <3>3, <5>1, MaxIs
      <4>2. j \in 1..L /\ j >= k /\ ~Fine(j) /\ j # L
        BY <3>2, <4>1
      <4>3. j + 1 \notin T
        <5> HIDE DEF T
        <5>1. j \in 1..L
          BY <4>2
        <5> HIDE DEF j
        <5>2. ~(j + 1 <= j)
          BY <5>1, SMT
        <5> QED BY <4>1, <5>2 DEF j
      <4> HIDE DEF T, j
      <4>4. j + 1 \in 1..L /\ j + 1 > k /\ j + 1 >= k
        BY <2>2, <4>2, SMT
      <4>5. Fine(j + 1)
        BY <4>3, <4>4 DEF T
      <4> DEFINE i == j + 1
      <4>6. i \in 1..L /\ i > k /\ Fine(i)
        BY <4>4, <4>5
      <4>7. gb = fs[i].gbot /\ gp = fs[i].gparent /\ n >= fs[i].base
        BY <3>1, <4>6
      <4>8. Fine(j)
        BY <4>2, <4>7
      <4> QED BY <4>2, <4>8
    <3> QED BY <3>3
  <2> DEFINE f == fs[k]
             g == hs[k]
  <2>8. /\ IsRec(g) /\ Kin(f, g) /\ g.todo = f.onErr
        /\ f.fn \in {"stream", "mask"} => g.onErr = f.onErr /\ g.pend = f.pend
        /\ f.fn \notin {"stream", "mask"} => g.onErr = << >> /\ g.pend = e
    <3>1. IsRec(f) /\ g = Caught(f, e)
      BY <2>1 DEF L
    <3> HIDE DEF f, g
    <3> QED BY <3>1, CaughtFields
  <2>9. n >= 1
    <3>1. ASSUME fs[L].fn \notin Outer
          PROVE  n0 >= 1
      <4>1. WeakAt(fs[L], fs[L].todo, fs[L].onErr, fs[L].pend, n0, gb0)
        BY <2>2, <2>4 DEF At, LevelAt
      <4> QED BY <3>1, <4>1 DEF WeakAt, NeedsAt
    <3>2. CASE k # L /\ fs[L].fn \in Outer
      <4>1. k + 1 \in 1..L /\ k < L /\ k \in 1..L /\ (k + 1 = L \/ k + 1 < L)
        BY <1>1, <2>2, <3>2, SMT
      <4>2. f.fn \in Outer /\ fs[k + 1].fn \in Outer
        <5>1. \A i \in 1..L : i < L => fs[i].fn \in Outer
          BY <2>2, <3>2 DEF L
        <5> QED BY <3>2, <4>1, <5>1
      <4>3. f.onErr = << >>
        BY <2>5, <3>2, <4>1, <4>2 DEF Between
      <4>4. Stops(f, e)
        BY <2>1
      <4> HIDE DEF f
      <4> QED BY <4>2, <4>3, <4>4 DEF Stops, Outer
    <3>3. CASE k = L /\ fs[L].fn \in Outer
      <4>1. f.onErr # << >> /\ f.fn \in Outer
        <5>1. Stops(f, e) /\ f.fn \in Outer
          BY <2>1, <3>3
        <5> HIDE DEF f
        <5> QED BY <5>1 DEF Stops, Outer
      <4> QED BY <2>3, <3>3, <4>1 DEF Thrown
    <3> QED BY <3>1, <3>2, <3>3
  <2>10. At(g, n, gb, gp)
    <3> DEFINE m == N(k)
               b == B(k)
               p == P(k)
    <3>1. At(f, m, b, p) /\ m \in Nat /\ Stops(f, e)
      BY <2>1, <2>4, <2>6
    <3>2. ASSUME Patient
          PROVE  gb = b /\ gp = p /\ n >= m
      <4>1. k >= k /\ k \in 1..L
        BY <2>1, <2>2, SMT DEF L
      <4> QED BY <2>7, <3>2, <4>1
    <3>3. f.fn = "stream" => f.todo # << >>
      <4>1. CASE k = L
        BY <2>3, <4>1 DEF Thrown
      <4>2. CASE k \in 1..L - 1
        BY <4>2 DEF Waits, L
      <4> QED BY <2>2, <4>1, <4>2
    <3>4. ASSUME Patient, f.fn \in {"mask", "cell"}
          PROVE  n = m /\ (f.fn = "cell" => f.todo \in CellUp)
      <4>1. CASE k = L
        BY <2>3, <3>4, <4>1 DEF Thrown
      <4>2. CASE k # L
        <5>1. k + 1 \in 1..L /\ k + 1 >= k /\ k + 1 \in k + 1..L
              /\ (k + 1 # L => k + 1 \in 1..L - 1)
          BY <1>1, <2>2, <4>2, SMT
        <5>2. Between(f, fs[k + 1])
          BY <2>1, <2>5, <4>2 DEF L
        <5>3. ~Stops(fs[k + 1], e)
          BY <2>1, <5>1 DEF L
        <5>4. f.fn = "cell" => fs[k + 1].fn = "stream"
          BY <3>4, <5>2 DEF Between
        <5>5. f.fn = "mask" => fs[k + 1].fn = "form"
          BY <3>4, <5>2 DEF Between
        <5> DEFINE c == fs[k + 1]
        <5>6. c.fn # "stream"
          <6> HIDE DEF c
          <6>1. ~Stops(c, e)
            BY <5>3 DEF c
          <6> QED BY <3>4, <6>1 DEF Stops, Patient
        <5>7. f.fn = "mask"
          BY <3>4, <5>4, <5>6
        <5>8. c.fn = "form" /\ c.onErr = << >>
          <6>1. c.fn = "form"
            BY <5>5, <5>7
          <6> HIDE DEF c
          <6>2. ~Stops(c, e)
            BY <5>3 DEF c
          <6> QED BY <6>1, <6>2 DEF Stops
        <5>9. k + 1 = L
          <6>1. ASSUME k + 1 \in 1..L - 1
                PROVE  FALSE
            <7>1. Waits(c)
              BY <6>1 DEF L
            <7> HIDE DEF c
            <7> QED BY <5>8, <7>1, FormEndIs DEF Waits
          <6> QED BY <5>1, <6>1
        <5>10. n = n0 /\ n0 = c.base
          BY <2>3, <3>4, <5>8, <5>9 DEF Thrown
        <5> QED BY <4>2, <5>7, <5>10
      <4> QED BY <4>1, <4>2
    <3> DEFINE t == g.todo
               o == g.onErr
               q == g.pend
    <3> HIDE DEF m, b, p, f, g
    <3>5. /\ t = f.onErr
          /\ f.fn \in {"stream", "mask"} => o = f.onErr /\ q = f.pend
          /\ f.fn \notin {"stream", "mask"} => o = << >> /\ q = e
      BY <2>8
    <3> HIDE DEF t, o, q
    <3>6. Patient => StrongAt(f, t, o, q, n, gb, gp)
      <4> SUFFICES ASSUME Patient
                   PROVE  StrongAt(f, t, o, q, n, gb, gp)
        OBVIOUS
      <4>1. At(f, m, gb, gp) /\ n >= m
        BY <3>1, <3>2
      <4>2. (f.fn \in {"mask", "cell"} => n = m) /\ (f.fn = "cell" => f.todo \in CellUp)
        BY <3>4
      <4> QED BY <3>1, <3>3, <3>5, <4>1, <4>2, CaughtStrong
    <3>7. WeakAt(f, t, o, q, n, gb)
      BY <2>9, <3>1, <3>5, CaughtWeak
    <3>8. LevelAt(f, g.todo, g.onErr, g.pend, n, gb, gp)
      BY <3>6, <3>7 DEF LevelAt, t, o, q
    <3> QED BY <2>8, <3>8, KinAt
  <2>11. \A i \in 1..k : /\ hs[i].base = fs[i].base /\ hs[i].gbot = fs[i].gbot
                         /\ hs[i].gparent = fs[i].gparent /\ hs[i].fn = fs[i].fn
    <3>1. \A i \in 1..k : i = k \/ i \in 1..k - 1
      BY <2>2, SMT
    <3>2. /\ g.base = f.base /\ g.gbot = f.gbot /\ g.gparent = f.gparent /\ g.fn = f.fn
      BY <2>8 DEF Kin
    <3> QED BY <2>1, <3>1, <3>2 DEF L
  <2>12. ASSUME NEW i \in 1..k - 1
         PROVE  At(hs[i], hs[i + 1].base, hs[i + 1].gbot, hs[i + 1].gparent)
                /\ Between(hs[i], hs[i + 1])
    <3>1. i \in 1..L /\ i # L /\ i + 1 \in 1..k /\ i \in 1..L - 1
      <4>1. k \in 1..L
        BY <2>1 DEF L
      <4> QED BY <1>1, <4>1, <2>12, SMT
    <3>2. hs[i] = fs[i]
      BY <2>1, <2>12
    <3>3. At(fs[i], fs[i + 1].base, fs[i + 1].gbot, fs[i + 1].gparent)
          /\ Between(fs[i], fs[i + 1])
      BY <3>1 DEF Levelled, L
    <3>4. /\ hs[i + 1].base = fs[i + 1].base /\ hs[i + 1].gbot = fs[i + 1].gbot
          /\ hs[i + 1].gparent = fs[i + 1].gparent /\ hs[i + 1].fn = fs[i + 1].fn
      BY <2>11, <3>1
    <3>5. At(hs[i], hs[i + 1].base, hs[i + 1].gbot, hs[i + 1].gparent)
      BY <3>2, <3>3, <3>4
    <3>6. Between(hs[i], hs[i + 1])
      BY <3>2, <3>3, <3>4, Zenon DEF Between
    <3> QED BY <3>5, <3>6
  <2>13. Len(hs) = k
    BY <2>1
  <2>14. At(hs[Len(hs)], n, gb, gp)
    BY <2>10, <2>13
  <2> QED BY <2>12, <2>13, <2>14 DEF Levelled
<1> QED BY <1>2, <1>3

-----------------------------------------------------------------------------
(* What calls, or throws                                                   *)

LEMMA HeadFacts ==
  ASSUME NEW f, NEW n \in Nat, NEW gb, NEW gp, At(f, n, gb, gp), Patient, f.todo # << >>,
         NEW w, w = f.todo[1][1]
  PROVE  /\ f.fn = "mask" => w \in {"open", "form", "end mask"}
         /\ f.fn = "cell" => /\ w \in {"gsave", "contents", "grestore", "down"}
                             /\ w = "contents" => Tail(f.todo) \in CellUp
         /\ f.onErr = << >> /\ w \notin {"always", "down", "leave form"} =>
              gp = f.gparent /\ (f.fn = "form" => n = f.base)
<1>0. StrongAt(f, f.todo, f.onErr, f.pend, n, gb, gp) /\ f.base \in Nat
  BY DEF At, LevelAt, WeakAt
<1>1. CASE f.fn \in Outer
  BY <1>0, <1>1 DEF StrongAt, PageAt, Outer
<1>2. CASE f.fn = "stream"
  BY <1>0, <1>2 DEF StrongAt, StreamAt
<1>3. CASE f.fn = "form"
  <2>1. FormAt(f, f.todo, f.onErr, f.pend, n, gb, gp)
    BY <1>0, <1>3 DEF StrongAt
  <2> DEFINE d == <<Do("down"), Do("leave form")>> \o Unmasks(f.form)
             l == <<Do("leave form")>> \o Unmasks(f.form)
  <2>2. /\ FormEnd(f.form) # << >> /\ FormEnd(f.form)[1][1] = "always"
        /\ d[1][1] = "down" /\ l[1][1] = "leave form"
    BY EndNext
  <2>3. \/ f.onErr = FormEnd(f.form)
        \/ f.todo = FormEnd(f.form) \/ f.todo = d \/ f.todo = l
        \/ n = f.base /\ gp = f.gparent
    BY <2>1 DEF FormAt
  <2> HIDE DEF d, l
  <2> QED BY <1>3, <2>2, <2>3
<1>4. CASE f.fn = "pattern"
  <2>1. PatternAt(f, f.todo, f.onErr, f.pend, n, gb, gp)
    BY <1>0, <1>4 DEF StrongAt
  <2>2. f.onErr = <<Do("always")>> \/ f.todo = <<Do("always")>> \/ gp = f.gparent
    BY <2>1 DEF PatternAt
  <2>3. <<Do("always")>> # << >> /\ <<Do("always")>>[1][1] = "always"
    BY StepNames, Tuples
  <2> QED BY <1>4, <2>2, <2>3
<1>5. CASE f.fn = "cell"
  <2>1. gp = f.gparent /\ f.todo \in CellUp \cup CellFlat
    BY <1>0, <1>5 DEF StrongAt, CellAt
  <2>2. \/ w = "gsave" \/ (w = "contents" /\ Tail(f.todo) \in CellUp)
        \/ w = "grestore" \/ w = "down"
    BY <2>1, CellNext
  <2> QED BY <1>5, <2>1, <2>2
<1>6. CASE f.fn = "mask"
  <2>1. gp = f.gparent /\ f.todo \in MaskTodos
    BY <1>0, <1>6 DEF StrongAt, MaskAt
  <2>3. w \in {"open", "form", "end mask"}
    BY <2>1, MaskNext
  <2> QED BY <1>6, <2>1, <2>3
<1>7. CASE f.fn \notin Outer \cup Named
  <2>1. gp = f.gparent
    BY <1>0, <1>7 DEF StrongAt, PaintAt
  <2> QED BY <1>7, <2>1 DEF Named
<1> QED BY <1>1, <1>2, <1>3, <1>4, <1>5, <1>6, <1>7 DEF Named

\* gbot and gparent are among the states that there are
LEMMA Bounded ==
  ASSUME NEW f, NEW n \in Nat, NEW gb, NEW gp, At(f, n, gb, gp), Patient, n >= 1
  PROVE  gb <= n /\ gp <= n
<1>0. /\ StrongAt(f, f.todo, f.onErr, f.pend, n, gb, gp)
      /\ f.base \in Nat /\ f.gbot \in Nat /\ f.gparent \in Nat
  BY DEF At, LevelAt, WeakAt
<1>1. CASE f.fn \in Outer
  <2>1. gb = 1 /\ gp = 1
    BY <1>0, <1>1 DEF StrongAt, PageAt
  <2> QED BY <2>1, SMT
<1>2. ASSUME gb \in {f.gbot, f.base}, gp \in {f.gparent, f.base}, f.fn \notin Outer,
             n = f.base \/ n = f.base + 1 \/ n = f.base + 2 \/ n >= f.base + 1 \/ n >= f.base
      PROVE  gb <= n /\ gp <= n
  <2>1. f.gbot <= f.base /\ f.gparent <= f.base
    BY <1>0, <1>2 DEF StrongAt
  <2> QED BY <1>0, <1>2, <2>1, SMT
<1>3. CASE f.fn = "stream"
  BY <1>0, <1>2, <1>3 DEF StrongAt, StreamAt, Outer
<1>4. CASE f.fn = "form"
  <2>1. FormAt(f, f.todo, f.onErr, f.pend, n, gb, gp)
    BY <1>0, <1>4 DEF StrongAt
  <2>2. gb = f.gbot /\ (gp = f.gparent \/ gp = f.base)
        /\ (n = f.base \/ n = f.base + 1 \/ n >= f.base + 1)
    BY <2>1 DEF FormAt
  <2> QED BY <1>2, <1>4, <2>2 DEF Outer
<1>5. CASE f.fn = "pattern"
  <2>1. PatternAt(f, f.todo, f.onErr, f.pend, n, gb, gp)
    BY <1>0, <1>5 DEF StrongAt
  <2>2. gb = f.gbot /\ (gp = f.gparent \/ gp = f.base)
        /\ (n = f.base \/ n = f.base + 1 \/ n = f.base + 2 \/ n >= f.base + 1)
    BY <2>1 DEF PatternAt
  <2> QED BY <1>2, <1>5, <2>2 DEF Outer
<1>6. CASE f.fn = "cell"
  <2>1. gb = f.gbot /\ gp = f.gparent /\ (n = f.base \/ n = f.base + 1)
    BY <1>0, <1>6 DEF StrongAt, CellAt
  <2> QED BY <1>2, <1>6, <2>1 DEF Outer
<1>7. CASE f.fn = "mask" \/ f.fn \notin Outer \cup Named
  <2>1. gb = f.gbot /\ gp = f.gparent /\ n = f.base
    BY <1>0, <1>7 DEF StrongAt, MaskAt, PaintAt
  <2> QED BY <1>2, <1>7, <2>1 DEF Outer
<1> QED BY <1>1, <1>3, <1>4, <1>5, <1>6, <1>7 DEF Named

\* a call that is not one of a page or an annotation, at its begin
LEMMA Begins ==
  ASSUME NEW h, h.fn \notin Outer, h.pend = "none", h.keep \in Nat,
         h.base \in Nat, h.gbot \in Nat, h.gparent \in Nat, h.base >= 1, h.gbot >= 1,
         NEW n \in Nat, NEW gb \in Nat, NEW gp, n >= 1, gb >= 1,
         Patient => h.gbot <= h.base /\ h.gparent <= h.base
  PROVE  /\ WeakAt(h, h.todo, h.onErr, h.pend, n, gb)
         /\ (Patient =>
              \/ h.fn = "stream" /\ StreamAt(h, h.todo, h.onErr, h.pend, n, gb, gp)
              \/ h.fn = "form" /\ FormAt(h, h.todo, h.onErr, h.pend, n, gb, gp)
              \/ h.fn = "pattern" /\ PatternAt(h, h.todo, h.onErr, h.pend, n, gb, gp)
              \/ h.fn = "cell" /\ CellAt(h, h.todo, h.onErr, h.pend, n, gb, gp)
              \/ h.fn = "mask" /\ MaskAt(h, h.todo, h.onErr, h.pend, n, gb, gp)
              \/ h.fn \notin Named /\ PaintAt(h, h.todo, h.onErr, h.pend, n, gb, gp))
            => At(h, n, gb, gp)
<1>1. WeakAt(h, h.todo, h.onErr, h.pend, n, gb)
  BY DEF WeakAt, NeedsAt
<1> DEFINE t == h.todo
           o == h.onErr
           e == h.pend
<1> HIDE DEF t, o, e
<1>2. ASSUME Patient,
             \/ h.fn = "stream" /\ StreamAt(h, t, o, e, n, gb, gp)
             \/ h.fn = "form" /\ FormAt(h, t, o, e, n, gb, gp)
             \/ h.fn = "pattern" /\ PatternAt(h, t, o, e, n, gb, gp)
             \/ h.fn = "cell" /\ CellAt(h, t, o, e, n, gb, gp)
             \/ h.fn = "mask" /\ MaskAt(h, t, o, e, n, gb, gp)
             \/ h.fn \notin Named /\ PaintAt(h, t, o, e, n, gb, gp)
      PROVE  StrongAt(h, t, o, e, n, gb, gp)
  BY <1>2 DEF StrongAt, Named
<1>3. WeakAt(h, t, o, e, n, gb)
  BY <1>1 DEF t, o, e
<1>4. (Patient =>
         \/ h.fn = "stream" /\ StreamAt(h, t, o, e, n, gb, gp)
         \/ h.fn = "form" /\ FormAt(h, t, o, e, n, gb, gp)
         \/ h.fn = "pattern" /\ PatternAt(h, t, o, e, n, gb, gp)
         \/ h.fn = "cell" /\ CellAt(h, t, o, e, n, gb, gp)
         \/ h.fn = "mask" /\ MaskAt(h, t, o, e, n, gb, gp)
         \/ h.fn \notin Named /\ PaintAt(h, t, o, e, n, gb, gp))
       => LevelAt(h, t, o, e, n, gb, gp)
  BY <1>2, <1>3 DEF LevelAt
<1> QED BY <1>1, <1>4 DEF At, t, o, e

-----------------------------------------------------------------------------
(* Levels and steps                                                        *)

Levels == csi.gparent \in Nat /\ Levelled(calls, Len(gs), csi.gbot, csi.gparent)
LInv == IInv /\ cookie \in Cookies /\ Levels

LEMMA ReadyLevel ==
  ASSUME LInv, calls # << >>
  PROVE  /\ At(Here, Len(gs), csi.gbot, csi.gparent) /\ Shaped(Here) /\ IsRec(Here)
         /\ Len(gs) \in Nat /\ csi.gbot \in Nat /\ csi.gparent \in Nat /\ csi.gbot >= 1
         /\ IsSeq(calls) /\ Len(calls) \in 1..Len(calls) /\ Len(calls) \in Nat
         /\ IsSeq(gs) /\ IsCsi /\ Here.base \in Nat
         /\ (Here.todo # << >> => Fitting(Here))
         /\ Here.fn \notin Outer => Len(gs) >= 1
         /\ Here.todo # << >> /\ Here.todo[1][1] \in RunWords => Len(gs) >= 1
<1>1. IInv /\ Levelled(calls, Len(gs), csi.gbot, csi.gparent) /\ csi.gparent \in Nat
  BY DEF LInv, Levels
<1>2. /\ Len(calls) \in Nat /\ Len(calls) \in 1..Len(calls) /\ IsSeq(calls)
      /\ Shaped(Here) /\ IsFrame(Here) /\ IsSeq(gs) /\ IsCsi /\ Len(gs) \in Nat
      /\ csi.gbot \in Nat
  BY <1>1, Ready
<1>3. At(Here, Len(gs), csi.gbot, csi.gparent)
  BY <1>1 DEF Levelled, Here
<1> DEFINE f == Here
<1>4. At(f, Len(gs), csi.gbot, csi.gparent) /\ Shaped(f) /\ IsFrame(f)
  BY <1>2, <1>3
<1> HIDE DEF f
<1>5. /\ csi.gbot >= 1 /\ f.base \in Nat
      /\ (f.fn \notin Outer \/ (f.todo # << >> /\ f.todo[1][1] \in RunWords)) => Len(gs) >= 1
  BY <1>4 DEF At, LevelAt, WeakAt, NeedsAt
<1>6. IsRec(f)
  BY <1>4 DEF IsFrame, IsRec
<1>7. f.todo # << >> => Fitting(f)
  BY <1>4, StepIn DEF Fitting, Outer
<1> QED BY <1>1, <1>2, <1>3, <1>5, <1>6, <1>7 DEF f

\* the innermost call goes on as g
LEMMA Moves ==
  ASSUME LInv, calls # << >>, Here.todo # << >>, NEW g, Kin(Here, g), g.pend = Here.pend,
         NEW n2, NEW gb2, NEW gp2,
         After(Here, Len(gs), csi.gbot, csi.gparent, g.todo, g.onErr, n2, gb2, gp2)
  PROVE  /\ Levelled(Goes(g), n2, gb2, gp2)
         /\ n2 \in Nat /\ gb2 \in Nat /\ gp2 \in Nat
<1>1. /\ At(Here, Len(gs), csi.gbot, csi.gparent) /\ Fitting(Here)
      /\ Len(gs) \in Nat /\ csi.gbot \in Nat /\ csi.gparent \in Nat /\ IsSeq(calls)
      /\ Levelled(calls, Len(gs), csi.gbot, csi.gparent)
  BY ReadyLevel DEF LInv, Levels
<1> DEFINE f == Here
           n == Len(gs)
           gb == csi.gbot
           gp == csi.gparent
           t == g.todo
           o == g.onErr
<1>2. /\ At(f, n, gb, gp) /\ Fitting(f) /\ n \in Nat /\ gb \in Nat /\ gp \in Nat
      /\ f.todo # << >> /\ After(f, n, gb, gp, t, o, n2, gb2, gp2)
      /\ Kin(f, g) /\ g.pend = f.pend
  BY <1>1
<1>3. Goes(g) = Replaced(calls, Len(calls), g)
  BY DEF Goes, Replaced
<1>4. f = calls[Len(calls)]
  BY DEF Here
<1> HIDE DEF f, n, gb, gp, t, o
<1>5. LevelAt(f, t, o, f.pend, n2, gb2, gp2) /\ n2 \in Nat /\ gb2 \in Nat /\ gp2 \in Nat
  BY <1>2, LevelAfter
<1>6. LevelAt(f, g.todo, g.onErr, g.pend, n2, gb2, gp2)
  BY <1>2, <1>5 DEF t, o
<1>7. At(g, n2, gb2, gp2)
  BY <1>2, <1>6, KinAt
<1>8. o = << >> \/ o = f.onErr
  BY <1>2 DEF After
<1>9. Kin(calls[Len(calls)], g) /\ (g.onErr = << >> \/ g.onErr = calls[Len(calls)].onErr)
  BY <1>2, <1>4, <1>8 DEF o
<1> QED BY <1>1, <1>3, <1>5, <1>7, <1>9, Settles

\* it has not come to its next step
LEMMA Remains ==
  ASSUME LInv, calls # << >>, Here.todo # << >>, NEW n2, NEW gb2, NEW gp2,
         After(Here, Len(gs), csi.gbot, csi.gparent, Here.todo, Here.onErr, n2, gb2, gp2)
  PROVE  /\ Levelled(calls, n2, gb2, gp2)
         /\ n2 \in Nat /\ gb2 \in Nat /\ gp2 \in Nat
<1>1. /\ At(Here, Len(gs), csi.gbot, csi.gparent) /\ Fitting(Here)
      /\ Len(gs) \in Nat /\ csi.gbot \in Nat /\ csi.gparent \in Nat
      /\ Levelled(calls, Len(gs), csi.gbot, csi.gparent)
  BY ReadyLevel DEF LInv, Levels
<1> DEFINE f == Here
           n == Len(gs)
           gb == csi.gbot
           gp == csi.gparent
           t == f.todo
           o == f.onErr
<1>2. /\ At(f, n, gb, gp) /\ Fitting(f) /\ n \in Nat /\ gb \in Nat /\ gp \in Nat
      /\ f.todo # << >> /\ After(f, n, gb, gp, t, o, n2, gb2, gp2)
  BY <1>1
<1> HIDE DEF n, gb, gp, t, o
<1>3. LevelAt(f, t, o, f.pend, n2, gb2, gp2) /\ n2 \in Nat /\ gb2 \in Nat /\ gp2 \in Nat
  <2> HIDE DEF f
  <2> QED BY <1>2, LevelAfter
<1>4. At(f, n2, gb2, gp2)
  BY <1>3 DEF At, t, o
<1>5. calls # << >> => At(calls[Len(calls)], n2, gb2, gp2)
  BY <1>4 DEF Here
<1> QED BY <1>1, <1>3, <1>5 DEF Levelled

LEMMA WithFields ==
  ASSUME NEW f, IsRec(f), NEW t, NEW g, g = WithTodo(f, t)
  PROVE  /\ IsRec(g) /\ Kin(f, g)
         /\ g.todo = t /\ g.onErr = f.onErr /\ g.pend = f.pend /\ g.soft = f.soft
BY TodoFields, OfFields

\* without its first step
LEMMA PastGoes ==
  ASSUME LInv, calls # << >>, Here.todo # << >>
  PROVE  LET g == Shorter(Here)
         IN  /\ Past = Goes(g) /\ IsRec(g) /\ Kin(Here, g) /\ g.pend = Here.pend
             /\ g.todo = Tail(Here.todo) /\ g.onErr = Here.onErr /\ g.soft = Here.soft
<1>1. Past = Goes(Shorter(Here))
  BY PastIs DEF Going, LInv
<1>2. PICK t : t = Tail(Here.todo)
  OBVIOUS
<1>3. Shorter(Here) = WithTodo(Here, t)
  BY <1>2 DEF Shorter, WithTodo
<1>4. IsRec(Here)
  BY ReadyLevel
<1> DEFINE f == Here
           g == Shorter(f)
<1>5. g = WithTodo(f, t) /\ IsRec(f)
  BY <1>3, <1>4
<1> HIDE DEF f, g
<1>6. /\ IsRec(g) /\ Kin(f, g) /\ g.pend = f.pend
      /\ g.todo = t /\ g.onErr = f.onErr /\ g.soft = f.soft
  BY <1>5, WithFields
<1> QED BY <1>1, <1>2, <1>6 DEF f, g

LEMMA MovesPast ==
  ASSUME LInv, calls # << >>, Here.todo # << >>, NEW n2, NEW gb2, NEW gp2,
         After(Here, Len(gs), csi.gbot, csi.gparent, Tail(Here.todo), Here.onErr, n2, gb2, gp2)
  PROVE  /\ Levelled(Past, n2, gb2, gp2)
         /\ n2 \in Nat /\ gb2 \in Nat /\ gp2 \in Nat
<1> DEFINE g == Shorter(Here)
<1>1. /\ Past = Goes(g) /\ Kin(Here, g) /\ g.pend = Here.pend
      /\ g.todo = Tail(Here.todo) /\ g.onErr = Here.onErr
  BY PastGoes
<1> HIDE DEF g
<1>2. After(Here, Len(gs), csi.gbot, csi.gparent, g.todo, g.onErr, n2, gb2, gp2)
  BY <1>1
<1> QED BY <1>1, <1>2, Moves

\* a call that waits for the call h
LEMMA Waiting ==
  ASSUME LInv, calls # << >>, Here.todo # << >>, NEW w, w = Here.todo[1][1],
         w \notin {"always", "down", "leave form"},
         NEW g, Kin(Here, g), g.onErr = Here.onErr,
         NEW h, h.gparent = csi.gparent, h.fn \in Outer => w \in {"page", "annot"},
         w = "form" => h.fn = "form", w = "contents" => h.fn = "stream",
         w \notin {"open", "end mask", "gsave", "grestore"}
  PROVE  Between(g, h)
<1> DEFINE f == Here
           n == Len(gs)
           gb == csi.gbot
           gp == csi.gparent
<1>1. /\ At(f, n, gb, gp) /\ n \in Nat /\ f.todo # << >> /\ w = f.todo[1][1] /\ Kin(f, g)
      /\ g.onErr = f.onErr /\ h.gparent = gp
  BY ReadyLevel
<1> HIDE DEF f, n, gb, gp
<1>2. g.fn = f.fn /\ g.gparent = f.gparent
  BY <1>1 DEF Kin
<1>3. ASSUME f.fn \in Outer, w \in {"page", "annot"}
      PROVE  f.onErr = << >>
  <2>1. OuterAt(f.todo, f.onErr, f.keep)
    BY <1>1, <1>3 DEF At, LevelAt, WeakAt
  <2> QED BY <1>1, <1>3, <2>1, OuterNext
<1>4. Patient => /\ f.fn = "mask" => w = "form"
                 /\ f.fn = "cell" => w = "contents"
                 /\ f.onErr = << >> => gp = f.gparent
  BY <1>1, HeadFacts
<1> QED BY <1>1, <1>2, <1>3, <1>4 DEF Between

\* a call
LEMMA CallsLevel ==
  ASSUME LInv, calls # << >>, NEW fs, IsSeq(fs), fs # << >>,
         Levelled(fs, Len(gs), csi.gbot, csi.gparent),
         NEW h, h.base = Len(gs), h.gbot = csi.gbot, h.gparent = csi.gparent,
         Between(fs[Len(fs)], h), NEW n2, NEW gb2, NEW gp2, At(h, n2, gb2, gp2)
  PROVE  Levelled(Append(fs, h), n2, gb2, gp2)
BY Pushes

\* the calls with another in the place of the innermost
LEMMA GoesSeq ==
  ASSUME LInv, calls # << >>, NEW g
  PROVE  /\ IsSeq(Goes(g)) /\ Len(Goes(g)) = Len(calls) /\ Goes(g) # << >>
         /\ Goes(g)[Len(Goes(g))] = g
         /\ \A i \in 1..Len(calls) : i # Len(calls) => Goes(g)[i] = calls[i]
<1>1. Goes(g) = Replaced(calls, Len(calls), g)
  BY DEF Goes, Replaced
<1>2. IsSeq(calls) /\ Len(calls) \in 1..Len(calls) /\ Len(calls) \in Nat
  BY ReadyLevel
<1>3. /\ IsSeq(Goes(g)) /\ Len(Goes(g)) = Len(calls) /\ Goes(g)[Len(calls)] = g
      /\ \A i \in 1..Len(calls) : i # Len(calls) => Goes(g)[i] = calls[i]
  BY <1>1, <1>2, ReplacedSeq
<1>4. Len(calls) # 0
  BY <1>2, SMT
<1>5. Goes(g) # << >>
  BY <1>3, <1>4, SeqLen
<1> QED BY <1>3, <1>5

\* an exception that a step throws
LEMMA Throws ==
  ASSUME LInv, calls # << >>, NEW g, IsRec(g), Kin(Here, g),
         Levelled(Goes(g), Len(gs), csi.gbot, csi.gparent),
         Thrown(g, Len(gs), Len(gs), csi.gparent),
         NEW e, e # "none", e = "later" => "later" \in Faults
  PROVE  Levelled(Unwound(Goes(g), e), Len(gs), csi.gbot, csi.gparent)
<1> DEFINE fs == Goes(g)
           L == Len(calls)
<1>1. /\ Len(gs) \in Nat /\ csi.gbot \in Nat /\ csi.gbot >= 1 /\ L \in Nat /\ L \in 1..L
  BY ReadyLevel
<1>2. /\ IsSeq(fs) /\ Len(fs) = L /\ fs # << >> /\ fs[L] = g
      /\ \A i \in 1..L : i # L => fs[i] = calls[i]
  BY GoesSeq
<1>3. Stacked(calls, Len(gs), csi.gbot, marked)
  BY DEF LInv, IInv
<1>4. \A i \in 1..L - 1 : i \in 1..L /\ i # L
  <2> HIDE DEF L
  <2> QED BY <1>1, SMT
<1> HIDE DEF fs
<1>5. \A i \in 1..L : IsRec(fs[i])
  <2> SUFFICES ASSUME NEW i \in 1..L
               PROVE  IsRec(fs[i])
    OBVIOUS
  <2>1. IsRec(calls[i])
    BY <1>3 DEF Stacked, Shaped, IsFrame, IsRec
  <2> QED BY <1>2, <2>1
<1>6. \A i \in 1..L - 1 : Waits(fs[i])
  BY <1>2, <1>3, <1>4 DEF Stacked
<1>7. \A i \in 1..L : fs[i].fn = calls[i].fn
  <2>1. g.fn = calls[L].fn
    BY DEF Kin, Here
  <2> QED BY <1>2, <2>1
<1>8. \A i, j \in 1..L : i < j /\ fs[j].fn \in Outer => fs[i].fn \in Outer
  BY <1>3, <1>7 DEF Stacked
<1>9. /\ cookie \in Cookies /\ Levelled(fs, Len(gs), csi.gbot, csi.gparent)
      /\ Thrown(fs[Len(fs)], Len(gs), Len(gs), csi.gparent)
  BY <1>2 DEF LInv, fs
<1> DEFINE n == Len(gs)
<1>10. n \in Nat /\ n >= n
  <2>1. n \in Nat
    BY <1>1
  <2> HIDE DEF n
  <2> QED BY <2>1, SMT
<1>11. Levelled(Unwound(fs, e), n, csi.gbot, csi.gparent)
  BY <1>1, <1>2, <1>5, <1>6, <1>8, <1>9, <1>10, Unwinds
<1> QED BY <1>11 DEF fs

\* what the innermost call is when it throws
LEMMA ThrowsAt ==
  ASSUME LInv, calls # << >>, Here.todo # << >>, NEW w, w = Here.todo[1][1],
         w \in {"close", "draw", "unmask", "clip text", "contents"},
         NEW g, Kin(Here, g), g.onErr = Here.onErr, g.todo = Tail(Here.todo)
  PROVE  Thrown(g, Len(gs), Len(gs), csi.gparent)
<1> DEFINE f == Here
           n == Len(gs)
           gb == csi.gbot
           gp == csi.gparent
<1>1. /\ At(f, n, gb, gp) /\ n \in Nat /\ f.todo # << >> /\ w = f.todo[1][1] /\ Kin(f, g)
      /\ g.onErr = f.onErr /\ g.todo = Tail(f.todo) /\ Shaped(f)
      /\ (w \in RunWords => n >= 1)
  BY ReadyLevel
<1> HIDE DEF f, n, gb, gp
<1>2. g.fn = f.fn /\ g.gparent = f.gparent /\ g.base = f.base
  BY <1>1 DEF Kin
<1>3. f.fn # "stream"
  BY <1>1, StepIn
<1>4. ASSUME f.fn \in Outer, f.onErr # << >>
      PROVE  n >= 1
  <2>1. OuterAt(f.todo, f.onErr, f.keep)
    BY <1>1, <1>4 DEF At, LevelAt, WeakAt
  <2>2. w \in {"contents", "appearance"}
    BY <1>1, <1>4, <2>1, OuterNext
  <2> QED BY <1>1, <2>2 DEF RunWords
<1>5. ASSUME Patient
      PROVE  /\ f.fn = "cell" => Tail(f.todo) \in CellUp
             /\ f.onErr = << >> => gp = f.gparent /\ (f.fn = "form" => n = f.base)
  BY <1>1, <1>5, HeadFacts
<1>6. Thrown(g, n, n, gp)
  BY <1>1, <1>2, <1>3, <1>4, <1>5 DEF Thrown
<1> QED BY <1>6 DEF n, gp

\* a step at which there are as many states afterwards
Same == Len(gs') = Len(gs) /\ csi'.gbot = csi.gbot /\ csi'.gparent = csi.gparent

LEMMA SameStates ==
  ASSUME LInv, NEW x, gs' = gs \/ gs' = [gs EXCEPT ![Len(gs)] = x]
  PROVE  Len(gs') = Len(gs)
BY ReplacedSeq DEF Replaced, LInv, IInv

LEMMA SameCsi ==
  ASSUME LInv, NEW v,
         \/ csi' = csi
         \/ csi' = [csi EXCEPT !.clip = v]
         \/ csi' = [csi EXCEPT !.accumulate = v]
  PROVE  csi'.gbot = csi.gbot /\ csi'.gparent = csi.gparent
<1>1. IsCsi
  BY DEF LInv, IInv
<1>2. CASE csi' = [csi EXCEPT !.clip = v]
  <2>1. csi' = [gbot |-> csi.gbot, gparent |-> csi.gparent, clip |-> v,
                accumulate |-> csi.accumulate]
    BY <1>1, <1>2, SMT DEF IsCsi
  <2> QED BY <2>1, SMT
<1>3. CASE csi' = [csi EXCEPT !.accumulate = v]
  <2>1. csi' = [gbot |-> csi.gbot, gparent |-> csi.gparent, clip |-> csi.clip, accumulate |-> v]
    BY <1>1, <1>3, SMT DEF IsCsi
  <2> QED BY <2>1, SMT
<1> QED BY <1>2, <1>3

LEMMA OtherCsi ==
  ASSUME LInv, NEW v
  PROVE  /\ csi' = [csi EXCEPT !.gparent = v] => csi'.gbot = csi.gbot /\ csi'.gparent = v
         /\ csi' = [csi EXCEPT !.gbot = v] => csi'.gbot = v /\ csi'.gparent = csi.gparent
<1>1. IsCsi
  BY DEF LInv, IInv
<1>2. CASE csi' = [csi EXCEPT !.gparent = v]
  <2>1. csi' = [gbot |-> csi.gbot, gparent |-> v, clip |-> csi.clip,
                accumulate |-> csi.accumulate]
    BY <1>1, <1>2, SMT DEF IsCsi
  <2>2. csi'.gbot = csi.gbot /\ csi'.gparent = v
    BY <2>1, SMT
  <2>3. csi' = [csi EXCEPT !.gbot = v] => csi'.gbot = v
    <3>1. csi' = [csi EXCEPT !.gbot = v] =>
          csi' = [gbot |-> v, gparent |-> csi.gparent, clip |-> csi.clip,
                  accumulate |-> csi.accumulate]
      BY <1>1, SMT DEF IsCsi
    <3>2. csi' = [gbot |-> v, gparent |-> csi.gparent, clip |-> csi.clip,
                  accumulate |-> csi.accumulate] => csi'.gbot = v /\ csi'.gparent = csi.gparent
      BY SMT
    <3> QED BY <3>1, <3>2
  <2>4. csi' = [csi EXCEPT !.gbot = v] => csi'.gparent = csi.gparent
    <3>1. csi' = [csi EXCEPT !.gbot = v] =>
          csi' = [gbot |-> v, gparent |-> csi.gparent, clip |-> csi.clip,
                  accumulate |-> csi.accumulate]
      BY <1>1, SMT DEF IsCsi
    <3>2. csi' = [gbot |-> v, gparent |-> csi.gparent, clip |-> csi.clip,
                  accumulate |-> csi.accumulate] => csi'.gbot = v /\ csi'.gparent = csi.gparent
      BY SMT
    <3> QED BY <3>1, <3>2
  <2> QED BY <2>2, <2>3, <2>4
<1>3. CASE csi' = [csi EXCEPT !.gbot = v] /\ csi' # [csi EXCEPT !.gparent = v]
  <2>1. csi' = [gbot |-> v, gparent |-> csi.gparent, clip |-> csi.clip,
                accumulate |-> csi.accumulate]
    BY <1>1, <1>3, SMT DEF IsCsi
  <2>2. csi'.gbot = v /\ csi'.gparent = csi.gparent
    BY <2>1, SMT
  <2> QED BY <1>3, <2>2
<1> QED BY <1>2, <1>3

LEMMA QuietPast ==
  ASSUME LInv, calls # << >>, Here.todo # << >>, Same, calls' = Past, Here.todo[1][1] \in Still
  PROVE  Levels'
<1>1. After(Here, Len(gs), csi.gbot, csi.gparent, Tail(Here.todo), Here.onErr,
            Len(gs), csi.gbot, csi.gparent)
  BY Zenon DEF After
<1>2. Levelled(Past, Len(gs), csi.gbot, csi.gparent) /\ csi.gparent \in Nat
  BY <1>1, MovesPast
<1> QED BY <1>2 DEF Levels, Same

LEMMA QuietThrow ==
  ASSUME LInv, calls # << >>, Here.todo # << >>, Same, NEW e, Throw(Past, e),
         Here.todo[1][1] \in {"close", "draw", "unmask", "clip text", "contents"},
         e # "none", e = "later" => "later" \in Faults
  PROVE  Levels'
<1> DEFINE g == Shorter(Here)
<1>1. /\ Past = Goes(g) /\ IsRec(g) /\ Kin(Here, g)
      /\ g.todo = Tail(Here.todo) /\ g.onErr = Here.onErr
  BY PastGoes
<1> HIDE DEF g
<1>2. After(Here, Len(gs), csi.gbot, csi.gparent, Tail(Here.todo), Here.onErr,
            Len(gs), csi.gbot, csi.gparent)
  BY Zenon DEF After, Still
<1>3. Levelled(Past, Len(gs), csi.gbot, csi.gparent) /\ csi.gparent \in Nat
  BY <1>2, MovesPast
<1>4. Thrown(g, Len(gs), Len(gs), csi.gparent)
  BY <1>1, ThrowsAt
<1>5. Levelled(Unwound(Goes(g), e), Len(gs), csi.gbot, csi.gparent)
  BY <1>1, <1>3, <1>4, Throws
<1>6. calls' = Unwound(Goes(g), e)
  BY <1>1 DEF Throw
<1> QED BY <1>3, <1>5, <1>6 DEF Levels, Same

LEMMA NextGoes ==
  ASSUME LInv, NEW step, Next1(step)
  PROVE  calls # << >> /\ Here.todo # << >> /\ Here.todo[1][1] = step
BY DEF Next1

LEMMA BracketLevels ==
  ASSUME LInv, OpenBracket \/ CloseBracket \/ EndMask \/ Draw
  PROVE  Levels'
<1>1. Same
  BY SameStates, SameCsi DEF OpenBracket, CloseBracket, EndMask, Draw, Same
<1>2. PICK w : /\ w \in {"open", "close", "end mask", "draw"} /\ Next1(w)
               /\ calls' = Past \/ (w \in {"close", "draw"} /\ Throw(Past, "bad"))
  BY DEF OpenBracket, CloseBracket, EndMask, Draw
<1>3. calls # << >> /\ Here.todo # << >> /\ Here.todo[1][1] = w
  BY <1>2, NextGoes
<1>4. CASE calls' = Past
  BY <1>1, <1>2, <1>3, <1>4, QuietPast DEF Still
<1>5. CASE w \in {"close", "draw"} /\ Throw(Past, "bad")
  BY <1>1, <1>3, <1>5, QuietThrow
<1> QED BY <1>2, <1>4, <1>5

LEMMA StateLevels ==
  ASSUME LInv, ClipStep \/ ClipText \/ Reset \/ EndOfStream
  PROVE  Levels'
<1>1. Same
  BY SameStates, SameCsi DEF ClipStep, ClipText, Reset, EndOfStream, Same
<1>2. PICK w : /\ w \in {"clip", "clip text", "reset", "token"} /\ Next1(w)
               /\ calls' = Past \/ (w = "clip text" /\ Throw(Past, "bad"))
  BY DEF ClipStep, ClipText, Reset, EndOfStream
<1>3. calls # << >> /\ Here.todo # << >> /\ Here.todo[1][1] = w
  BY <1>2, NextGoes
<1>4. CASE calls' = Past
  BY <1>1, <1>2, <1>3, <1>4, QuietPast DEF Still
<1>5. CASE w = "clip text" /\ Throw(Past, "bad")
  BY <1>1, <1>3, <1>5, QuietThrow
<1> QED BY <1>2, <1>4, <1>5

LEMMA EndBlendLevels ==
  ASSUME LInv, EndBlend
  PROVE  Levels'
<1>1. calls # << >> /\ Here.todo # << >> /\ Here.todo[1][1] = "end blend"
  BY NextGoes DEF EndBlend
<1>2. gs' = gs /\ csi' = csi
  BY DEF EndBlend
<1>3. Same
  BY <1>2 DEF Same
<1>4. CASE calls' = Past
  BY <1>1, <1>3, <1>4, QuietPast DEF Still
<1>5. CASE calls' = Then(<<Close("group")>>)
  <2> DEFINE t == <<Close("group")>> \o Tail(Here.todo)
             g == WithTodo(Here, t)
  <2>1. calls' = Goes(g)
    BY <1>5 DEF Then, WithTodo
  <2>2. IsRec(Here)
    BY <1>1, ReadyLevel
  <2> HIDE DEF t
  <2>3. Kin(Here, g) /\ g.pend = Here.pend /\ g.todo = t /\ g.onErr = Here.onErr
    BY <2>2, WithFields
  <2> HIDE DEF g
  <2>4. After(Here, Len(gs), csi.gbot, csi.gparent, g.todo, g.onErr,
              Len(gs), csi.gbot, csi.gparent)
    BY <1>1, <2>3, Zenon DEF After, t
  <2>5. Levelled(Goes(g), Len(gs), csi.gbot, csi.gparent) /\ csi.gparent \in Nat
    BY <1>1, <2>3, <2>4, Moves
  <2> QED BY <1>2, <2>1, <2>5 DEF Levels
<1> QED BY <1>4, <1>5 DEF EndBlend, Past

LEMMA RestoreIs ==
  ASSUME LInv, Grestore
  PROVE  Len(gs') = Restored(Len(gs), csi.gbot)
<1>1. IsSeq(gs) /\ Len(gs) \in Nat /\ csi.gbot \in Nat
  BY SeqLen DEF LInv, IInv, IsCsi
<1>2. CASE Len(gs) <= csi.gbot
  BY <1>2 DEF Grestore, Restored
<1>3. CASE ~(Len(gs) <= csi.gbot)
  <2>1. gs' = Front(gs)
    BY <1>3 DEF Grestore, Drop
  <2>2. Len(gs) # 0
    BY <1>1, <1>3, SMT
  <2>3. gs # << >>
    BY <1>1, <2>2, SeqLen
  <2>4. Len(gs') = Len(gs) - 1
    BY <1>1, <2>1, <2>3, FrontSeq
  <2> QED BY <1>3, <2>4 DEF Restored
<1> QED BY <1>2, <1>3

LEMMA SaveIs ==
  ASSUME LInv, NEW x, gs' = Append(gs, x)
  PROVE  Len(gs') = Len(gs) + 1
BY AppendSeq DEF LInv, IInv

LEMMA SavedLevels ==
  ASSUME LInv, GsaveStep \/ GrestoreStep \/ GrestoreDown
  PROVE  Levels'
<1> DEFINE n == Len(gs)
<1>1. csi' = csi
  BY DEF GsaveStep, GrestoreStep, GrestoreDown
<1>2. CASE GsaveStep
  <2>1. Len(gs') = n + 1 /\ calls' = Past
    BY <1>2, SaveIs DEF GsaveStep, Gsave
  <2>2. calls # << >> /\ Here.todo # << >> /\ Here.todo[1][1] = "gsave"
    BY <1>2, NextGoes DEF GsaveStep
  <2>3. After(Here, n, csi.gbot, csi.gparent, Tail(Here.todo), Here.onErr,
              n + 1, csi.gbot, csi.gparent)
    BY <2>2, Zenon DEF After
  <2>4. Levelled(Past, n + 1, csi.gbot, csi.gparent) /\ csi.gparent \in Nat
    BY <2>2, <2>3, MovesPast
  <2> QED BY <1>1, <2>1, <2>4 DEF Levels
<1>3. CASE GrestoreStep
  <2>1. Len(gs') = Restored(n, csi.gbot) /\ calls' = Past
    BY <1>3, RestoreIs DEF GrestoreStep
  <2>2. calls # << >> /\ Here.todo # << >> /\ Here.todo[1][1] = "grestore"
    BY <1>3, NextGoes DEF GrestoreStep
  <2>3. After(Here, n, csi.gbot, csi.gparent, Tail(Here.todo), Here.onErr,
              Restored(n, csi.gbot), csi.gbot, csi.gparent)
    BY <2>2, Zenon DEF After
  <2>4. Levelled(Past, Restored(n, csi.gbot), csi.gbot, csi.gparent) /\ csi.gparent \in Nat
    BY <2>2, <2>3, MovesPast
  <2> QED BY <1>1, <2>1, <2>4 DEF Levels
<1>4. CASE GrestoreDown
  <2>1. calls # << >> /\ Here.todo # << >> /\ Here.todo[1][1] = "down"
    BY <1>4, NextGoes DEF GrestoreDown
  <2>2. CASE n > Here.keep
    <3>1. Len(gs') = Restored(n, csi.gbot) /\ calls' = calls
      BY <1>4, <2>2, RestoreIs DEF GrestoreDown
    <3>2. After(Here, n, csi.gbot, csi.gparent, Here.todo, Here.onErr,
                Restored(n, csi.gbot), csi.gbot, csi.gparent)
      BY <2>1, <2>2, Zenon DEF After
    <3>3. Levelled(calls, Restored(n, csi.gbot), csi.gbot, csi.gparent) /\ csi.gparent \in Nat
      BY <2>1, <3>2, Remains
    <3> QED BY <1>1, <3>1, <3>3 DEF Levels
  <2>3. CASE ~(n > Here.keep)
    <3>1. gs' = gs /\ calls' = Past
      BY <1>4, <2>3 DEF GrestoreDown
    <3>2. After(Here, n, csi.gbot, csi.gparent, Tail(Here.todo), Here.onErr,
                n, csi.gbot, csi.gparent)
      BY <2>1, <2>3, Zenon DEF After
    <3>3. Levelled(Past, n, csi.gbot, csi.gparent) /\ csi.gparent \in Nat
      BY <2>1, <3>2, MovesPast
    <3> QED BY <1>1, <3>1, <3>3 DEF Levels
  <2> QED BY <2>2, <2>3
<1> QED BY <1>2, <1>3, <1>4

LEMMA LeaveLevels ==
  ASSUME LInv, Leave \/ LeaveForm
  PROVE  Levels'
<1> DEFINE n == Len(gs)
<1>1. CASE Leave
  <2>1. calls # << >> /\ Here.todo # << >> /\ Here.todo[1][1] = "leave" /\ calls' = Past /\ gs' = gs
    BY <1>1, NextGoes DEF Leave
  <2>2. csi'.gbot = Here.gbot /\ csi'.gparent = csi.gparent
    BY <1>1, OtherCsi DEF Leave
  <2>3. After(Here, n, csi.gbot, csi.gparent, Tail(Here.todo), Here.onErr,
              n, Here.gbot, csi.gparent)
    BY <2>1, Zenon DEF After
  <2>4. Levelled(Past, n, Here.gbot, csi.gparent) /\ csi.gparent \in Nat
    BY <2>1, <2>3, MovesPast
  <2> QED BY <2>1, <2>2, <2>4 DEF Levels
<1>2. CASE LeaveForm
  <2>1. Len(gs') = Restored(n, csi.gbot) /\ calls' = Past /\ csi' = csi
    BY <1>2, RestoreIs DEF LeaveForm
  <2>2. calls # << >> /\ Here.todo # << >> /\ Here.todo[1][1] = "leave form"
    BY <1>2, NextGoes DEF LeaveForm
  <2>3. After(Here, n, csi.gbot, csi.gparent, Tail(Here.todo), Here.onErr,
              Restored(n, csi.gbot), csi.gbot, csi.gparent)
    BY <2>2, Zenon DEF After
  <2>4. Levelled(Past, Restored(n, csi.gbot), csi.gbot, csi.gparent) /\ csi.gparent \in Nat
    BY <2>2, <2>3, MovesPast
  <2> QED BY <2>1, <2>4 DEF Levels
<1> QED BY <1>1, <1>2

LEMMA AlwaysLevels ==
  ASSUME LInv, Always
  PROVE  Levels'
<1>1. calls # << >> /\ Here.todo # << >> /\ Here.todo[1][1] = "always" /\ gs' = gs
  BY NextGoes DEF Always
<1>2. csi'.gbot = csi.gbot /\ csi'.gparent = Here.gparent
  BY OtherCsi DEF Always
<1>3. PICK o, t : o = << >> /\ t = Tail(Here.todo)
  OBVIOUS
<1> DEFINE g == WithTodo(WithOnErr(Here, o), t)
<1>4. calls' = Goes(g)
  BY <1>3 DEF Always, WithTodo, WithOnErr
<1>5. Kin(Here, g) /\ g.pend = Here.pend /\ g.todo = t /\ g.onErr = o
  <2> DEFINE f == Here
             h == WithOnErr(f, o)
  <2>1. IsRec(f)
    BY <1>1, ReadyLevel
  <2> HIDE DEF f
  <2>2. IsRec(h) /\ Kin(f, h) /\ h.pend = f.pend /\ h.onErr = o
    BY <2>1, OnErrFields, OfFields
  <2> HIDE DEF h
  <2>3. LET k == WithTodo(h, t)
        IN  Kin(h, k) /\ k.pend = h.pend /\ k.todo = t /\ k.onErr = h.onErr
    BY <2>2, WithFields
  <2>4. Kin(h, g) /\ g.pend = h.pend /\ g.todo = t /\ g.onErr = h.onErr
    BY <2>3 DEF h, f
  <2> HIDE DEF g
  <2>5. Kin(f, g)
    BY <2>2, <2>4, Zenon DEF Kin
  <2> QED BY <2>2, <2>4, <2>5 DEF f
<1> HIDE DEF g
<1>6. After(Here, Len(gs), csi.gbot, csi.gparent, g.todo, g.onErr,
            Len(gs), csi.gbot, Here.gparent)
  BY <1>1, <1>3, <1>5, Zenon DEF After
<1>7. Levelled(Goes(g), Len(gs), csi.gbot, Here.gparent) /\ Here.gparent \in Nat
  BY <1>1, <1>5, <1>6, Moves
<1> QED BY <1>1, <1>2, <1>4, <1>7 DEF Levels

\* pdf_new_csi, pdf_free_csi
LEMMA AfreshLevels ==
  ASSUME LInv, NewInterpreter \/ FreeInterpreter
  PROVE  Levels'
<1>1. csi'.gbot = 1 /\ csi'.gparent = 1 /\ calls' = Past
  <2>1. csi' = NewCsi /\ calls' = Past
    BY DEF NewInterpreter, FreeInterpreter
  <2>2. NewCsi.gbot = 1 /\ NewCsi.gparent = 1
    BY SMT DEF NewCsi
  <2> QED BY <2>1, <2>2
<1>2. PICK w, n :
        /\ \/ w = "new" /\ n = 2
           \/ w = "free" /\ n = 0
        /\ Next1(w) /\ Len(gs') = n
  <2>1. Len(<<NewState, NewState>>) = 2 /\ Len(<< >>) = 0
    BY SMT
  <2> QED BY <2>1 DEF NewInterpreter, FreeInterpreter
<1>3. calls # << >> /\ Here.todo # << >> /\ Here.todo[1][1] = w
  BY <1>2, NextGoes
<1>4. After(Here, Len(gs), csi.gbot, csi.gparent, Tail(Here.todo), Here.onErr, n, 1, 1)
  BY <1>2, <1>3, Zenon DEF After
<1>5. Levelled(Past, n, 1, 1) /\ 1 \in Nat
  BY <1>3, <1>4, MovesPast
<1> QED BY <1>1, <1>2, <1>5 DEF Levels

LEMMA GoesHere ==
  ASSUME LInv, calls # << >>
  PROVE  Goes(Here) = calls
<1>1. PICK S : calls \in Seq(S)
  BY ReadyLevel DEF IsSeq
<1>2. \A n : [calls EXCEPT ![n] = calls[n]] = calls
  BY <1>1, SMT
<1> QED BY <1>2 DEF Goes, Here

LEMMA KinSelf ==
  ASSUME NEW f
  PROVE  Kin(f, f)
BY Zenon DEF Kin

\* the operators that paint nothing and call nothing
LEMMA TokenLevels ==
  ASSUME LInv, NEW n2, csi'.gbot = csi.gbot, csi'.gparent = csi.gparent, calls' = calls,
         Next1("token"), n2 \in {Len(gs), Len(gs) + 1, Restored(Len(gs), csi.gbot)},
         Len(gs') = n2
  PROVE  Levels'
<1>1. calls # << >> /\ Here.todo # << >> /\ Here.todo[1][1] = "token"
  BY NextGoes
<1>2. After(Here, Len(gs), csi.gbot, csi.gparent, Here.todo, Here.onErr,
            n2, csi.gbot, csi.gparent)
  BY <1>1, Zenon DEF After
<1>3. Levelled(calls, n2, csi.gbot, csi.gparent) /\ csi.gparent \in Nat
  BY <1>1, <1>2, Remains
<1> QED BY <1>3 DEF Levels

LEMMA OperatorLevels ==
  ASSUME LInv, NEW m, NEW kind,
         Run_q \/ Run_Q \/ Run_W \/ Run_ET \/ SetBlend \/ SetSoftmask(m) \/ SetFill(kind)
  PROVE  Levels'
<1>1. Next1("token") /\ calls' = calls
  BY DEF Run_q, Run_Q, Run_W, Run_ET, SetBlend, SetSoftmask, SetFill, Token, Reads
<1>2. csi'.gbot = csi.gbot /\ csi'.gparent = csi.gparent
  BY SameCsi DEF Run_q, Run_Q, Run_W, Run_ET, SetBlend, SetSoftmask, SetFill
<1>3. CASE Run_q
  <2>1. Len(gs') = Len(gs) + 1
    BY <1>3, SaveIs DEF Run_q, Gsave
  <2> QED BY <1>1, <1>2, <2>1, TokenLevels
<1>4. CASE Run_Q
  <2>1. Len(gs') = Restored(Len(gs), csi.gbot)
    BY <1>4, RestoreIs DEF Run_Q
  <2> QED BY <1>1, <1>2, <2>1, TokenLevels
<1>5. CASE Run_W \/ Run_ET \/ SetBlend \/ SetSoftmask(m)
  <2>1. Len(gs') = Len(gs)
    BY <1>5, SameStates DEF Run_W, Run_ET, SetBlend, SetSoftmask
  <2> QED BY <1>1, <1>2, <2>1, TokenLevels
<1>6. CASE SetFill(kind)
  <2> DEFINE hs == [gs EXCEPT ![Len(gs)].fill = kind]
  <2>1. IsSeq(gs)
    BY DEF LInv, IInv
  <2>2. PICK x : hs = Replaced(gs, Len(gs), x)
    BY DEF Replaced
  <2>3. PICK y : gs' = Replaced(hs, Len(gs), y)
    <3>1. gs' = [hs EXCEPT ![Len(gs)].from = IF kind = "colour" THEN 0 ELSE csi.gparent]
      BY <1>6 DEF SetFill
    <3> HIDE DEF hs
    <3> QED BY <3>1 DEF Replaced
  <2> HIDE DEF hs
  <2>4. IsSeq(hs) /\ Len(hs) = Len(gs)
    BY <2>1, <2>2, ReplacedSeq
  <2>5. Len(gs') = Len(gs)
    BY <2>3, <2>4, ReplacedSeq
  <2> QED BY <1>1, <1>2, <2>5, TokenLevels
<1> QED BY <1>3, <1>4, <1>5, <1>6

-----------------------------------------------------------------------------
(* Calls and levels                                                        *)

\* a call h, of the innermost call, which goes on as g
LEMMA CallsFrom ==
  ASSUME LInv, calls # << >>, Here.todo # << >>, NEW w, w = Here.todo[1][1],
         w \in {"softmask", "contents", "pattern", "cell", "form", "appearance", "token",
                "page", "annot"},
         NEW g, Kin(Here, g), g.pend = Here.pend, g.onErr = Here.onErr,
         g.todo = Tail(Here.todo) \/ (w = "token" /\ g.todo = Here.todo),
         NEW h, h.base = Len(gs), h.gbot = csi.gbot, h.gparent = csi.gparent,
         h.fn \in Outer => w \in {"page", "annot"},
         w = "form" => h.fn = "form", w = "contents" => h.fn = "stream",
         NEW n2, NEW gb2, NEW gp2, At(h, n2, gb2, gp2)
  PROVE  Levelled(Append(Goes(g), h), n2, gb2, gp2)
<1>1. After(Here, Len(gs), csi.gbot, csi.gparent, g.todo, g.onErr,
            Len(gs), csi.gbot, csi.gparent)
  <2>1. w \in Still
    BY DEF Still
  <2>2. Len(gs) \in {Len(gs), Len(gs) + 1, Restored(Len(gs), csi.gbot)}
    OBVIOUS
  <2> QED BY <2>1, <2>2, Zenon DEF After
<1>2. Levelled(Goes(g), Len(gs), csi.gbot, csi.gparent)
  BY <1>1, Moves
<1>3. IsSeq(Goes(g)) /\ Goes(g) # << >> /\ Goes(g)[Len(Goes(g))] = g
  BY GoesSeq
<1>4. Between(g, h)
  BY Waiting
<1> QED BY <1>2, <1>3, <1>4, CallsLevel

LEMMA Enters ==
  ASSUME LInv, calls # << >>, Here.todo # << >>, NEW w, w = Here.todo[1][1],
         w \in {"softmask", "contents", "pattern", "cell", "form", "appearance", "token"},
         NEW g, Kin(Here, g), g.pend = Here.pend, g.onErr = Here.onErr,
         g.todo = Tail(Here.todo) \/ (w = "token" /\ g.todo = Here.todo),
         NEW h, h.base = Len(gs), h.gbot = csi.gbot, h.gparent = csi.gparent,
         h.fn \notin Outer, h.pend = "none", h.keep \in Nat,
         w = "form" => h.fn = "form", w = "contents" => h.fn = "stream",
         NEW n2, n2 \in {Len(gs), Len(gs) + 1}, NEW gb2, gb2 \in {csi.gbot, Len(gs)}, NEW gp2,
         Patient =>
           \/ h.fn = "stream" /\ StreamAt(h, h.todo, h.onErr, h.pend, n2, gb2, gp2)
           \/ h.fn = "form" /\ FormAt(h, h.todo, h.onErr, h.pend, n2, gb2, gp2)
           \/ h.fn = "pattern" /\ PatternAt(h, h.todo, h.onErr, h.pend, n2, gb2, gp2)
           \/ h.fn = "cell" /\ CellAt(h, h.todo, h.onErr, h.pend, n2, gb2, gp2)
           \/ h.fn = "mask" /\ MaskAt(h, h.todo, h.onErr, h.pend, n2, gb2, gp2)
           \/ h.fn \notin Named /\ PaintAt(h, h.todo, h.onErr, h.pend, n2, gb2, gp2)
  PROVE  Levelled(Append(Goes(g), h), n2, gb2, gp2)
<1>1. /\ At(Here, Len(gs), csi.gbot, csi.gparent) /\ Shaped(Here)
      /\ Len(gs) \in Nat /\ csi.gbot \in Nat /\ csi.gparent \in Nat /\ csi.gbot >= 1
      /\ Here.fn \notin Outer \/ w \in RunWords => Len(gs) >= 1
  BY ReadyLevel
<1>2. Here.fn \notin Outer \/ w \in RunWords
  <2>1. w \in {"contents", "appearance"} => w \in RunWords
    BY DEF RunWords
  <2>2. w = "token" => Here.fn \notin Outer
    BY <1>1, StepIn DEF Outer
  <2>3. w \in {"pattern", "cell", "form"} => Here.fn \notin Outer
    BY <1>1, StepIn
  <2>4. ASSUME w = "softmask", Here.fn \in Outer
        PROVE  FALSE
    <3> DEFINE f == Here
    <3>1. f.todo # << >> /\ w = f.todo[1][1] /\ f.fn \in Outer
          /\ At(f, Len(gs), csi.gbot, csi.gparent)
      BY <1>1, <2>4
    <3> HIDE DEF f
    <3>2. OuterAt(f.todo, f.onErr, f.keep)
      BY <3>1 DEF At, LevelAt, WeakAt
    <3> QED BY <2>4, <3>1, <3>2, OuterNext
  <2> QED BY <2>1, <2>2, <2>3, <2>4
<1>3. Len(gs) >= 1
  BY <1>1, <1>2
<1>4. Patient => csi.gbot <= Len(gs) /\ csi.gparent <= Len(gs)
  BY <1>1, <1>3, Bounded
<1>5. n2 \in Nat /\ n2 >= 1 /\ gb2 \in Nat /\ gb2 >= 1
  <2> DEFINE n == Len(gs)
             b == csi.gbot
  <2>1. n \in Nat /\ b \in Nat /\ n >= 1 /\ b >= 1 /\ n2 \in {n, n + 1} /\ gb2 \in {b, n}
    BY <1>1, <1>3
  <2> HIDE DEF n, b
  <2> QED BY <2>1, SMT
<1>6. h.base \in Nat /\ h.gbot \in Nat /\ h.gparent \in Nat /\ h.base >= 1 /\ h.gbot >= 1
      /\ (Patient => h.gbot <= h.base /\ h.gparent <= h.base)
  BY <1>1, <1>3, <1>4
<1>7. At(h, n2, gb2, gp2)
  BY <1>5, <1>6, Begins
<1> QED BY <1>7, CallsFrom

LEMMA BeginSoftmaskLevels ==
  ASSUME LInv, BeginSoftmask
  PROVE  Levels'
<1>1. calls # << >> /\ Here.todo # << >> /\ Here.todo[1][1] = "softmask" /\ csi' = csi
  BY NextGoes DEF BeginSoftmask
<1>2. Same
  <2>1. Len(gs') = Len(gs)
    BY SameStates DEF BeginSoftmask
  <2> QED BY <1>1, <2>1 DEF Same
<1>3. CASE calls' = Past
  BY <1>1, <1>2, <1>3, QuietPast DEF Still
<1> DEFINE m == State.soft
           steps == <<Open("mask"), Do("form"), Do("end mask")>>
           taken == Softly(Here, m)
           mask == FrameFor("mask", steps, <<Do("end mask")>>, m)
<1>4. CASE calls' = Append(Goes(taken), mask)
  <2>1. PICK t : t = Tail(Here.todo)
    OBVIOUS
  <2>2. taken = WithTodo(WithSoft(Here, m), t)
    BY <2>1 DEF Softly, WithTodo, WithSoft
  <2> DEFINE f == Here
             h0 == WithSoft(f, m)
             g == WithTodo(h0, t)
  <2>3. IsRec(f)
    BY <1>1, ReadyLevel
  <2> HIDE DEF f, m
  <2>4. IsRec(h0) /\ Kin(f, h0) /\ h0.pend = f.pend /\ h0.onErr = f.onErr
    BY <2>3, SoftFields, OfFields
  <2> HIDE DEF h0
  <2>5. Kin(h0, g) /\ g.pend = h0.pend /\ g.todo = t /\ g.onErr = h0.onErr
    BY <2>4, WithFields
  <2>6. taken = g
    BY <2>2 DEF h0, f, m
  <2> HIDE DEF g
  <2>7. Kin(f, g)
    BY <2>4, <2>5, Zenon DEF Kin
  <2>8. Kin(Here, g) /\ g.pend = Here.pend /\ g.todo = Tail(Here.todo) /\ g.onErr = Here.onErr
    BY <2>1, <2>4, <2>5, <2>7 DEF f
  <2>9. PICK s, o : s = steps /\ o = <<Do("end mask")>>
    OBVIOUS
  <2>10. mask = FrameFor("mask", s, o, m)
    BY <2>9
  <2> HIDE DEF mask, taken
  <2>11. /\ mask.fn = "mask" /\ mask.todo = s /\ mask.onErr = o /\ mask.pend = "none"
         /\ mask.base = Len(gs) /\ mask.keep = Len(gs) /\ mask.gbot = csi.gbot
         /\ mask.gparent = csi.gparent
    <3>1. mask = FrameRec("mask", s, o, Len(gs), m)
      BY <2>10, RecWith
    <3> QED BY <3>1, NewFields
  <2>12. s \in MaskTodos
    BY <2>9, Zenon DEF MaskTodos
  <2>13. MaskAt(mask, mask.todo, mask.onErr, mask.pend, Len(gs), csi.gbot, csi.gparent)
    BY <2>9, <2>11, <2>12 DEF MaskAt
  <2>14. mask.fn \notin Outer /\ Len(gs) \in Nat /\ csi.gparent \in Nat
    BY <1>1, <2>11, ReadyLevel DEF Outer
  <2>15. Levelled(Append(Goes(g), mask), Len(gs), csi.gbot, csi.gparent)
    BY <1>1, <2>8, <2>11, <2>13, <2>14, Enters
  <2>16. calls' = Append(Goes(g), mask)
    BY <1>4, <2>6
  <2> QED BY <1>2, <2>14, <2>15, <2>16 DEF Levels, Same
<1>5. calls' = Past \/ calls' = Append(Goes(taken), mask)
  BY DEF BeginSoftmask, Softly, FrameFor
<1> QED BY <1>3, <1>4, <1>5

LEMMA SoftlyFields ==
  ASSUME LInv, calls # << >>, NEW m, NEW g, g = Softly(Here, m)
  PROVE  /\ IsRec(g) /\ Kin(Here, g) /\ g.pend = Here.pend
         /\ g.todo = Tail(Here.todo) /\ g.onErr = Here.onErr /\ g.soft = m
<1>1. PICK t : t = Tail(Here.todo)
  OBVIOUS
<1>2. g = WithTodo(WithSoft(Here, m), t)
  BY <1>1 DEF Softly, WithTodo, WithSoft
<1> DEFINE f == Here
           h == WithSoft(f, m)
<1>3. IsRec(f)
  BY ReadyLevel
<1> HIDE DEF f
<1>4. IsRec(h) /\ Kin(f, h) /\ h.pend = f.pend /\ h.onErr = f.onErr /\ h.soft = m
  BY <1>3, SoftFields, OfFields
<1> HIDE DEF h
<1>5. g = WithTodo(h, t)
  BY <1>2 DEF h, f
<1>6. /\ IsRec(g) /\ Kin(h, g) /\ g.pend = h.pend /\ g.todo = t /\ g.onErr = h.onErr
      /\ g.soft = h.soft
  BY <1>4, <1>5, WithFields
<1>7. Kin(f, g)
  BY <1>4, <1>6, Zenon DEF Kin
<1> QED BY <1>1, <1>4, <1>6, <1>7 DEF f

LEMMA EndSoftmaskLevels ==
  ASSUME LInv, EndSoftmask
  PROVE  Levels'
<1>1. calls # << >> /\ Here.todo # << >> /\ Here.todo[1][1] = "unmask" /\ csi' = csi
  BY NextGoes DEF EndSoftmask
<1>2. Same
  <2>1. Len(gs') = Len(gs)
    BY SameStates DEF EndSoftmask
  <2> QED BY <1>1, <2>1 DEF Same
<1>3. CASE calls' = Past
  BY <1>1, <1>2, <1>3, QuietPast DEF Still
<1> DEFINE g == Softly(Here, None)
<1>4. \/ calls' = Past \/ calls' = Goes(g) \/ calls' = Unwound(Goes(g), "bad")
  BY DEF EndSoftmask, Softly, Throw
<1>5. /\ IsRec(g) /\ Kin(Here, g) /\ g.pend = Here.pend
      /\ g.todo = Tail(Here.todo) /\ g.onErr = Here.onErr
  BY <1>1, SoftlyFields
<1> HIDE DEF g
<1>6. After(Here, Len(gs), csi.gbot, csi.gparent, g.todo, g.onErr,
            Len(gs), csi.gbot, csi.gparent)
  BY <1>1, <1>5, Zenon DEF After, Still
<1>7. Levelled(Goes(g), Len(gs), csi.gbot, csi.gparent) /\ csi.gparent \in Nat
  BY <1>1, <1>5, <1>6, Moves
<1>8. Thrown(g, Len(gs), Len(gs), csi.gparent)
  BY <1>1, <1>5, ThrowsAt
<1>9. Levelled(Unwound(Goes(g), "bad"), Len(gs), csi.gbot, csi.gparent)
  BY <1>1, <1>5, <1>7, <1>8, Throws
<1>10. CASE calls' = Goes(g)
  BY <1>2, <1>7, <1>10 DEF Levels, Same
<1>11. CASE calls' = Unwound(Goes(g), "bad")
  BY <1>2, <1>7, <1>9, <1>11 DEF Levels, Same
<1> QED BY <1>3, <1>4, <1>10, <1>11

LEMMA ShowCellLevels ==
  ASSUME LInv, ShowCell
  PROVE  Levels'
<1>1. calls # << >> /\ Here.todo # << >> /\ Here.todo[1][1] = "cell" /\ Same
  BY NextGoes DEF ShowCell, Same
<1> DEFINE g == Shorter(Here)
<1>2. /\ Past = Goes(g) /\ Kin(Here, g) /\ g.pend = Here.pend
      /\ g.todo = Tail(Here.todo) /\ g.onErr = Here.onErr
  BY <1>1, PastGoes
<1> HIDE DEF g
<1>3. PICK s, o : s = CellSteps /\ o = <<Do("grestore"), Do("down")>>
  OBVIOUS
<1>4. PICK h : h = Frame("cell", s, o)
  OBVIOUS
<1>5. calls' = Append(Goes(g), h)
  BY <1>2, <1>3, <1>4 DEF ShowCell, Calls
<1>6. h = FrameRec("cell", s, o, Len(gs), None)
  BY <1>4, RecWith
<1>7. /\ h.fn = "cell" /\ h.todo = s /\ h.onErr = o /\ h.pend = "none"
      /\ h.base = Len(gs) /\ h.keep = Len(gs) /\ h.gbot = csi.gbot
      /\ h.gparent = csi.gparent
  BY <1>6, NewFields
<1>8. CellAt(h, h.todo, h.onErr, h.pend, Len(gs), csi.gbot, csi.gparent)
  BY <1>3, <1>7 DEF CellAt, CellFlat
<1>9. h.fn \notin Outer /\ Len(gs) \in Nat /\ csi.gparent \in Nat
  BY <1>1, <1>7, ReadyLevel DEF Outer
<1>10. Levelled(Append(Goes(g), h), Len(gs), csi.gbot, csi.gparent)
  BY <1>1, <1>2, <1>7, <1>8, <1>9, Enters
<1> QED BY <1>1, <1>5, <1>9, <1>10 DEF Levels, Same

LEMMA ShowPatternLevels ==
  ASSUME LInv, ShowPattern
  PROVE  Levels'
<1>1. calls # << >> /\ Here.todo # << >> /\ Here.todo[1][1] = "pattern"
  BY NextGoes DEF ShowPattern
<1>2. Len(gs') = Len(gs) + 1 /\ csi'.gbot = csi.gbot /\ csi'.gparent = Len(gs)
  BY SaveIs, OtherCsi DEF ShowPattern
<1> DEFINE g == Shorter(Here)
<1>3. /\ Past = Goes(g) /\ Kin(Here, g) /\ g.pend = Here.pend
      /\ g.todo = Tail(Here.todo) /\ g.onErr = Here.onErr
  BY <1>1, PastGoes
<1> HIDE DEF g
<1>4. PICK steps \in {TileSteps, <<Do("cell")>>} :
        calls' = Calls(FrameKeeping("pattern", steps \o PatternEnd, <<Do("always")>>, Len(gs) + 1))
  BY DEF ShowPattern, FrameKeeping
<1>5. PICK s, o, k : s = steps \o PatternEnd /\ o = <<Do("always")>> /\ k = Len(gs) + 1
  OBVIOUS
<1>6. PICK h : h = FrameKeeping("pattern", s, o, k)
  OBVIOUS
<1>7. calls' = Append(Goes(g), h)
  BY <1>3, <1>4, <1>5, <1>6 DEF Calls
<1>8. h = FrameRec("pattern", s, o, k, None)
  BY <1>6, RecWith
<1>9. /\ h.fn = "pattern" /\ h.todo = s /\ h.onErr = o /\ h.pend = "none"
      /\ h.base = Len(gs) /\ h.keep = k /\ h.gbot = csi.gbot /\ h.gparent = csi.gparent
  BY <1>8, NewFields
<1>10. s \in TileFlat
  BY <1>5 DEF TileFlat
<1>11. Len(gs) \in Nat /\ k \in Nat
  <2>1. Len(gs) \in Nat
    BY <1>1, ReadyLevel
  <2> QED BY <1>5, <2>1
<1>12. PatternAt(h, h.todo, h.onErr, h.pend, k, csi.gbot, Len(gs))
  BY <1>5, <1>9, <1>10 DEF PatternAt
<1>13. h.fn \notin Outer
  BY <1>9 DEF Outer
<1>14. Levelled(Append(Goes(g), h), k, csi.gbot, Len(gs))
  BY <1>1, <1>3, <1>5, <1>9, <1>11, <1>12, <1>13, Enters
<1> QED BY <1>2, <1>5, <1>7, <1>11, <1>14 DEF Levels

\* a form, at its begin
LEMMA FormBegins ==
  ASSUME NEW x
  PROVE  FormSteps(x) \in Before(x) /\ FormSteps(x) # FormEnd(x)
<1> DEFINE B == <<Do("clip"), Do("contents")>>
           P == <<Do("softmask"), Open("group"), Do("reset")>>
           E == FormEnd(x)
<1>1. B \in Seq(FormWords) /\ P \in Seq(FormWords) /\ E \in Seq(FormWords)
  BY FormWordsAre, FewIn, FormTypes
<1>2. B # << >> /\ B[1] = Do("clip") /\ P # << >> /\ P[1] = Do("softmask")
  BY Tuples
<1>3. E[1] = Do("always")
  BY FormEndIs
<1>4. Do("clip") # Do("always") /\ Do("softmask") # Do("always")
  BY StepNames
<1>5. FormSteps(x) \in {<< >> \o B \o E, P \o B \o E} /\ << >> \o B = B
  BY <1>1, EmptyConcat DEF FormSteps
<1> HIDE DEF B, P, E
<1>6. << >> \o B \o E # E
  <2>1. (B \o E)[1] = B[1]
    BY <1>1, <1>2, FirstOf
  <2> QED BY <1>2, <1>3, <1>4, <1>5, <2>1
<1>7. P \o B \o E # E
  <2>1. (P \o B)[1] = P[1] /\ P \o B # << >> /\ P \o B \in Seq(FormWords)
    BY <1>1, <1>2, FirstOf, ConcatIn
  <2>2. (P \o B \o E)[1] = (P \o B)[1]
    BY <1>1, <2>1, FirstOf
  <2> QED BY <1>2, <1>3, <1>4, <2>1, <2>2
<1> QED BY <1>5, <1>6, <1>7, FormStepsIn DEF E

LEMMA XobjectLevels ==
  ASSUME LInv, calls # << >>, Here.todo # << >>, NEW w, w = Here.todo[1][1],
         w \in {"form", "appearance", "token"},
         NEW g, Kin(Here, g), g.pend = Here.pend, g.onErr = Here.onErr,
         g.todo = Tail(Here.todo) \/ (w = "token" /\ g.todo = Here.todo),
         Levelled(Goes(g), Len(gs), csi.gbot, csi.gparent), NEW x, RunXobject(x, Goes(g))
  PROVE  Levels'
<1>1. Len(gs) \in Nat /\ csi.gparent \in Nat
  BY ReadyLevel
<1>2. CASE x \in marked
  BY <1>1, <1>2 DEF RunXobject, Levels
<1>3. CASE x \notin marked
  <2>1. /\ csi' = [csi EXCEPT !.gparent = Len(gs)] /\ gs' = Append(gs, State)
        /\ calls' = Append(Goes(g), FrameBoth("form", FormSteps(x), FormEnd(x), Len(gs) + 1, x))
    BY <1>3 DEF RunXobject, Gsave, FrameBoth
  <2>2. Len(gs') = Len(gs) + 1 /\ csi'.gbot = csi.gbot /\ csi'.gparent = Len(gs)
    BY <2>1, SaveIs, OtherCsi
  <2>3. PICK s, o, k : s = FormSteps(x) /\ o = FormEnd(x) /\ k = Len(gs) + 1
    OBVIOUS
  <2>4. PICK h : h = FrameBoth("form", s, o, k, x)
    OBVIOUS
  <2>5. calls' = Append(Goes(g), h)
    BY <2>1, <2>3, <2>4
  <2>6. h = FrameRec("form", s, o, k, x)
    BY <2>4, RecWith
  <2>7. /\ h.fn = "form" /\ h.todo = s /\ h.onErr = o /\ h.pend = "none" /\ h.form = x
        /\ h.base = Len(gs) /\ h.keep = k /\ h.gbot = csi.gbot /\ h.gparent = csi.gparent
    BY <2>6, NewFields
  <2>8. FormAt(h, h.todo, h.onErr, h.pend, k, csi.gbot, Len(gs))
    BY <2>3, <2>7, FormBegins DEF FormAt
  <2>9. k \in Nat
    BY <1>1, <2>3
  <2>10. h.fn \notin Outer
    BY <2>7 DEF Outer
  <2>11. Levelled(Append(Goes(g), h), k, csi.gbot, Len(gs))
    BY <2>3, <2>7, <2>8, <2>9, <2>10, Enters
  <2> QED BY <1>1, <2>2, <2>3, <2>5, <2>11 DEF Levels
<1> QED BY <1>2, <1>3

LEMMA RunFormLevels ==
  ASSUME LInv, NEW x, RunMask \/ Appearance \/ Run_Do(x)
  PROVE  Levels'
<1>1. CASE RunMask \/ Appearance
  <2>1. PICK w, y : w \in {"form", "appearance"} /\ Next1(w) /\ RunXobject(y, Past)
    BY <1>1 DEF RunMask, Appearance
  <2>2. calls # << >> /\ Here.todo # << >> /\ Here.todo[1][1] = w
    BY <2>1, NextGoes
  <2> DEFINE g == Shorter(Here)
  <2>3. /\ Past = Goes(g) /\ Kin(Here, g) /\ g.pend = Here.pend
        /\ g.todo = Tail(Here.todo) /\ g.onErr = Here.onErr
    BY <2>2, PastGoes
  <2> HIDE DEF g
  <2>4. After(Here, Len(gs), csi.gbot, csi.gparent, Tail(Here.todo), Here.onErr,
              Len(gs), csi.gbot, csi.gparent)
    BY <2>1, <2>2, Zenon DEF After, Still
  <2>5. Levelled(Goes(g), Len(gs), csi.gbot, csi.gparent)
    BY <2>2, <2>3, <2>4, MovesPast
  <2>6. RunXobject(y, Goes(g))
    BY <2>1, <2>3
  <2> QED BY <2>1, <2>2, <2>3, <2>5, <2>6, XobjectLevels
<1>2. CASE Run_Do(x)
  <2>1. Next1("token") /\ RunXobject(x, calls)
    BY <1>2 DEF Run_Do, Token, Reads
  <2>2. calls # << >> /\ Here.todo # << >> /\ Here.todo[1][1] = "token"
    BY <2>1, NextGoes
  <2>3. PICK g : g = Here
    OBVIOUS
  <2>4. calls = Goes(g) /\ Kin(Here, g)
    BY <2>2, <2>3, GoesHere, KinSelf
  <2>5. Levelled(Goes(g), Len(gs), csi.gbot, csi.gparent) /\ RunXobject(x, Goes(g))
    BY <2>1, <2>4 DEF LInv, Levels
  <2> QED BY <2>2, <2>3, <2>4, <2>5, XobjectLevels
<1> QED BY <1>1, <1>2

LEMMA RunContentsLevels ==
  ASSUME LInv, RunContents
  PROVE  Levels'
<1>1. calls # << >> /\ Here.todo # << >> /\ Here.todo[1][1] = "contents" /\ gs' = gs
  BY NextGoes DEF RunContents
<1>2. CASE /\ csi' = [csi EXCEPT !.gbot = Len(gs)]
           /\ calls' = Calls(Frame("stream", StreamSteps, StreamSteps))
  <2>1. csi'.gbot = Len(gs) /\ csi'.gparent = csi.gparent
    BY <1>2, OtherCsi
  <2> DEFINE g == Shorter(Here)
  <2>2. /\ Past = Goes(g) /\ Kin(Here, g) /\ g.pend = Here.pend
        /\ g.todo = Tail(Here.todo) /\ g.onErr = Here.onErr
    BY <1>1, PastGoes
  <2> HIDE DEF g
  <2>3. PICK h : h = Frame("stream", StreamSteps, StreamSteps)
    OBVIOUS
  <2>4. calls' = Append(Goes(g), h)
    BY <1>2, <2>2, <2>3 DEF Calls
  <2>5. h = FrameRec("stream", StreamSteps, StreamSteps, Len(gs), None)
    BY <2>3, RecWith
  <2>6. /\ h.fn = "stream" /\ h.todo = StreamSteps /\ h.onErr = StreamSteps /\ h.pend = "none"
        /\ h.base = Len(gs) /\ h.keep = Len(gs) /\ h.gbot = csi.gbot
        /\ h.gparent = csi.gparent
    BY <2>5, NewFields
  <2>7. Len(gs) \in Nat /\ csi.gparent \in Nat
    BY <1>1, ReadyLevel
  <2> DEFINE n == Len(gs)
  <2>8. StreamAt(h, h.todo, h.onErr, h.pend, n, n, csi.gparent)
    <3>1. n >= h.base
      <4>1. n \in Nat /\ h.base = n
        BY <2>6, <2>7
      <4> HIDE DEF n
      <4> QED BY <4>1, SMT
    <3> HIDE DEF n
    <3>2. h.keep = h.base /\ n = h.base
      BY <2>6 DEF n
    <3> QED BY <2>6, <3>1, <3>2, StreamTodos DEF StreamAt
  <2>9. h.fn \notin Outer
    BY <2>6 DEF Outer
  <2>10. Levelled(Append(Goes(g), h), Len(gs), Len(gs), csi.gparent)
    BY <1>1, <2>2, <2>6, <2>7, <2>8, <2>9, Enters
  <2> QED BY <1>1, <2>1, <2>4, <2>7, <2>10 DEF Levels
<1>3. CASE \E e \in {"bad", "later"} : /\ Throw(Past, e) /\ csi' = csi
                                       /\ e = "later" => "later" \in Faults
  <2>1. Same
    BY <1>1, <1>3 DEF Same
  <2> QED BY <1>1, <1>3, <2>1, QuietThrow
<1> QED BY <1>2, <1>3 DEF RunContents, Contents

\* a page, an annotation
LEMMA FreshHead ==
  ASSUME NEW t \in Fresh
  PROVE  t # << >> /\ t[1][1] \notin RunWords
<1>1. \A w \in {"new", "open"} : w \notin RunWords
  BY DEF RunWords
<1>2. CASE t \in Ended(PageSteps)
  BY <1>1, <1>2, EndedNext, OuterPieces
<1>3. CASE t \in {<<Open("group")>> \o PageSteps \o <<Close("group")>>, AnnotSteps}
  BY <1>1, <1>3, OuterPieces
<1> QED BY <1>2, <1>3 DEF Fresh

LEMMA RunPageLevels ==
  ASSUME LInv, RunPage \/ RunAnnot
  PROVE  Levels'
<1>1. PICK w, fn, s : /\ w \in {"page", "annot"} /\ fn \in Outer /\ s \in Fresh /\ Next1(w)
                      /\ calls' = Calls(FrameKeeping(fn, s, FreeSteps, 1))
  <2>1. ASSUME RunPage
        PROVE  \E s \in Fresh : calls' = Calls(FrameKeeping("page", s, FreeSteps, 1))
    <3>1. PICK s \in {PageSteps, <<Open("group")>> \o PageSteps \o <<Close("group")>>} :
                 calls' = Calls(FrameKeeping("page", s, FreeSteps, 1))
      BY <2>1 DEF RunPage, FrameKeeping
    <3> QED BY <3>1 DEF Fresh, Ended
  <2>2. ASSUME RunAnnot
        PROVE  \E s \in Fresh : calls' = Calls(FrameKeeping("annot", s, FreeSteps, 1))
    <3>1. calls' = Calls(FrameKeeping("annot", AnnotSteps, FreeSteps, 1))
      BY <2>2 DEF RunAnnot, FrameKeeping
    <3> QED BY <3>1 DEF Fresh
  <2>3. "page" \in Outer /\ "annot" \in Outer
    BY DEF Outer
  <2>4. (RunPage => Next1("page")) /\ (RunAnnot => Next1("annot"))
    BY DEF RunPage, RunAnnot
  <2> QED BY <2>1, <2>2, <2>3, <2>4
<1>2. calls # << >> /\ Here.todo # << >> /\ Here.todo[1][1] = w
  BY <1>1, NextGoes
<1>3. gs' = gs /\ csi' = csi
  BY DEF RunPage, RunAnnot
<1> DEFINE g == Shorter(Here)
<1>4. /\ Past = Goes(g) /\ Kin(Here, g) /\ g.pend = Here.pend
      /\ g.todo = Tail(Here.todo) /\ g.onErr = Here.onErr
  BY <1>2, PastGoes
<1> HIDE DEF g
<1>5. PICK o, k : o = FreeSteps /\ k = 1
  OBVIOUS
<1>6. PICK h : h = FrameKeeping(fn, s, o, k)
  OBVIOUS
<1>7. calls' = Append(Goes(g), h)
  BY <1>1, <1>4, <1>5, <1>6 DEF Calls
<1>8. h = FrameRec(fn, s, o, k, None)
  BY <1>6, RecWith
<1>9. /\ h.fn = fn /\ h.todo = s /\ h.onErr = o /\ h.pend = "none"
      /\ h.base = Len(gs) /\ h.keep = k /\ h.gbot = csi.gbot /\ h.gparent = csi.gparent
  BY <1>8, NewFields
<1> DEFINE f == Here
           n == Len(gs)
           b == csi.gbot
           p == csi.gparent
<1>10. /\ At(f, n, b, p) /\ Shaped(f) /\ n \in Nat /\ b \in Nat /\ p \in Nat /\ b >= 1
       /\ f.todo # << >> /\ f.todo[1][1] = w /\ h.base = n /\ h.gbot = b /\ h.gparent = p
  BY <1>2, <1>9, ReadyLevel
<1> HIDE DEF f, n, b, p
<1>11. f.fn \in Outer
  BY <1>1, <1>10, StepIn
<1>12. ~(n >= 1) /\ (Patient => b = 1 /\ p = 1)
  <2>1. w \notin RunWords
    BY <1>1 DEF RunWords
  <2>2. NeedsAt(f.fn, f.todo) <=> (n >= 1)
    BY <1>10, Zenon DEF At, LevelAt, WeakAt
  <2>3. Patient => PageAt(f, b, p)
    BY <1>10, <1>11, Zenon DEF At, LevelAt, StrongAt
  <2> QED BY <1>10, <1>11, <2>1, <2>2, <2>3 DEF NeedsAt, PageAt
<1>13. n = 0
  BY <1>10, <1>12, SMT
<1>14. OuterAt(s, o, k) /\ ~NeedsAt(fn, s)
  BY <1>1, <1>5, FreshHead DEF OuterAt, NeedsAt
<1>15. WeakAt(h, h.todo, h.onErr, h.pend, n, b)
  BY <1>1, <1>5, <1>9, <1>10, <1>12, <1>13, <1>14 DEF WeakAt
<1>16. Patient => StrongAt(h, h.todo, h.onErr, h.pend, n, b, p)
  <2>1. h.fn \in Outer /\ h.fn \notin Named
    BY <1>1, <1>9 DEF Outer, Named
  <2>2. Patient => PageAt(h, b, p)
    BY <1>10, <1>12, <1>13 DEF PageAt
  <2> QED BY <2>1, <2>2 DEF StrongAt, Named
<1>17. At(h, n, b, p)
  BY <1>15, <1>16, Zenon DEF At, LevelAt
<1>18. Levelled(Append(Goes(g), h), Len(gs), csi.gbot, csi.gparent)
  <2>1. At(h, Len(gs), csi.gbot, csi.gparent)
    BY <1>17 DEF n, b, p
  <2>2. w \notin {"form", "contents"}
    BY <1>1
  <2> QED BY <1>1, <1>2, <1>4, <1>9, <2>1, <2>2, CallsFrom
<1> QED BY <1>3, <1>7, <1>10, <1>18 DEF Levels, p

LEMMA PlainFields ==
  ASSUME NEW fn, NEW t, NEW o, NEW h, h = FrameRec(fn, t, o, Len(gs), None)
  PROVE  /\ h.fn = fn /\ h.todo = t /\ h.onErr = o /\ h.pend = "none" /\ h.base = Len(gs)
         /\ h.keep = Len(gs) /\ h.gbot = csi.gbot /\ h.gparent = csi.gparent
BY NewFields

Paints(token) == token \in {"n", "f", "sh", "Tj", "image mask"}
LEMMA PaintLevels ==
  ASSUME LInv, NEW token, Paints(token), Run_Paint(token)
  PROVE  Levels'
<1>1. Next1("token") /\ gs' = gs /\ csi' = csi
  BY DEF Run_Paint, Token, Reads
<1>2. calls # << >> /\ Here.todo # << >> /\ Here.todo[1][1] = "token"
  BY <1>1, NextGoes
<1>3. PICK g : g = Here
  OBVIOUS
<1>4. calls = Goes(g) /\ Kin(Here, g)
  BY <1>2, <1>3, GoesHere, KinSelf
<1>5. PICK t, o :
        /\ t = (IF csi.clip /\ token \in {"n", "f"} THEN <<Do("clip")>> ELSE << >>)
               \o Painting(token)
        /\ o = << >>
  OBVIOUS
<1>6. PICK h : h = Frame(token, t, o)
  OBVIOUS
<1>7. calls' = Append(Goes(g), h)
  BY <1>4, <1>5, <1>6 DEF Run_Paint, Paint
<1>8. h = FrameRec(token, t, o, Len(gs), None)
  BY <1>6, RecWith
<1>9. /\ h.fn = token /\ h.todo = t /\ h.onErr = o /\ h.pend = "none"
      /\ h.base = Len(gs) /\ h.keep = Len(gs) /\ h.gbot = csi.gbot /\ h.gparent = csi.gparent
  BY <1>8, PlainFields
<1>10. t \in Seq(PaintWords)
  BY <1>5, PaintIn DEF Paints
<1>11. token \notin Outer /\ token \notin Named
  BY DEF Outer, Named, Paints
<1>12. PaintAt(h, h.todo, h.onErr, h.pend, Len(gs), csi.gbot, csi.gparent)
  BY <1>5, <1>9, <1>10 DEF PaintAt
<1>13. Len(gs) \in Nat /\ csi.gparent \in Nat
  BY <1>2, ReadyLevel
<1>14. Levelled(Append(Goes(g), h), Len(gs), csi.gbot, csi.gparent)
  BY <1>2, <1>3, <1>4, <1>9, <1>11, <1>12, <1>13, Enters
<1> QED BY <1>1, <1>7, <1>13, <1>14 DEF Levels

LEMMA LaterLevels ==
  ASSUME LInv, Later
  PROVE  Levels'
<1>1. Next1("token") /\ gs' = gs /\ csi' = csi /\ Throw(calls, "later") /\ "later" \in Faults
  BY DEF Later, Reads
<1>2. calls # << >> /\ Here.todo # << >> /\ Here.todo[1][1] = "token"
  BY <1>1, NextGoes
<1>3. PICK g : g = Here
  OBVIOUS
<1>4. calls = Goes(g) /\ Kin(Here, g) /\ IsRec(g)
  BY <1>2, <1>3, GoesHere, KinSelf, ReadyLevel
<1> DEFINE n == Len(gs)
           b == csi.gbot
           p == csi.gparent
<1>5. At(g, n, b, p) /\ Shaped(g) /\ g.todo # << >> /\ g.todo[1][1] = "token" /\ p \in Nat
  BY <1>2, <1>3, ReadyLevel
<1> HIDE DEF n, b, p
<1>6. g.fn = "stream" /\ g.fn \notin Outer
  <2>1. g.fn = "stream"
    BY <1>5, StepIn
  <2> QED BY <2>1 DEF Outer
<1>7. Patient => p = g.gparent
  BY <1>5, <1>6, Zenon DEF At, LevelAt, StrongAt, StreamAt
<1>8. Thrown(g, n, n, p)
  BY <1>5, <1>6, <1>7 DEF Thrown
<1>9. Levelled(Unwound(Goes(g), "later"), Len(gs), csi.gbot, csi.gparent)
  BY <1>1, <1>2, <1>4, <1>8, Throws DEF n, p, LInv, Levels
<1> QED BY <1>1, <1>4, <1>5, <1>9 DEF Levels, Throw, p

LEMMA Relevels ==
  ASSUME NEW fs, NEW m \in Nat, NEW g0, NEW p0, Levelled(fs, m, g0, p0),
         NEW n \in Nat, NEW gb \in Nat, NEW gp, gb >= 1, (m >= 1) <=> (n >= 1),
         Patient => n = m /\ gb = g0 /\ gp = p0
  PROVE  Levelled(fs, n, gb, gp)
<1>1. fs # << >> => At(fs[Len(fs)], n, gb, gp)
  BY ReturnsTo DEF Levelled
<1> QED BY <1>1 DEF Levelled

LEMMA ThrownAgain ==
  ASSUME NEW h, NEW f, NEW n \in Nat, NEW gb, NEW gp, At(f, n, gb, gp), f.todo = << >>,
         f.pend # "none", Waits(h), Between(h, f)
  PROVE  Thrown(h, f.base, n, gp)
<1>1. /\ ((f.fn \in Outer) <=> ~(n >= 1))
      /\ Patient => /\ gp = f.gparent
                    /\ f.fn = "form" => n = f.base
                    /\ f.fn # "stream"
  BY DoneAt
<1>2. h.fn \in Outer /\ h.onErr # << >> => f.fn \notin Outer
  BY DEF Between
<1>3. h.fn = "form" => h.onErr # << >>
  BY FormEndIs DEF Waits
<1>4. Patient => /\ h.fn = "mask" => f.fn = "form"
                 /\ h.fn = "cell" => f.fn = "stream"
                 /\ h.onErr = << >> => f.gparent = h.gparent
  BY DEF Between
<1>5. h.fn = "stream" => h.todo # << >>
  BY DEF Waits
<1> QED BY <1>1, <1>2, <1>3, <1>4, <1>5 DEF Thrown

LEMMA ReturnLevels ==
  ASSUME LInv, Return
  PROVE  Levels'
<1>1. calls # << >> /\ Here.todo = << >> /\ gs' = gs /\ csi' = csi
  BY DEF Return
<1> DEFINE f == Here
           n == Len(gs)
           b == csi.gbot
           p == csi.gparent
           L == Len(calls)
           hs == Front(calls)
<1>2. /\ At(f, n, b, p) /\ f.todo = << >> /\ n \in Nat /\ b \in Nat /\ b >= 1 /\ p \in Nat
      /\ IsSeq(calls) /\ L \in Nat /\ L \in 1..L /\ f = calls[L]
  BY <1>1, ReadyLevel DEF Here
<1>3. Stacked(calls, Len(gs), csi.gbot, marked)
  BY DEF LInv, IInv
<1>4. Levelled(calls, n, b, p)
  BY DEF LInv, Levels
<1>5. cookie \in Cookies
  BY DEF LInv
<1>6. /\ IsSeq(hs) /\ Len(hs) = L - 1 /\ \A i \in 1..L - 1 : hs[i] = calls[i]
      /\ Levelled(hs, calls[L].base, calls[L].gbot, calls[L].gparent)
      /\ hs # << >> => L - 1 \in 1..L - 1 /\ Between(hs[Len(hs)], calls[L])
  <2> HIDE DEF n, b, p
  <2> QED BY <1>1, <1>2, <1>4, LessLevelled
<1>7. \/ f.pend = "none" /\ calls' = hs
      \/ f.pend # "none" /\ calls' = Unwound(hs, f.pend)
  BY DEF Return, Throw
<1> HIDE DEF f, n, b, p, hs
<1>8. /\ f.base \in Nat /\ f.gbot \in Nat /\ f.gparent \in Nat
      /\ ((f.base >= 1) <=> (n >= 1))
      /\ (f.pend = "later" => "later" \in Faults)
      /\ Patient => /\ b = f.gbot /\ p = f.gparent /\ n >= f.base
                    /\ f.pend = "none" => n = f.base
  BY <1>2, DoneAt
<1>9. CASE f.pend = "none" /\ calls' = hs
  <2>1. Levelled(hs, f.base, f.gbot, f.gparent)
    BY <1>2, <1>6
  <2>2. Levelled(hs, n, b, p)
    BY <1>2, <1>8, <1>9, <2>1, Relevels
  <2> QED BY <1>1, <1>2, <1>9, <2>2 DEF Levels, n, b, p
<1>10. CASE f.pend # "none" /\ calls' = Unwound(hs, f.pend)
  <2>1. \A i \in 1..L - 1 : i \in 1..L
    <3> HIDE DEF L
    <3> QED BY <1>2, SMT
  <2>2. \A i \in 1..Len(hs) : hs[i] = calls[i] /\ i \in 1..L
    BY <1>6, <2>1
  <2>3. \A i \in 1..Len(hs) : IsRec(hs[i])
    <3> SUFFICES ASSUME NEW i \in 1..Len(hs)
                 PROVE  IsRec(hs[i])
      OBVIOUS
    <3>1. Shaped(calls[i])
      BY <1>3, <2>2 DEF Stacked
    <3>2. IsRec(calls[i])
      BY <3>1 DEF Shaped, IsFrame, IsRec
    <3> QED BY <2>2, <3>2
  <2>4. \A i \in 1..Len(hs) : Waits(hs[i])
    BY <1>3, <1>6 DEF Stacked
  <2>5. \A i \in 1..Len(hs) - 1 : i \in 1..Len(hs)
    <3>1. Len(hs) \in Int
      BY <1>2, <1>6
    <3> QED BY <3>1, SMT
  <2>6. \A i, j \in 1..Len(hs) : i < j /\ hs[j].fn \in Outer => hs[i].fn \in Outer
    BY <1>3, <2>2 DEF Stacked
  <2>7. hs # << >> => Thrown(hs[Len(hs)], f.base, n, p)
    <3> SUFFICES ASSUME hs # << >>
                 PROVE  Thrown(hs[Len(hs)], f.base, n, p)
      OBVIOUS
    <3>1. Waits(hs[Len(hs)]) /\ Between(hs[Len(hs)], f)
      BY <1>2, <1>6, <2>4
    <3> QED BY <1>2, <1>10, <3>1, ThrownAgain
  <2>8. Levelled(hs, f.base, f.gbot, f.gparent)
    BY <1>2, <1>6
  <2>9. \A i \in 1..Len(hs) - 1 : Waits(hs[i])
    BY <2>4, <2>5
  <2>10. PICK e : e = f.pend
    OBVIOUS
  <2>11. PICK m, g0, p0 : m = f.base /\ g0 = f.gbot /\ p0 = f.gparent
    OBVIOUS
  <2>12. Levelled(Unwound(hs, e), n, b, p)
    BY <1>2, <1>5, <1>6, <1>8, <1>10, <2>3, <2>6, <2>7, <2>8, <2>9, <2>10, <2>11, Unwinds
  <2> QED BY <1>1, <1>2, <1>10, <2>10, <2>12 DEF Levels, n, b, p
<1> QED BY <1>7, <1>9, <1>10

-----------------------------------------------------------------------------
(* The states that a call has saved                                        *)

LEMMA LevelsInit == Init => LInv
<1> SUFFICES ASSUME Init
             PROVE  LInv
  OBVIOUS
<1>1. IInv /\ cookie \in Cookies
  BY InitHolds DEF Init
<1>2. csi.gbot = 1 /\ csi.gparent = 1
  BY SMT DEF Init, NewCsi
<1>3. Len(gs) = 0
  BY DEF Init
<1>4. PICK s, o : s = <<Do("page")>> \o [i \in 1..Annots |-> Do("annot")] /\ o = << >>
  OBVIOUS
<1>5. PICK h : h = Frame("page", s, o)
  OBVIOUS
<1>6. calls = <<h>>
  BY <1>4, <1>5 DEF Init
<1>7. h = FrameRec("page", s, o, Len(gs), None)
  BY <1>5, RecWith
<1>8. /\ h.fn = "page" /\ h.todo = s /\ h.onErr = o /\ h.pend = "none" /\ h.base = Len(gs)
      /\ h.keep = Len(gs) /\ h.gbot = csi.gbot /\ h.gparent = csi.gparent
  BY <1>7, PlainFields
<1>9. s \in BaseTodos
  <2>1. <<Do("page")>> \in Seq({Do("page"), Do("annot")})
    BY SMT
  <2>2. [i \in 1..Annots |-> Do("annot")] \in Seq({Do("page"), Do("annot")})
    BY RunsAssumption, SMT
  <2> QED BY <1>4, <2>1, <2>2, ConcatIn DEF BaseTodos
<1>10. s # << >> /\ s[1][1] = "page"
  <2>1. <<Do("page")>> \in Seq({Do("page"), Do("annot")})
    BY SMT
  <2>2. [i \in 1..Annots |-> Do("annot")] \in Seq({Do("page"), Do("annot")})
    BY RunsAssumption, SMT
  <2>3. s # << >> /\ s[1] = Do("page")
    BY <1>4, <2>1, <2>2, FirstOne
  <2> QED BY <2>3, StepNames
<1>11. OuterAt(s, o, 0) /\ ~NeedsAt("page", s)
  BY <1>4, <1>9, <1>10 DEF OuterAt, NeedsAt, Outer, RunWords
<1>12. WeakAt(h, h.todo, h.onErr, h.pend, 0, 1)
  BY <1>2, <1>3, <1>8, <1>11 DEF WeakAt, Outer
<1>13. StrongAt(h, h.todo, h.onErr, h.pend, 0, 1, 1)
  <2>1. PageAt(h, 1, 1)
    BY <1>2, <1>3, <1>8 DEF PageAt
  <2> QED BY <1>8, <2>1 DEF StrongAt, Outer, Named
<1>14. At(h, 0, 1, 1)
  BY <1>12, <1>13, Zenon DEF At, LevelAt
<1>15. Levelled(<<h>>, 0, 1, 1)
  BY <1>14 DEF Levelled
<1> QED BY <1>1, <1>2, <1>3, <1>6, <1>15 DEF LInv, Levels

LEMMA LevelsStep == LInv /\ [Next]_vars => LInv'
<1> SUFFICES ASSUME LInv, [Next]_vars
             PROVE  LInv'
  OBVIOUS
<1>1. IInv' 
  BY StepHolds DEF LInv, Holds
<1>2. cookie' \in Cookies
  BY DEF LInv, Next, Step, Operator, vars, Return, Always, OpenBracket, CloseBracket, EndMask,
         Draw, GsaveStep, GrestoreStep, GrestoreDown, ClipStep, ClipText, BeginSoftmask,
         EndSoftmask, EndBlend, ShowPattern, ShowCell, RunMask, LeaveForm, Reset, RunContents,
         Leave, EndOfStream, RunPage, RunAnnot, Appearance, NewInterpreter, FreeInterpreter,
         Run_q, Run_Q, Run_W, Run_ET, SetBlend, Later, SetSoftmask, SetFill, Run_Paint, Run_Do,
         Token, Reads
<1>3. ASSUME UNCHANGED vars
      PROVE  Levels'
  BY <1>3 DEF vars, LInv, Levels
<1>4. ASSUME Step
      PROVE  Levels'
  BY <1>4, ReturnLevels, AlwaysLevels, BracketLevels, SavedLevels, StateLevels,
     BeginSoftmaskLevels, EndSoftmaskLevels, EndBlendLevels, ShowPatternLevels, ShowCellLevels,
     RunFormLevels, LeaveLevels, RunContentsLevels, RunPageLevels, AfreshLevels,
     Zenon DEF Step
<1>5. ASSUME Operator
      PROVE  Levels'
  <2>1. CASE \/ Run_q \/ Run_Q \/ Run_W \/ Run_ET \/ SetBlend
             \/ \E m \in Forms \cup {None} : SetSoftmask(m)
             \/ \E kind \in {"colour", "shade", "pattern"} : SetFill(kind)
    BY <2>1, OperatorLevels, Zenon
  <2>2. CASE Later
    BY <2>2, LaterLevels
  <2>3. CASE \E token \in {"n", "f", "sh", "Tj", "image mask"} : Run_Paint(token)
    BY <2>3, PaintLevels, Zenon DEF Paints
  <2>4. CASE \E x \in Forms : Run_Do(x)
    BY <2>4, RunFormLevels
  <2> QED BY <1>5, <2>1, <2>2, <2>3, <2>4, Zenon DEF Operator
<1>6. Levels'
  BY <1>3, <1>4, <1>5 DEF Next
<1> QED BY <1>1, <1>2, <1>6 DEF LInv

\* At every step of every call that is going on, the graphics states that it needs are
\* there; and if Patient, there are exactly as many, and gbot and gparent are, as the
\* steps that it has still to do put back to what they were when it began.
THEOREM LevelsKept == Spec => []LInv
BY LevelsInit, LevelsStep, PTL DEF Spec

-----------------------------------------------------------------------------
(* gbot and gparent, and what a state comes from                           *)

\* the C stack is empty when the outermost call returns or is passed
LEMMA GoesOn ==
  ASSUME LInv, calls # << >>
  PROVE  /\ Past # << >> /\ \A s : Then(s) # << >> /\ \A g : Goes(g) # << >>
         /\ \A x : Calls(x) # << >> /\ Append(calls, x) # << >>
         /\ \A g, x : Append(Goes(g), x) # << >>
<1>1. \A g : IsSeq(Goes(g)) /\ Goes(g) # << >>
  BY GoesSeq
<1>2. \A s : IsSeq(Then(s)) /\ Then(s) # << >>
  BY <1>1 DEF Then
<1>3. IsSeq(Past) /\ Past # << >>
  BY <1>2 DEF Past
<1>4. IsSeq(calls)
  BY ReadyLevel
<1>5. ASSUME NEW s, IsSeq(s), NEW x
      PROVE  Append(s, x) # << >>
  BY <1>5, AppendSeq, SeqLen, SMT
<1> QED BY <1>1, <1>2, <1>3, <1>4, <1>5 DEF Calls

LEMMA EndsSame ==
  ASSUME LInv, Next, calls' = << >>
  PROVE  Same
<1>1. calls # << >>
  BY DEF Next, Step, Operator, Return, Always, OpenBracket, CloseBracket, EndMask,
         Draw, GsaveStep, GrestoreStep, GrestoreDown, ClipStep, ClipText, BeginSoftmask,
         EndSoftmask, EndBlend, ShowPattern, ShowCell, RunMask, LeaveForm, Reset, RunContents,
         Leave, EndOfStream, RunPage, RunAnnot, Appearance, NewInterpreter, FreeInterpreter,
         Run_q, Run_Q, Run_W, Run_ET, SetBlend, Later, SetSoftmask, SetFill, Run_Paint, Run_Do,
         Token, Reads, Next1
<1>2. /\ Past # << >> /\ \A s : Then(s) # << >> /\ \A g : Goes(g) # << >>
      /\ \A x : Calls(x) # << >> /\ Append(calls, x) # << >>
      /\ \A g, x : Append(Goes(g), x) # << >>
  BY <1>1, GoesOn
<1>3. ASSUME CloseBracket \/ Draw \/ ClipText \/ EndSoftmask \/ Later \/ Return
      PROVE  Same
  BY <1>3, SameStates, SameCsi
     DEF CloseBracket, Draw, ClipText, EndSoftmask, Later, Return, Same
<1>4. ASSUME RunContents
      PROVE  Same
  <2>1. gs' = gs /\ csi' = csi
    BY <1>2, <1>4 DEF RunContents, Contents
  <2> QED BY <2>1 DEF Same
<1>5. ~(Always \/ OpenBracket \/ EndMask \/ GsaveStep \/ GrestoreStep \/ ClipStep)
  BY <1>2, Zenon DEF Always, OpenBracket, EndMask, GsaveStep, GrestoreStep, ClipStep
<1>6. ~(GrestoreDown \/ EndBlend \/ ShowCell \/ LeaveForm \/ Reset \/ Leave)
  BY <1>1, <1>2, Zenon DEF GrestoreDown, EndBlend, ShowCell, LeaveForm, Reset, Leave
<1>7. ~(EndOfStream \/ RunPage \/ RunAnnot \/ NewInterpreter \/ FreeInterpreter)
  BY <1>1, <1>2, Zenon DEF EndOfStream, RunPage, RunAnnot, NewInterpreter, FreeInterpreter
<1>8. ~(BeginSoftmask \/ ShowPattern)
  BY <1>2 DEF BeginSoftmask, ShowPattern
<1>9. \A x : /\ ~RunXobject(x, Past)
             /\ ~RunXobject(x, calls)
  <2>1. \A y : Append(Past, y) # << >>
    BY <1>2 DEF Past, Then
  <2> QED BY <1>1, <1>2, <2>1 DEF RunXobject
<1>10. ~(RunMask \/ Appearance \/ \E x \in Forms : Run_Do(x))
  BY <1>9, Zenon DEF RunMask, Appearance, Run_Do
<1>11. ~(Run_q \/ Run_Q \/ Run_W \/ Run_ET \/ SetBlend)
  BY <1>1, Zenon DEF Run_q, Run_Q, Run_W, Run_ET, SetBlend
<1>12. \A x : ~SetSoftmask(x) /\ ~SetFill(x) /\ ~Run_Paint(x)
  BY <1>1, <1>2, Zenon DEF SetSoftmask, SetFill, Run_Paint, Paint
<1> QED BY <1>3, <1>4, <1>5, <1>6, <1>7, <1>8, <1>10, <1>11, <1>12, Zenon
        DEF Next, Step, Operator

\* gparent is among the states that there are
Parents == Patient => csi.gparent <= 1 \/ csi.gparent <= Len(gs)

LEMMA TopBounded ==
  ASSUME NEW fs, fs # << >>, NEW n \in Nat, NEW gb, NEW gp, Levelled(fs, n, gb, gp), Patient
  PROVE  (gp <= 1 \/ gp <= n) /\ (n >= 1 => gp <= n)
<1> DEFINE f == fs[Len(fs)]
<1>1. At(f, n, gb, gp)
  BY DEF Levelled
<1> HIDE DEF f
<1>2. f.fn \notin Outer => n >= 1
  BY <1>1, Zenon DEF At, LevelAt, WeakAt, NeedsAt
<1>3. n >= 1 => gp <= n
  BY <1>1, Bounded
<1>4. f.fn \in Outer => gp = 1
  BY <1>1, Zenon DEF At, LevelAt, StrongAt, PageAt
<1> QED BY <1>2, <1>3, <1>4

LEMMA ParentsStep == LInv /\ Parents /\ [Next]_vars => Parents'
<1> SUFFICES ASSUME LInv, Parents, [Next]_vars, Patient
             PROVE  csi'.gparent <= 1 \/ csi'.gparent <= Len(gs')
  BY DEF Parents
<1>1. CASE UNCHANGED vars
  BY <1>1 DEF vars, Parents
<1>2. CASE Next /\ calls' = << >>
  <2>1. Same
    BY <1>2, EndsSame
  <2> QED BY <2>1 DEF Parents, Same
<1>3. CASE calls' # << >>
  <2>1. LInv'
    BY LevelsStep
  <2>2. Len(gs') \in Nat
    BY <2>1, SeqLen DEF LInv, IInv
  <2>3. Levelled(calls', Len(gs'), csi'.gbot, csi'.gparent)
    BY <2>1 DEF LInv, Levels
  <2> QED BY <1>3, <2>2, <2>3, TopBounded
<1> QED BY <1>1, <1>2, <1>3

\* there is a graphics state, where one is used
LEMMA Working ==
  ASSUME LInv, calls # << >>, Here.todo # << >>,
         Here.todo[1][1] \notin {"page", "annot", "open", "new", "close"}
  PROVE  Len(gs) \in Nat /\ Len(gs) >= 1 /\ gs # << >> /\ Len(gs) \in 1..Len(gs)
<1> DEFINE f == Here
           n == Len(gs)
<1>1. /\ At(f, n, csi.gbot, csi.gparent) /\ f.todo # << >> /\ n \in Nat /\ IsSeq(gs)
      /\ f.todo[1][1] \notin {"page", "annot", "open", "new", "close"}
      /\ f.fn \notin Outer => n >= 1
  BY ReadyLevel
<1> HIDE DEF f, n
<1>2. ASSUME f.fn \in Outer
      PROVE  n >= 1
  <2>1. OuterAt(f.todo, f.onErr, f.keep) /\ (NeedsAt(f.fn, f.todo) <=> (n >= 1))
    BY <1>1, <1>2, Zenon DEF At, LevelAt, WeakAt
  <2>2. f.todo[1][1] \in RunWords
    BY <1>1, <2>1, OuterNext DEF RunWords
  <2> QED BY <1>1, <2>1, <2>2 DEF NeedsAt
<1>3. n >= 1 /\ n \in 1..n /\ n # 0
  <2>1. n >= 1
    BY <1>1, <1>2
  <2> QED BY <1>1, <2>1, SMT
<1> QED BY <1>1, <1>3, SeqLen DEF n

\* a graphics state, that is the i-th
IsState(s, i) ==
  /\ s = [clips |-> s.clips, soft |-> s.soft, blend |-> s.blend, fill |-> s.fill,
          from |-> s.from]
  /\ s.soft \in Forms \cup {None}
  /\ s.from \in Nat /\ (Patient => s.from <= i)
StateOf(c, m, b, k, fr) == [clips |-> c, soft |-> m, blend |-> b, fill |-> k, from |-> fr]
GoodStates == \A i \in 1..Len(gs) : IsState(gs[i], i)

LEMMA StateSoft ==
  ASSUME NEW c, NEW m, NEW b, NEW k, NEW fr
  PROVE  StateOf(c, m, b, k, fr).soft = m /\ StateOf(c, m, b, k, fr).from = fr
BY SMT DEF StateOf

LEMMA StateOfIs ==
  ASSUME NEW c, NEW m, NEW b, NEW k, NEW fr, NEW i, NEW s, s = StateOf(c, m, b, k, fr),
         m \in Forms \cup {None} /\ fr \in Nat /\ (Patient => fr <= i)
  PROVE  IsState(s, i)
<1>1. s.clips = c /\ s.soft = m /\ s.blend = b /\ s.fill = k /\ s.from = fr
  BY SMT DEF StateOf
<1>2. s = [clips |-> s.clips, soft |-> s.soft, blend |-> s.blend, fill |-> s.fill,
           from |-> s.from]
  BY <1>1, Zenon DEF StateOf
<1> QED BY <1>1, <1>2 DEF IsState

\* a graphics state with another field
LEMMA StateWith ==
  ASSUME NEW s, NEW i, IsState(s, i), NEW v
  PROVE  /\ IsState([s EXCEPT !.clips = v], i) /\ [s EXCEPT !.clips = v].soft = s.soft
         /\ IsState([s EXCEPT !.blend = v], i) /\ [s EXCEPT !.blend = v].soft = s.soft
         /\ IsState([s EXCEPT !.fill = v], i) /\ [s EXCEPT !.fill = v].soft = s.soft
         /\ v \in Forms \cup {None} =>
              IsState([s EXCEPT !.soft = v], i) /\ [s EXCEPT !.soft = v].soft = v
         /\ v \in Nat /\ (Patient => v <= i) =>
              IsState([s EXCEPT !.from = v], i) /\ [s EXCEPT !.from = v].soft = s.soft
<1>1. /\ s = StateOf(s.clips, s.soft, s.blend, s.fill, s.from)
      /\ s.soft \in Forms \cup {None} /\ s.from \in Nat /\ (Patient => s.from <= i)
  BY DEF IsState, StateOf
<1>2. PICK c, m, b, k, fr : /\ c = s.clips /\ m = s.soft /\ b = s.blend /\ k = s.fill
                            /\ fr = s.from
  OBVIOUS
<1>3. /\ s = StateOf(c, m, b, k, fr)
      /\ m \in Forms \cup {None} /\ fr \in Nat /\ (Patient => fr <= i)
  BY <1>1, <1>2
<1>4. /\ [StateOf(c, m, b, k, fr) EXCEPT !.clips = v] = StateOf(v, m, b, k, fr)
      /\ [StateOf(c, m, b, k, fr) EXCEPT !.blend = v] = StateOf(c, m, v, k, fr)
      /\ [StateOf(c, m, b, k, fr) EXCEPT !.fill = v] = StateOf(c, m, b, v, fr)
      /\ [StateOf(c, m, b, k, fr) EXCEPT !.soft = v] = StateOf(c, v, b, k, fr)
      /\ [StateOf(c, m, b, k, fr) EXCEPT !.from = v] = StateOf(c, m, b, k, v)
  BY SMT DEF StateOf
<1>5. IsState([s EXCEPT !.clips = v], i)
  BY <1>3, <1>4, StateOfIs
<1>6. IsState([s EXCEPT !.blend = v], i)
  BY <1>3, <1>4, StateOfIs
<1>7. IsState([s EXCEPT !.fill = v], i)
  BY <1>3, <1>4, StateOfIs
<1>8. v \in Forms \cup {None} => IsState([s EXCEPT !.soft = v], i)
  BY <1>3, <1>4, StateOfIs
<1>9. v \in Nat /\ (Patient => v <= i) => IsState([s EXCEPT !.from = v], i)
  BY <1>3, <1>4, StateOfIs
<1>10. /\ [s EXCEPT !.clips = v].soft = m /\ [s EXCEPT !.blend = v].soft = m
       /\ [s EXCEPT !.fill = v].soft = m /\ [s EXCEPT !.soft = v].soft = v
       /\ [s EXCEPT !.from = v].soft = m
  BY <1>3, <1>4, StateSoft
<1> QED BY <1>2, <1>5, <1>6, <1>7, <1>8, <1>9, <1>10

LEMMA NewStateIs ==
  ASSUME NEW i \in Nat
  PROVE  IsState(NewState, i) /\ NewState.soft = None
<1>1. NewState = StateOf(0, None, FALSE, "colour", 0)
  BY DEF NewState, StateOf
<1>2. None \in Forms \cup {None} /\ 0 \in Nat /\ (Patient => 0 <= i)
  BY SMT
<1>3. IsState(NewState, i)
  BY <1>1, <1>2, StateOfIs
<1>4. NewState.soft = None
  BY SMT DEF NewState
<1> QED BY <1>3, <1>4

-----------------------------------------------------------------------------
(* The references to soft masks                                            *)

\* where a mask is, of states or of calls
Places(s, m) == {i \in 1..Len(s) : s[i].soft = m}
HowMany(s, m) == Cardinality(Places(s, m))

LEMMA HowManyNat ==
  ASSUME NEW s, IsSeq(s), NEW m
  PROVE  IsFiniteSet(Places(s, m)) /\ HowMany(s, m) \in Nat
<1>1. Len(s) \in Nat /\ 1 \in Int /\ Len(s) \in Int
  BY SeqLen
<1>2. IsFiniteSet(1..Len(s))
  BY <1>1, FS_Interval
<1>3. IsFiniteSet(Places(s, m))
  BY <1>2, FS_Subset DEF Places
<1> QED BY <1>3, FS_CardinalityType DEF HowMany

LEMMA CountIs ==
  ASSUME NEW s, IsSeq(s), NEW t, IsSeq(t), NEW m
  PROVE  /\ HowMany(s, m) \in Nat /\ HowMany(t, m) \in Nat
         /\ Places(s, m) \subseteq Places(t, m) => HowMany(s, m) <= HowMany(t, m)
         /\ \A k : Places(s, m) \subseteq Places(t, m) \cup {k}
                     => HowMany(s, m) <= HowMany(t, m) + 1
         /\ \A k \in Places(t, m) : Places(s, m) \subseteq Places(t, m) \ {k}
                     => HowMany(s, m) + 1 <= HowMany(t, m)
<1>1. /\ IsFiniteSet(Places(s, m)) /\ HowMany(s, m) \in Nat
      /\ IsFiniteSet(Places(t, m)) /\ HowMany(t, m) \in Nat
  BY HowManyNat
<1>2. ASSUME Places(s, m) \subseteq Places(t, m)
      PROVE  HowMany(s, m) <= HowMany(t, m)
  BY <1>1, <1>2, FS_Subset DEF HowMany
<1>3. ASSUME NEW k, Places(s, m) \subseteq Places(t, m) \cup {k}
      PROVE  HowMany(s, m) <= HowMany(t, m) + 1
  <2> DEFINE T == Places(t, m) \cup {k}
  <2>1. IsFiniteSet(T) /\ (Cardinality(T) = HowMany(t, m) \/ Cardinality(T) = HowMany(t, m) + 1)
    BY <1>1, FS_AddElement DEF HowMany
  <2>2. HowMany(s, m) <= Cardinality(T)
    BY <1>3, <2>1, FS_Subset DEF HowMany
  <2> HIDE DEF T
  <2> QED BY <1>1, <2>1, <2>2
<1>4. ASSUME NEW k \in Places(t, m), Places(s, m) \subseteq Places(t, m) \ {k}
      PROVE  HowMany(s, m) + 1 <= HowMany(t, m)
  <2> DEFINE T == Places(t, m) \ {k}
  <2>1. IsFiniteSet(T) /\ Cardinality(T) = HowMany(t, m) - 1
    BY <1>1, <1>4, FS_RemoveElement DEF HowMany
  <2>2. HowMany(s, m) <= Cardinality(T)
    BY <1>4, <2>1, FS_Subset DEF HowMany
  <2> HIDE DEF T
  <2> QED BY <1>1, <2>1, <2>2
<1> QED BY <1>1, <1>2, <1>3, <1>4

\* one has no mask that the other has not
Softer(s, t) ==
  IsSeq(s) /\ \A i \in 1..Len(s) :
                s[i].soft = None \/ (i \in 1..Len(t) /\ s[i].soft = t[i].soft)

LEMMA SofterCounts ==
  ASSUME NEW s, NEW t, IsSeq(t), Softer(s, t), NEW m \in Forms
  PROVE  HowMany(s, m) <= HowMany(t, m) /\ HowMany(s, m) \in Nat /\ HowMany(t, m) \in Nat
<1>1. m # None
  BY FormsAssumption
<1>2. Places(s, m) \subseteq Places(t, m)
  BY <1>1 DEF Softer, Places
<1> QED BY <1>2, CountIs DEF Softer

LEMMA SofterTwice ==
  ASSUME NEW s, NEW t, NEW u, Softer(s, t), Softer(t, u)
  PROVE  Softer(s, u)
BY DEF Softer

LEMMA SofterSelf ==
  ASSUME NEW s, IsSeq(s)
  PROVE  Softer(s, s)
BY DEF Softer

LEMMA SofterReplaced ==
  ASSUME NEW s, IsSeq(s), NEW n, NEW g, n \in 1..Len(s) => g.soft = s[n].soft
  PROVE  Softer(Replaced(s, n, g), s)
<1>1. /\ IsSeq(Replaced(s, n, g)) /\ Len(Replaced(s, n, g)) = Len(s)
      /\ n \in 1..Len(s) => Replaced(s, n, g)[n] = g
      /\ \A i \in 1..Len(s) : i # n => Replaced(s, n, g)[i] = s[i]
  BY ReplacedSeq
<1> DEFINE t == Replaced(s, n, g)
<1> HIDE DEF t
<1>2. \A i \in 1..Len(t) : i \in 1..Len(s) /\ t[i].soft = s[i].soft
  <2> TAKE i \in 1..Len(t)
  <2>1. i \in 1..Len(s)
    BY <1>1 DEF t
  <2>2. CASE i = n
    BY <1>1, <2>1, <2>2 DEF t
  <2>3. CASE i # n
    BY <1>1, <2>1, <2>3 DEF t
  <2> QED BY <2>1, <2>2, <2>3
<1> QED BY <1>1, <1>2 DEF Softer, t

LEMMA SofterAppend ==
  ASSUME NEW s, NEW t, Softer(s, t), NEW g, g.soft = None
  PROVE  Softer(Append(s, g), t)
<1> DEFINE u == Append(s, g)
           n == Len(s)
<1>1. /\ IsSeq(u) /\ Len(u) = n + 1 /\ u[n + 1] = g
      /\ \A i \in 1..n : u[i] = s[i]
  BY AppendSeq DEF Softer
<1>2. n \in Nat
  BY SeqLen DEF Softer
<1> HIDE DEF u
<1>3. \A i \in 1..Len(u) : i = n + 1 \/ i \in 1..n
  <2> HIDE DEF n
  <2> QED BY <1>1, <1>2, SMT
<1>4. \A i \in 1..n : s[i].soft = None \/ (i \in 1..Len(t) /\ s[i].soft = t[i].soft)
  BY DEF Softer
<1> HIDE DEF n
<1>5. \A i \in 1..Len(u) : u[i].soft = None \/ (i \in 1..Len(t) /\ u[i].soft = t[i].soft)
  <2> TAKE i \in 1..Len(u)
  <2>1. CASE i = n + 1
    BY <1>1, <2>1
  <2>2. CASE i \in 1..n
    BY <1>1, <1>4, <2>2
  <2> QED BY <1>3, <2>1, <2>2
<1> QED BY <1>1, <1>5 DEF Softer, u

LEMMA SofterFront ==
  ASSUME NEW s, IsSeq(s), s # << >>
  PROVE  Softer(Front(s), s)
<1>1. /\ IsSeq(Front(s)) /\ Len(Front(s)) = Len(s) - 1
      /\ \A i \in 1..Len(s) - 1 : Front(s)[i] = s[i]
  BY FrontSeq
<1>2. \A i \in 1..Len(s) - 1 : i \in 1..Len(s)
  BY SeqLen
<1> QED BY <1>1, <1>2 DEF Softer

LEMMA SofterUnwound ==
  ASSUME NEW fs, IsSeq(fs), \A i \in 1..Len(fs) : IsRec(fs[i]), NEW e
  PROVE  Softer(Unwound(fs, e), fs)
<1> DEFINE u == Unwound(fs, e)
<1>1. CASE u = << >>
  <2>1. IsSeq(u) /\ Len(u) = 0
    BY <1>1, LenZero DEF IsSeq
  <2> HIDE DEF u
  <2>2. \A i \in 1..Len(u) : FALSE
    BY <2>1
  <2> QED BY <2>1, <2>2 DEF Softer, u
<1>2. ASSUME NEW k \in 1..Len(fs), IsSeq(u), Len(u) = k, u[k] = Caught(fs[k], e),
             \A i \in 1..k - 1 : u[i] = fs[i]
      PROVE  Softer(u, fs)
  <2>1. u[k].soft = fs[k].soft
    BY <1>2, CaughtFields
  <2>2. Len(fs) \in Nat
    BY SeqLen
  <2>3. \A i \in 1..k : i \in 1..Len(fs) /\ (i = k \/ i \in 1..k - 1)
    BY <2>2
  <2> HIDE DEF u
  <2>4. \A i \in 1..k : u[i].soft = fs[i].soft
    BY <1>2, <2>1, <2>3
  <2> QED BY <1>2, <2>3, <2>4 DEF Softer
<1> QED BY <1>1, <1>2, UnwoundIs

\* what is kept for the states and for the calls
GoodSofts == \A i \in 1..Len(calls) : calls[i].soft \in Forms \cup {None}
Held == /\ refs \in [Forms -> Int]
        /\ \A m \in Forms : refs[m] >= HowMany(gs, m) + HowMany(calls, m)
SInv == GoodStates /\ GoodSofts /\ Held
\* the references go with the states
Gains == /\ GoodStates' /\ IsSeq(gs') /\ refs' \in [Forms -> Int]
         /\ \A m \in Forms : refs'[m] - refs[m] >= HowMany(gs', m) - HowMany(gs, m)

LEMMA Seqs ==
  ASSUME LInv
  PROVE  /\ IsSeq(gs) /\ IsSeq(calls) /\ Len(gs) \in Nat /\ DOMAIN gs = 1..Len(gs)
         /\ \A m : HowMany(gs, m) \in Nat /\ HowMany(calls, m) \in Nat
         /\ \A i \in 1..Len(calls) : Shaped(calls[i]) /\ IsRec(calls[i])
<1>1. IsSeq(gs) /\ IsSeq(calls) /\ \A i \in 1..Len(calls) : Shaped(calls[i])
  BY DEF LInv, IInv, Stacked
<1>2. \A i \in 1..Len(calls) : IsRec(calls[i])
  BY <1>1 DEF Shaped, IsFrame, IsRec
<1> QED BY <1>1, <1>2, SeqLen, HowManyNat

LEMMA Gained ==
  ASSUME LInv, SInv, Gains, Softer(calls', calls)
  PROVE  SInv'
<1>1. IsSeq(gs) /\ IsSeq(calls) /\ IsSeq(gs')
  BY Seqs DEF Gains
<1>2. GoodSofts'
  BY DEF SInv, GoodSofts, Softer
<1>3. ASSUME NEW m \in Forms
      PROVE  refs'[m] >= HowMany(gs', m) + HowMany(calls', m)
  <2>1. /\ HowMany(calls', m) <= HowMany(calls, m)
        /\ HowMany(calls', m) \in Nat /\ HowMany(calls, m) \in Nat
    BY <1>1, SofterCounts
  <2>2. HowMany(gs, m) \in Nat /\ HowMany(gs', m) \in Nat
    BY <1>1, HowManyNat
  <2>3. refs[m] \in Int /\ refs'[m] \in Int /\ refs[m] >= HowMany(gs, m) + HowMany(calls, m)
        /\ refs'[m] - refs[m] >= HowMany(gs', m) - HowMany(gs, m)
    BY DEF SInv, Held, Gains
  <2> QED BY <2>1, <2>2, <2>3
<1> QED BY <1>2, <1>3 DEF SInv, Held, Gains

LEMMA Unmoved ==
  ASSUME LInv, SInv, gs' = gs, refs' = refs
  PROVE  Gains
<1>1. \A m \in Forms : HowMany(gs, m) \in Nat /\ refs[m] \in Int
  BY Seqs DEF SInv, Held
<1>2. \A m \in Forms : refs[m] - refs[m] >= HowMany(gs, m) - HowMany(gs, m)
  BY <1>1
<1> QED BY <1>2, Seqs DEF Gains, SInv, GoodStates, Held

\* another field of the current state
LEMMA SetsField ==
  ASSUME LInv, SInv, Len(gs) \in 1..Len(gs), NEW x, IsState(x, Len(gs)),
         gs' = Replaced(gs, Len(gs), x)
  PROVE  /\ GoodStates' /\ IsSeq(gs')
         /\ \A i \in 1..Len(gs') : i \in 1..Len(gs) /\ (i # Len(gs) => gs'[i] = gs[i])
         /\ gs'[Len(gs)] = x /\ Len(gs') = Len(gs)
         /\ x.soft = State.soft /\ refs' = refs => Gains
<1>0. IsSeq(gs) /\ Len(gs) \in Nat
  BY Seqs
<1>1. /\ IsSeq(gs') /\ Len(gs') = Len(gs) /\ gs'[Len(gs)] = x
      /\ \A i \in 1..Len(gs) : i # Len(gs) => gs'[i] = gs[i]
  BY <1>0, ReplacedSeq
<1>2. GoodStates'
  BY <1>1 DEF SInv, GoodStates
<1>3. ASSUME x.soft = State.soft, refs' = refs, NEW m \in Forms
      PROVE  refs'[m] - refs[m] >= HowMany(gs', m) - HowMany(gs, m)
  <2>1. Softer(gs', gs)
    BY <1>0, <1>3, SofterReplaced DEF State
  <2>2. /\ HowMany(gs', m) <= HowMany(gs, m)
        /\ HowMany(gs', m) \in Nat /\ HowMany(gs, m) \in Nat
    BY <1>0, <2>1, SofterCounts
  <2>3. refs[m] \in Int /\ refs'[m] = refs[m]
    BY <1>3 DEF SInv, Held
  <2> QED BY <2>2, <2>3
<1> QED BY <1>1, <1>2, <1>3 DEF Gains, SInv, Held

LEMMA KeptIs ==
  ASSUME refs \in [Forms -> Int], NEW m \in Forms \cup {None}, NEW n \in Int,
         refs' = Kept(m, n)
  PROVE  /\ refs' \in [Forms -> Int]
         /\ \A x \in Forms : refs'[x] = IF x = m THEN refs[x] + n ELSE refs[x]
BY FormsAssumption DEF Kept

\* a state, with the mask of the current one or without
LEMMA PushesState ==
  ASSUME LInv, SInv, Len(gs) \in 1..Len(gs), NEW x, IsState(x, Len(gs) + 1),
         x.soft \in {State.soft, None},
         gs' = Append(gs, x), refs' = Kept(State.soft, 1)
  PROVE  Gains
<1> DEFINE n == Len(gs)
           k == n + 1
<1>0. IsSeq(gs) /\ n \in Nat /\ State.soft \in Forms \cup {None}
  BY Seqs DEF SInv, GoodStates, IsState, State
<1>1. IsSeq(gs') /\ Len(gs') = k /\ gs'[k] = x /\ \A i \in 1..n : gs'[i] = gs[i]
  BY <1>0, AppendSeq
<1>2. IsState(x, k) /\ \A i \in 1..n : IsState(gs[i], i)
  BY DEF SInv, GoodStates
<1>3. /\ refs' \in [Forms -> Int] /\ refs \in [Forms -> Int]
      /\ \A y \in Forms : refs'[y] = IF y = State.soft THEN refs[y] + 1 ELSE refs[y]
  <2>1. refs \in [Forms -> Int] /\ 1 \in Int
    BY DEF SInv, Held
  <2> QED BY <1>0, <2>1, KeptIs
<1>4. \A i \in 1..k : i = k \/ i \in 1..n
  <2> HIDE DEF n
  <2> QED BY <1>0, SMT
<1> HIDE DEF k, n
<1>5. GoodStates'
  BY <1>1, <1>2, <1>4 DEF GoodStates
<1>6. ASSUME NEW m \in Forms
      PROVE  refs'[m] - refs[m] >= HowMany(gs', m) - HowMany(gs, m)
  <2>1. refs[m] \in Int /\ refs'[m] = (IF m = State.soft THEN refs[m] + 1 ELSE refs[m])
    BY <1>3
  <2>2. Places(gs', m) \subseteq Places(gs, m) \cup {k}
    BY <1>1, <1>4 DEF Places, n
  <2>3. m # State.soft => Places(gs', m) \subseteq Places(gs, m)
    <3>1. m # None
      BY FormsAssumption
    <3> QED BY <1>1, <1>4, <3>1 DEF Places, n
  <2>4. /\ HowMany(gs', m) \in Nat /\ HowMany(gs, m) \in Nat
        /\ HowMany(gs', m) <= HowMany(gs, m) + 1
        /\ m # State.soft => HowMany(gs', m) <= HowMany(gs, m)
    BY <1>0, <1>1, <2>2, <2>3, CountIs
  <2>5. CASE m = State.soft
    BY <2>1, <2>4, <2>5
  <2>6. CASE m # State.soft
    BY <2>1, <2>4, <2>6
  <2> QED BY <2>5, <2>6
<1> QED BY <1>1, <1>3, <1>5, <1>6 DEF Gains

\* without the current state
LEMMA Loses ==
  ASSUME LInv, SInv, Len(gs) \in 1..Len(gs), refs' = Kept(State.soft, -1),
         IsSeq(gs'), \A i \in 1..Len(gs') : i \in 1..Len(gs) - 1 /\ gs'[i] = gs[i]
  PROVE  Gains
<1> DEFINE n == Len(gs)
<1>0. IsSeq(gs) /\ n \in Nat /\ State.soft \in Forms \cup {None}
  BY Seqs DEF SInv, GoodStates, IsState, State
<1>1. \A i \in 1..n - 1 : i \in 1..n /\ i # n
  <2> HIDE DEF n
  <2> QED BY <1>0, SMT
<1>2. GoodStates'
  BY <1>1 DEF SInv, GoodStates
<1>3. /\ refs' \in [Forms -> Int] /\ refs \in [Forms -> Int]
      /\ \A y \in Forms : refs'[y] = IF y = State.soft THEN refs[y] + (-1) ELSE refs[y]
  BY <1>0, KeptIs DEF SInv, Held
<1>4. ASSUME NEW m \in Forms
      PROVE  refs'[m] - refs[m] >= HowMany(gs', m) - HowMany(gs, m)
  <2>1. refs[m] \in Int /\ refs'[m] = (IF m = State.soft THEN refs[m] + (-1) ELSE refs[m])
    BY <1>3
  <2>2. Places(gs', m) \subseteq Places(gs, m) \ {n}
    BY <1>1 DEF Places
  <2>3. m = State.soft => n \in Places(gs, m)
    BY DEF Places, State
  <2> HIDE DEF n
  <2>4. /\ HowMany(gs', m) \in Nat /\ HowMany(gs, m) \in Nat
        /\ HowMany(gs', m) <= HowMany(gs, m)
        /\ m = State.soft => HowMany(gs', m) + 1 <= HowMany(gs, m)
    BY <1>0, <2>2, <2>3, CountIs
  <2>5. CASE m = State.soft
    BY <2>1, <2>4, <2>5
  <2>6. CASE m # State.soft
    BY <2>1, <2>4, <2>6
  <2> QED BY <2>5, <2>6
<1> QED BY <1>2, <1>3, <1>4 DEF Gains

LEMMA DropsState ==
  ASSUME LInv, SInv, Len(gs) \in 1..Len(gs), refs' = Kept(State.soft, -1),
         gs' = Front(gs) \/ gs' = << >>
  PROVE  Gains
<1>1. IsSeq(gs) /\ Len(gs) \in Nat /\ (gs = << >> <=> Len(gs) = 0)
  BY Seqs, SeqLen
<1>2. CASE gs' = Front(gs)
  <2>1. gs # << >>
    BY <1>1
  <2>2. /\ IsSeq(gs') /\ Len(gs') = Len(gs) - 1
        /\ \A i \in 1..Len(gs) - 1 : gs'[i] = gs[i]
    BY <1>1, <1>2, <2>1, FrontSeq
  <2> QED BY <2>2, Loses
<1>3. CASE gs' = << >>
  <2>1. IsSeq(gs') /\ Len(gs') = 0
    BY <1>3, LenZero DEF IsSeq
  <2>2. \A i \in 1..Len(gs') : FALSE
    BY <2>1
  <2> QED BY <2>1, <2>2, Loses
<1> QED BY <1>2, <1>3

LEMMA GrestoreGains ==
  ASSUME LInv, SInv, Len(gs) \in 1..Len(gs), Grestore
  PROVE  Gains
BY Unmoved, DropsState DEF Grestore, Drop

LEMMA GsaveGains ==
  ASSUME LInv, SInv, Len(gs) \in 1..Len(gs), Gsave
  PROVE  Gains
<1> DEFINE n == Len(gs)
<1>1. IsState(State, n) /\ n \in Nat
  BY Seqs DEF SInv, GoodStates, State
<1> HIDE DEF n
<1>2. IsState(State, n + 1)
  <2>1. State.from \in Nat /\ (State.from <= n => State.from <= n + 1)
    BY <1>1 DEF IsState
  <2> QED BY <1>1, <2>1 DEF IsState
<1> QED BY <1>2, PushesState DEF Gsave, n

LEMMA BeginsGains ==
  ASSUME LInv, SInv, gs' = <<NewState, NewState>>, refs' = refs
  PROVE  Gains
<1>1. /\ IsSeq(gs') /\ Len(gs') = 2
      /\ \A i \in 1..2 : gs'[i] = NewState
  <2>1. PICK x : x = NewState
    OBVIOUS
  <2>2. <<x, x>> \in Seq({x}) /\ Len(<<x, x>>) = 2 /\ <<x, x>>[1] = x /\ <<x, x>>[2] = x
    BY SMT
  <2>3. gs' = <<x, x>>
    BY <2>1
  <2>4. IsSeq(gs')
    BY <2>2, <2>3 DEF IsSeq
  <2>5. \A i \in 1..2 : i = 1 \/ i = 2
    OBVIOUS
  <2> QED BY <2>1, <2>2, <2>3, <2>4, <2>5
<1>2. GoodStates'
  BY <1>1, NewStateIs DEF GoodStates
<1>3. \A i \in 1..Len(gs') : gs'[i].soft = None
  BY <1>1, NewStateIs
<1>4. Softer(gs', gs)
  BY <1>1, <1>3 DEF Softer
<1>5. ASSUME NEW m \in Forms
      PROVE  refs'[m] - refs[m] >= HowMany(gs', m) - HowMany(gs, m)
  <2>1. /\ HowMany(gs', m) <= HowMany(gs, m)
        /\ HowMany(gs', m) \in Nat /\ HowMany(gs, m) \in Nat
    BY <1>4, Seqs, SofterCounts
  <2>2. refs[m] \in Int /\ refs'[m] = refs[m]
    BY DEF SInv, Held
  <2> QED BY <2>1, <2>2
<1> QED BY <1>1, <1>2, <1>5 DEF Gains, SInv, Held

\* calls that have no mask that they have not now
GoodCalls(fs) == IsSeq(fs) /\ (\A i \in 1..Len(fs) : IsRec(fs[i])) /\ Softer(fs, calls)

LEMMA GoodHere ==
  ASSUME LInv
  PROVE  GoodCalls(calls)
BY Seqs, SofterSelf DEF GoodCalls

LEMMA GoodGoes ==
  ASSUME LInv, calls # << >>, NEW g, IsRec(g), g.soft = Here.soft
  PROVE  GoodCalls(Goes(g))
<1>1. /\ IsSeq(Goes(g)) /\ Len(Goes(g)) = Len(calls) /\ Goes(g)[Len(Goes(g))] = g
      /\ \A i \in 1..Len(calls) : i # Len(calls) => Goes(g)[i] = calls[i]
  BY GoesSeq
<1>2. IsSeq(calls) /\ \A i \in 1..Len(calls) : IsRec(calls[i])
  BY Seqs
<1>3. Softer(Replaced(calls, Len(calls), g), calls)
  BY <1>2, SofterReplaced DEF Here
<1>4. Softer(Goes(g), calls)
  BY <1>3 DEF Goes, Replaced
<1>5. \A i \in 1..Len(calls) : IsRec(Goes(g)[i])
  BY <1>1, <1>2
<1> QED BY <1>1, <1>4, <1>5 DEF GoodCalls

\* the innermost call goes on, with other steps
LEMMA GoodThen ==
  ASSUME LInv, calls # << >>, Here.todo # << >>
  PROVE  /\ GoodCalls(Past) /\ \A s : GoodCalls(Then(s))
         /\ GoodCalls(Goes([Here EXCEPT !.onErr = << >>, !.todo = Tail(@)]))
<1> DEFINE f == Here
<1>0. IsRec(f)
  BY ReadyLevel
<1>1. ASSUME NEW t
      PROVE  GoodCalls(Goes(WithTodo(f, t)))
  <2>1. PICK g : g = WithTodo(f, t)
    OBVIOUS
  <2> HIDE DEF f
  <2>2. IsRec(g) /\ g.soft = f.soft
    BY <1>0, <2>1, WithFields
  <2> QED BY <2>1, <2>2, GoodGoes DEF f
<1>2. \A s : GoodCalls(Then(s))
  <2> TAKE s
  <2>1. PICK t : t = s \o Tail(Here.todo)
    OBVIOUS
  <2>2. Then(s) = Goes(WithTodo(f, t))
    BY <2>1 DEF Then, WithTodo
  <2> QED BY <1>1, <2>2
<1>3. GoodCalls(Goes([Here EXCEPT !.onErr = << >>, !.todo = Tail(@)]))
  <2>1. PICK t, o : t = Tail(Here.todo) /\ o = << >>
    OBVIOUS
  <2>2. PICK g : g = WithTodo(WithOnErr(f, o), t)
    OBVIOUS
  <2>3. [Here EXCEPT !.onErr = << >>, !.todo = Tail(@)] = g
    BY <2>1, <2>2 DEF WithTodo, WithOnErr
  <2> HIDE DEF f
  <2>4. IsRec(g) /\ g.soft = f.soft
    BY <1>0, <2>2, StepFields
  <2>5. GoodCalls(Goes(g))
    BY <2>4, GoodGoes DEF f
  <2> QED BY <2>3, <2>5
<1> QED BY <1>2, <1>3 DEF Past

LEMMA GoodFront ==
  ASSUME LInv, calls # << >>
  PROVE  GoodCalls(Front(calls))
<1>1. IsSeq(calls) /\ \A i \in 1..Len(calls) : IsRec(calls[i])
  BY Seqs
<1>2. /\ IsSeq(Front(calls)) /\ Len(Front(calls)) = Len(calls) - 1
      /\ \A i \in 1..Len(calls) - 1 : Front(calls)[i] = calls[i]
  BY <1>1, FrontSeq
<1>3. \A i \in 1..Len(calls) - 1 : i \in 1..Len(calls)
  BY <1>1, SeqLen
<1> QED BY <1>1, <1>2, <1>3, SofterFront DEF GoodCalls

\* an exception, and a new call
LEMMA GoodThrow ==
  ASSUME LInv, NEW fs, GoodCalls(fs), NEW e, Throw(fs, e)
  PROVE  Softer(calls', calls)
<1>1. Softer(Unwound(fs, e), fs)
  BY SofterUnwound DEF GoodCalls
<1> QED BY <1>1, SofterTwice DEF Throw, GoodCalls

LEMMA GoodCall ==
  ASSUME LInv, NEW fs, GoodCalls(fs), NEW fn, NEW todo, NEW onErr, NEW k, NEW x
  PROVE  /\ Softer(Append(fs, Frame(fn, todo, onErr)), calls)
         /\ Softer(Append(fs, FrameKeeping(fn, todo, onErr, k)), calls)
         /\ Softer(Append(fs, FrameFor(fn, todo, onErr, x)), calls)
         /\ Softer(Append(fs, FrameBoth(fn, todo, onErr, k, x)), calls)
<1>1. ASSUME NEW g, NEW j, NEW y, g = FrameRec(fn, todo, onErr, j, y)
      PROVE  Softer(Append(fs, g), calls)
  BY <1>1, NewFields, SofterAppend DEF GoodCalls
<1> QED BY <1>1, RecWith

-----------------------------------------------------------------------------
(* What each step does to the states and the masks                         *)

LEMMA At1 ==
  ASSUME LInv, NEW w, Next1(w)
  PROVE  /\ calls # << >> /\ Here.todo # << >>
         /\ GoodCalls(Past) /\ (\A s : GoodCalls(Then(s))) /\ GoodCalls(calls)
         /\ GoodCalls(Goes([Here EXCEPT !.onErr = << >>, !.todo = Tail(@)]))
         /\ w \notin {"page", "annot", "open", "new", "close"}
              => /\ Len(gs) \in 1..Len(gs) /\ Len(gs) \in Nat
                 /\ GoodStates => IsState(State, Len(gs))
<1>1. calls # << >> /\ Here.todo # << >> /\ Here.todo[1][1] = w
  BY NextGoes
<1>2. w \notin {"page", "annot", "open", "new", "close"}
        => Len(gs) \in 1..Len(gs) /\ Len(gs) \in Nat
  BY <1>1, Working
<1> QED BY <1>1, <1>2, GoodThen, GoodHere DEF GoodStates, State

LEMMA GoodSofter ==
  ASSUME NEW fs, GoodCalls(fs), calls' = fs
  PROVE  Softer(calls', calls)
BY DEF GoodCalls

\* steps that leave both alone, of those that are under way
LEMMA QuietSoft ==
  ASSUME LInv, SInv,
         \/ Always \/ OpenBracket \/ CloseBracket \/ EndMask \/ Draw \/ EndBlend
         \/ Leave \/ EndOfStream \/ Run_W \/ Run_ET \/ Later
  PROVE  SInv'
<1>1. gs' = gs /\ refs' = refs
  BY DEF Always, OpenBracket, CloseBracket, EndMask, Draw, EndBlend, Leave, EndOfStream,
         Run_W, Run_ET, Later, Token, Reads
<1>2. PICK w : Next1(w)
  BY DEF Always, OpenBracket, CloseBracket, EndMask, Draw, EndBlend, Leave, EndOfStream,
         Run_W, Run_ET, Later, Token, Reads
<1>3. /\ GoodCalls(Past) /\ (\A s : GoodCalls(Then(s))) /\ GoodCalls(calls)
      /\ GoodCalls(Goes([Here EXCEPT !.onErr = << >>, !.todo = Tail(@)]))
  BY <1>2, At1
<1>4. \/ calls' = Past \/ calls' = calls \/ \E s : calls' = Then(s)
      \/ calls' = Goes([Here EXCEPT !.onErr = << >>, !.todo = Tail(@)])
      \/ \E e : Throw(Past, e) \/ Throw(calls, e)
  BY Zenon DEF Always, OpenBracket, CloseBracket, EndMask, Draw, EndBlend, Leave, EndOfStream,
         Run_W, Run_ET, Later
<1>5. Softer(calls', calls)
  BY <1>3, <1>4, GoodSofter, GoodThrow
<1> QED BY <1>1, <1>5, Unmoved, Gained

LEMMA ReturnSoft == LInv /\ SInv /\ Return => SInv'
<1> SUFFICES ASSUME LInv, SInv, Return
             PROVE  SInv'
  OBVIOUS
<1>1. gs' = gs /\ refs' = refs /\ calls # << >>
  BY DEF Return
<1>2. calls' = Front(calls) \/ Throw(Front(calls), Here.pend)
  BY DEF Return
<1>3. Softer(calls', calls)
  BY <1>1, <1>2, GoodFront, GoodSofter, GoodThrow
<1> QED BY <1>1, <1>3, Unmoved, Gained

\* calls
LEMMA CallSoft ==
  ASSUME LInv, SInv, ShowCell \/ RunContents \/ RunPage \/ RunAnnot
  PROVE  SInv'
<1>1. gs' = gs /\ refs' = refs
  BY DEF ShowCell, RunContents, RunPage, RunAnnot
<1>2. PICK w : Next1(w)
  BY DEF ShowCell, RunContents, RunPage, RunAnnot
<1>3. GoodCalls(Past)
  BY <1>2, At1
<1>4. ASSUME ShowCell
      PROVE  Softer(calls', calls)
  BY <1>3, <1>4, GoodCall DEF ShowCell, Calls
<1>5. ASSUME RunContents
      PROVE  Softer(calls', calls)
  <2>1. \/ calls' = Append(Past, Frame("stream", StreamSteps, StreamSteps))
        \/ \E e : Throw(Past, e)
    BY <1>5 DEF RunContents, Contents, Calls
  <2> QED BY <1>3, <2>1, GoodCall, GoodThrow
<1>6. ASSUME RunPage \/ RunAnnot
      PROVE  Softer(calls', calls)
  <2>1. PICK fn, s : calls' = Append(Past, FrameKeeping(fn, s, FreeSteps, 1))
    <3>1. ASSUME RunPage
          PROVE  \E s : calls' = Append(Past, FrameKeeping("page", s, FreeSteps, 1))
      BY <3>1 DEF RunPage, FrameKeeping, Calls
    <3>2. ASSUME RunAnnot
          PROVE  calls' = Append(Past, FrameKeeping("annot", AnnotSteps, FreeSteps, 1))
      BY <3>2 DEF RunAnnot, FrameKeeping, Calls
    <3> QED BY <1>6, <3>1, <3>2
  <2>2. PICK o, k : o = FreeSteps /\ k = 1
    OBVIOUS
  <2>3. calls' = Append(Past, FrameKeeping(fn, s, o, k))
    BY <2>1, <2>2
  <2> QED BY <1>3, <2>3, GoodCall
<1>7. Softer(calls', calls)
  BY <1>4, <1>5, <1>6
<1> QED BY <1>1, <1>7, Unmoved, Gained

LEMMA PaintSoft ==
  ASSUME LInv, SInv, NEW token, Run_Paint(token)
  PROVE  SInv'
<1>1. gs' = gs /\ refs' = refs
  BY DEF Run_Paint
<1>2. \E t, o : calls' = Append(calls, Frame(token, t, o))
  BY Zenon DEF Run_Paint, Paint
<1>3. Softer(calls', calls)
  BY <1>2, GoodHere, GoodCall
<1> QED BY <1>1, <1>3, Unmoved, Gained

LEMMA ReplacedTwice ==
  ASSUME NEW s, IsSeq(s), NEW n, NEW x, NEW y
  PROVE  Replaced(Replaced(s, n, x), n, y) = Replaced(s, n, y)
BY DEF Replaced, IsSeq

\* a field of the current state
LEMMA FieldSoft ==
  ASSUME LInv, SInv, ClipStep \/ ClipText \/ Reset \/ SetBlend
  PROVE  SInv'
<1>1. PICK w : Next1(w) /\ w \notin {"page", "annot", "open", "new", "close"}
  <2>1. Next1("clip") \/ Next1("clip text") \/ Next1("reset") \/ Next1("token")
    BY Zenon DEF ClipStep, ClipText, Reset, SetBlend, Token, Reads
  <2>2. \A w \in {"clip", "clip text", "reset", "token"} :
          w \notin {"page", "annot", "open", "new", "close"}
    OBVIOUS
  <2> QED BY <2>1, <2>2
<1>2. /\ calls # << >> /\ Here.todo # << >> /\ GoodCalls(Past) /\ GoodCalls(calls)
      /\ Len(gs) \in 1..Len(gs) /\ IsState(State, Len(gs))
  BY <1>1, At1 DEF SInv
<1>3. refs' = refs
  BY DEF ClipStep, ClipText, Reset, SetBlend
<1>4. Softer(calls', calls)
  <2>1. calls' = Past \/ calls' = calls \/ \E e : Throw(Past, e)
    BY DEF ClipStep, ClipText, Reset, SetBlend
  <2> QED BY <1>2, <2>1, GoodSofter, GoodThrow
<1>5. \/ gs' = gs
      \/ \E v : gs' = Replaced(gs, Len(gs), [State EXCEPT !.clips = v])
      \/ \E v : gs' = Replaced(gs, Len(gs), [State EXCEPT !.blend = v])
  BY DEF ClipStep, ClipText, Reset, SetBlend, Replaced, State
<1>6. \A v : /\ IsState([State EXCEPT !.clips = v], Len(gs))
             /\ [State EXCEPT !.clips = v].soft = State.soft
             /\ IsState([State EXCEPT !.blend = v], Len(gs))
             /\ [State EXCEPT !.blend = v].soft = State.soft
  BY <1>2, StateWith
<1>7. Gains
  <2>1. gs' = gs \/ \E x : gs' = Replaced(gs, Len(gs), x) /\ IsState(x, Len(gs))
                            /\ x.soft = State.soft
    BY <1>5, <1>6, Zenon
  <2> QED BY <1>2, <1>3, <2>1, Unmoved, SetsField
<1> QED BY <1>4, <1>7, Gained

LEMMA SetFillSoft ==
  ASSUME LInv, SInv, NEW kind, SetFill(kind)
  PROVE  SInv'
<1>1. Next1("token") /\ refs' = refs /\ calls' = calls
  BY DEF SetFill, Token, Reads
<1> DEFINE n == Len(gs)
<1>2. /\ calls # << >> /\ Here.todo # << >> /\ GoodCalls(calls)
      /\ n \in 1..n /\ n \in Nat /\ IsState(State, n) /\ IsSeq(gs)
  BY <1>1, At1, Seqs DEF SInv
<1> DEFINE v == IF kind = "colour" THEN 0 ELSE csi.gparent
           x == [State EXCEPT !.fill = kind]
           y == [x EXCEPT !.from = v]
<1>3. csi.gparent \in Nat /\ (Patient => csi.gparent <= n)
  <2>1. At(Here, n, csi.gbot, csi.gparent) /\ csi.gparent \in Nat
    BY <1>2, ReadyLevel
  <2>2. Levelled(calls, n, csi.gbot, csi.gparent)
    BY DEF LInv, Levels
  <2>3. n >= 1
    <3> HIDE DEF n
    <3> QED BY <1>2, SMT
  <2> QED BY <1>2, <2>1, <2>2, <2>3, TopBounded
<1>4. v \in Nat /\ (Patient => v <= n)
  <2>1. 0 \in Nat /\ 0 <= n
    <3> HIDE DEF n
    <3> QED BY <1>2, SMT
  <2> QED BY <1>3, <2>1
<1>5. IsState(x, n) /\ x.soft = State.soft
  BY <1>2, StateWith
<1>6. IsState(y, n) /\ y.soft = x.soft
  <2> HIDE DEF v, x, n
  <2> QED BY <1>4, <1>5, StateWith, ZenonT(60)
<1>7. gs' = Replaced(gs, n, y)
  <2>1. Replaced(gs, n, x)[n] = x
    BY <1>2, ReplacedSeq
  <2>2. gs' = Replaced(Replaced(gs, n, x), n, [Replaced(gs, n, x)[n] EXCEPT !.from = v])
    BY DEF SetFill, Replaced, State
  <2>3. gs' = Replaced(Replaced(gs, n, x), n, y)
    BY <2>1, <2>2
  <2> QED BY <1>2, <2>3, ReplacedTwice
<1> HIDE DEF y
<1>8. Gains
  BY <1>1, <1>2, <1>5, <1>6, <1>7, SetsField
<1> QED BY <1>1, <1>2, <1>8, GoodSofter, Gained

\* pdf_gsave and pdf_grestore
LEMMA SavedSoft ==
  ASSUME LInv, SInv,
         \/ GsaveStep \/ GrestoreStep \/ GrestoreDown \/ LeaveForm \/ Run_q \/ Run_Q
  PROVE  SInv'
<1>1. PICK w : Next1(w) /\ w \notin {"page", "annot", "open", "new", "close"}
  <2>1. \/ Next1("gsave") \/ Next1("grestore") \/ Next1("down") \/ Next1("leave form")
        \/ Next1("token")
    BY Zenon DEF GsaveStep, GrestoreStep, GrestoreDown, LeaveForm, Run_q, Run_Q, Token, Reads
  <2>2. \A w \in {"gsave", "grestore", "down", "leave form", "token"} :
          w \notin {"page", "annot", "open", "new", "close"}
    OBVIOUS
  <2> QED BY <2>1, <2>2
<1>2. GoodCalls(Past) /\ GoodCalls(calls) /\ Len(gs) \in 1..Len(gs)
  BY <1>1, At1
<1>3. Gsave \/ Grestore \/ (gs' = gs /\ refs' = refs)
  BY DEF GsaveStep, GrestoreStep, GrestoreDown, LeaveForm, Run_q, Run_Q
<1>4. calls' = Past \/ calls' = calls
  BY DEF GsaveStep, GrestoreStep, GrestoreDown, LeaveForm, Run_q, Run_Q
<1>5. Gains
  BY <1>2, <1>3, GsaveGains, GrestoreGains, Unmoved
<1> QED BY <1>2, <1>4, <1>5, GoodSofter, Gained

\* forms
LEMMA XobjectSoft ==
  ASSUME LInv, SInv, Len(gs) \in 1..Len(gs), NEW x, NEW cs, GoodCalls(cs), RunXobject(x, cs)
  PROVE  SInv'
<1>1. CASE x \in marked
  <2>1. calls' = cs /\ gs' = gs /\ refs' = refs
    BY <1>1 DEF RunXobject
  <2> QED BY <2>1, Unmoved, GoodSofter, Gained
<1>2. CASE x \notin marked
  <2>1. /\ Gsave
        /\ calls' = Append(cs, FrameBoth("form", FormSteps(x), FormEnd(x), Len(gs) + 1, x))
    BY <1>2 DEF RunXobject, FrameBoth
  <2>2. PICK t, o, k : t = FormSteps(x) /\ o = FormEnd(x) /\ k = Len(gs) + 1
    OBVIOUS
  <2>3. calls' = Append(cs, FrameBoth("form", t, o, k, x))
    BY <2>1, <2>2
  <2>4. Softer(calls', calls)
    BY <2>3, GoodCall
  <2> QED BY <2>1, <2>4, GsaveGains, Gained
<1> QED BY <1>1, <1>2

LEMMA FormSoft ==
  ASSUME LInv, SInv, NEW x, RunMask \/ Appearance \/ Run_Do(x)
  PROVE  SInv'
<1>1. PICK w, y, cs : /\ Next1(w) /\ w \notin {"page", "annot", "open", "new", "close"}
                      /\ cs \in {Past, calls} /\ RunXobject(y, cs)
  BY DEF RunMask, Appearance, Run_Do, Token, Reads
<1>2. GoodCalls(Past) /\ GoodCalls(calls) /\ Len(gs) \in 1..Len(gs)
  BY <1>1, At1
<1> QED BY <1>1, <1>2, XobjectSoft

LEMMA PatternSoft ==
  ASSUME LInv, SInv, ShowPattern
  PROVE  SInv'
<1> DEFINE n == Len(gs)
           x == [State EXCEPT !.soft = None]
           y == [State EXCEPT !.soft = None, !.fill = "colour"]
<1>1. /\ Next1("pattern") /\ gs' = Append(gs, y) /\ refs' = Kept(State.soft, 1)
      /\ \E s : calls' = Append(Past, FrameKeeping("pattern", s, <<Do("always")>>, n + 1))
  BY DEF ShowPattern, FrameKeeping, Calls
<1>2. /\ GoodCalls(Past) /\ n \in 1..n /\ n \in Nat /\ IsState(State, n)
  BY <1>1, At1 DEF SInv
<1>3. IsState(x, n) /\ x.soft = None
  BY <1>2, StateWith, ZenonT(60)
<1>4. IsState(y, n) /\ y.soft = None
  <2>1. PICK k : k = "colour"
    OBVIOUS
  <2>2. y = [x EXCEPT !.fill = k]
    BY <2>1
  <2> HIDE DEF x, y, n
  <2> QED BY <1>3, <2>2, StateWith
<1>5. IsState(y, n + 1)
  <2> HIDE DEF y, n
  <2>1. y.from \in Nat /\ (y.from <= n => y.from <= n + 1)
    BY <1>2, <1>4 DEF IsState
  <2> QED BY <1>4, <2>1 DEF IsState
<1>6. Gains
  <2> HIDE DEF y
  <2> QED BY <1>1, <1>2, <1>4, <1>5, PushesState
<1>7. Softer(calls', calls)
  <2>1. PICK s, o, k : calls' = Append(Past, FrameKeeping("pattern", s, o, k))
    BY <1>1
  <2> QED BY <1>2, <2>1, GoodCall
<1> QED BY <1>6, <1>7, Gained

\* pdf_new_csi and pdf_free_csi
LEMMA AfreshSoft ==
  ASSUME LInv, SInv, NewInterpreter \/ FreeInterpreter
  PROVE  SInv'
<1>1. PICK w : /\ Next1(w)
               /\ FreeInterpreter => w \notin {"page", "annot", "open", "new", "close"}
  <2>1. ASSUME NewInterpreter, ~FreeInterpreter
        PROVE  Next1("new")
    BY <2>1 DEF NewInterpreter
  <2>2. ASSUME FreeInterpreter
        PROVE  Next1("free")
    BY <2>2 DEF FreeInterpreter
  <2>3. "free" \notin {"page", "annot", "open", "new", "close"}
    OBVIOUS
  <2> QED BY <2>1, <2>2, <2>3
<1>2. GoodCalls(Past) /\ (FreeInterpreter => Len(gs) \in 1..Len(gs))
  BY <1>1, At1
<1>3. calls' = Past
  BY DEF NewInterpreter, FreeInterpreter
<1>4. ASSUME NewInterpreter
      PROVE  Gains
  BY <1>4, BeginsGains DEF NewInterpreter
<1>5. ASSUME FreeInterpreter
      PROVE  Gains
  BY <1>2, <1>5, DropsState DEF FreeInterpreter
<1> QED BY <1>2, <1>3, <1>4, <1>5, GoodSofter, Gained

\* a place gets another mask
LEMMA MaskMoves ==
  ASSUME NEW s, IsSeq(s), NEW t, IsSeq(t), Len(t) = Len(s), NEW n \in 1..Len(s),
         \A i \in 1..Len(s) : i # n => t[i] = s[i], NEW x
  PROVE  /\ HowMany(s, x) \in Nat /\ HowMany(t, x) \in Nat
         /\ HowMany(t, x) <= HowMany(s, x) + 1
         /\ x # t[n].soft => HowMany(t, x) <= HowMany(s, x)
         /\ x # t[n].soft /\ x = s[n].soft => HowMany(t, x) + 1 <= HowMany(s, x)
<1>1. Places(t, x) \subseteq Places(s, x) \cup {n}
  BY DEF Places
<1>2. x # t[n].soft => Places(t, x) \subseteq Places(s, x) \ {n}
  BY DEF Places
<1>3. x = s[n].soft => n \in Places(s, x)
  BY DEF Places
<1>4. /\ HowMany(s, x) \in Nat /\ HowMany(t, x) \in Nat
      /\ HowMany(t, x) <= HowMany(s, x) + 1
      /\ Places(t, x) \subseteq Places(s, x) => HowMany(t, x) <= HowMany(s, x)
      /\ n \in Places(s, x) /\ Places(t, x) \subseteq Places(s, x) \ {n}
           => HowMany(t, x) + 1 <= HowMany(s, x)
  BY <1>1, CountIs
<1> QED BY <1>2, <1>3, <1>4

LEMMA StateMasked ==
  ASSUME NEW s, NEW i, IsState(s, i), NEW m, m \in Forms \cup {None}
  PROVE  IsState([s EXCEPT !.soft = m], i) /\ [s EXCEPT !.soft = m].soft = m
BY StateWith

\* a mask goes from a state to a call, or back
LEMMA Exchanged ==
  ASSUME LInv, SInv, refs' = refs, GoodStates', NEW fs, IsSeq(fs), Softer(calls', fs),
         \A i \in 1..Len(fs) : fs[i].soft \in Forms \cup {None},
         \A m \in Forms : /\ HowMany(gs', m) \in Nat
                          /\ HowMany(gs', m) + HowMany(fs, m) <= HowMany(gs, m) + HowMany(calls, m)
  PROVE  SInv'
<1>1. GoodSofts'
  BY DEF GoodSofts, Softer
<1>2. ASSUME NEW m \in Forms
      PROVE  refs'[m] >= HowMany(gs', m) + HowMany(calls', m)
  <2>1. /\ HowMany(calls', m) <= HowMany(fs, m)
        /\ HowMany(calls', m) \in Nat /\ HowMany(fs, m) \in Nat
    BY SofterCounts
  <2>2. HowMany(gs, m) \in Nat /\ HowMany(calls, m) \in Nat
    BY Seqs
  <2>3. /\ HowMany(gs', m) \in Nat
        /\ HowMany(gs', m) + HowMany(fs, m) <= HowMany(gs, m) + HowMany(calls, m)
    OBVIOUS
  <2>4. refs[m] \in Int /\ refs'[m] = refs[m]
        /\ refs[m] >= HowMany(gs, m) + HowMany(calls, m)
    BY DEF SInv, Held
  <2> QED BY <2>1, <2>2, <2>3, <2>4
<1> QED BY <1>1, <1>2 DEF SInv, Held

\* the current state with the mask m, the innermost call with the mask k
LEMMA Exchange ==
  ASSUME LInv, SInv, Len(gs) \in 1..Len(gs), calls # << >>, IsState(State, Len(gs)),
         NEW m, NEW k, m \in Forms \cup {None} /\ k \in Forms \cup {None},
         (m = None /\ k = State.soft) \/ (k = None /\ m = Here.soft),
         refs' = refs, gs' = [gs EXCEPT ![Len(gs)].soft = m],
         NEW g, IsRec(g), g.soft = k, Softer(calls', Goes(g))
  PROVE  SInv'
<1> DEFINE n == Len(gs)
           L == Len(calls)
           x == [State EXCEPT !.soft = m]
           fs == Goes(g)
<1>1. IsSeq(gs) /\ IsSeq(calls) /\ L \in 1..L
  BY Seqs, ReadyLevel
<1>2. IsState(x, n) /\ x.soft = m
  BY StateMasked
<1>3. gs' = Replaced(gs, n, x)
  BY DEF Replaced, State
<1>4. /\ GoodStates' /\ IsSeq(gs') /\ gs'[n] = x /\ Len(gs') = n
      /\ \A i \in 1..n : i # n => gs'[i] = gs[i]
  <2>1. Len(gs') = n
    BY <1>2, <1>3, SetsField
  <2> QED BY <1>2, <1>3, <2>1, SetsField
<1>5. /\ IsSeq(fs) /\ Len(fs) = L /\ fs[L] = g
      /\ \A i \in 1..L : i # L => fs[i] = calls[i]
  <2>1. IsSeq(fs) /\ Len(fs) = L /\ fs[Len(fs)] = g
        /\ \A i \in 1..L : i # L => fs[i] = calls[i]
    BY GoesSeq
  <2> QED BY <2>1
<1> HIDE DEF fs, x
<1>6. \A i \in 1..Len(fs) : fs[i].soft \in Forms \cup {None}
  <2> TAKE i \in 1..Len(fs)
  <2>1. CASE i = L
    BY <1>5, <2>1
  <2>2. CASE i # L
    BY <1>5, <2>2 DEF SInv, GoodSofts
  <2> QED BY <2>1, <2>2
<1>7. ASSUME NEW y \in Forms
      PROVE  /\ HowMany(gs', y) \in Nat
             /\ HowMany(gs', y) + HowMany(fs, y) <= HowMany(gs, y) + HowMany(calls, y)
  <2>0. y # None
    BY FormsAssumption
  <2>1. /\ HowMany(gs, y) \in Nat /\ HowMany(gs', y) \in Nat
        /\ HowMany(gs', y) <= HowMany(gs, y) + 1
        /\ y # m => HowMany(gs', y) <= HowMany(gs, y)
        /\ y # m /\ y = State.soft => HowMany(gs', y) + 1 <= HowMany(gs, y)
    BY <1>1, <1>2, <1>4, MaskMoves DEF State
  <2>2. /\ HowMany(calls, y) \in Nat /\ HowMany(fs, y) \in Nat
        /\ HowMany(fs, y) <= HowMany(calls, y) + 1
        /\ y # k => HowMany(fs, y) <= HowMany(calls, y)
        /\ y # k /\ y = Here.soft => HowMany(fs, y) + 1 <= HowMany(calls, y)
    <3>1. calls[L] = Here
      BY DEF Here
    <3> HIDE DEF L
    <3>2. /\ HowMany(calls, y) \in Nat /\ HowMany(fs, y) \in Nat
          /\ HowMany(fs, y) <= HowMany(calls, y) + 1
          /\ y # fs[L].soft => HowMany(fs, y) <= HowMany(calls, y)
          /\ y # fs[L].soft /\ y = calls[L].soft => HowMany(fs, y) + 1 <= HowMany(calls, y)
      BY <1>1, <1>5, MaskMoves DEF L
    <3> QED BY <1>5, <3>1, <3>2
  <2>3. CASE m = None /\ k = State.soft
    BY <2>0, <2>1, <2>2, <2>3
  <2>4. CASE k = None /\ m = Here.soft
    BY <2>0, <2>1, <2>2, <2>4
  <2> QED BY <2>3, <2>4
<1> QED BY <1>4, <1>5, <1>6, <1>7, Exchanged DEF fs

LEMMA BeginSoftmaskSoft ==
  ASSUME LInv, SInv, BeginSoftmask
  PROVE  SInv'
<1> DEFINE m == State.soft
           g == Softly(Here, m)
<1>1. Next1("softmask") /\ refs' = refs
  BY DEF BeginSoftmask
<1>2. /\ calls # << >> /\ Here.todo # << >> /\ GoodCalls(Past)
      /\ Len(gs) \in 1..Len(gs) /\ IsState(State, Len(gs))
  BY <1>1, At1 DEF SInv
<1>3. CASE m = None
  <2>1. calls' = Past /\ gs' = gs
    BY <1>3 DEF BeginSoftmask
  <2> QED BY <1>1, <1>2, <2>1, Unmoved, GoodSofter, Gained
<1>4. CASE m # None
  <2>1. m \in Forms \cup {None}
    BY <1>2 DEF IsState
  <2>2. \E t, o : calls' = Append(Goes(g), FrameFor("mask", t, o, m))
    BY <1>4 DEF BeginSoftmask, Softly, FrameFor
  <2>3. gs' = [gs EXCEPT ![Len(gs)].soft = None]
    BY <1>4 DEF BeginSoftmask
  <2> HIDE DEF m
  <2>4. IsRec(g) /\ g.soft = m
    BY <1>2, SoftlyFields
  <2>5. IsSeq(Goes(g))
    BY <1>2, GoesSeq
  <2>6. PICK t, o : calls' = Append(Goes(g), FrameFor("mask", t, o, m))
    BY <2>2
  <2>7. PICK h : h = FrameFor("mask", t, o, m)
    OBVIOUS
  <2>8. h.soft = None
    BY <2>7, RecWith, NewFields
  <2> HIDE DEF g
  <2>9. Softer(calls', Goes(g))
    BY <2>5, <2>6, <2>7, <2>8, SofterSelf, SofterAppend
  <2>10. m = State.soft
    BY DEF m
  <2>11. PICK k : k = None
    OBVIOUS
  <2>12. k \in Forms \cup {None} /\ ((k = None /\ m = State.soft) \/ (m = None /\ k = Here.soft))
    BY <2>10, <2>11
  <2>13. gs' = [gs EXCEPT ![Len(gs)].soft = k]
    BY <2>3, <2>11
  <2> QED BY <1>1, <1>2, <2>1, <2>4, <2>9, <2>12, <2>13, Exchange
<1> QED BY <1>3, <1>4

LEMMA EndSoftmaskSoft ==
  ASSUME LInv, SInv, EndSoftmask
  PROVE  SInv'
<1> DEFINE m == Here.soft
           g == Softly(Here, None)
<1>1. Next1("unmask") /\ refs' = refs
  BY DEF EndSoftmask
<1>2. /\ calls # << >> /\ Here.todo # << >> /\ GoodCalls(Past)
      /\ Len(gs) \in 1..Len(gs) /\ IsState(State, Len(gs))
  BY <1>1, At1 DEF SInv
<1>3. CASE m = None
  <2>1. calls' = Past /\ gs' = gs
    BY <1>3 DEF EndSoftmask
  <2> QED BY <1>1, <1>2, <2>1, Unmoved, GoodSofter, Gained
<1>4. CASE m # None
  <2>1. m \in Forms \cup {None}
    <3>1. Len(calls) \in 1..Len(calls)
      BY <1>2, ReadyLevel
    <3> QED BY <3>1 DEF SInv, GoodSofts, Here
  <2>2. calls' = Goes(g) \/ calls' = Unwound(Goes(g), "bad")
    BY <1>4 DEF EndSoftmask, Softly, Throw
  <2>3. gs' = [gs EXCEPT ![Len(gs)].soft = m]
    BY <1>4 DEF EndSoftmask
  <2>4. IsRec(g) /\ g.soft = None
    BY <1>2, SoftlyFields
  <2>5. IsSeq(Goes(g)) /\ \A i \in 1..Len(Goes(g)) : IsRec(Goes(g)[i])
    <3> HIDE DEF g
    <3>1. /\ IsSeq(Goes(g)) /\ Len(Goes(g)) = Len(calls) /\ Goes(g)[Len(Goes(g))] = g
          /\ \A i \in 1..Len(calls) : i # Len(calls) => Goes(g)[i] = calls[i]
      BY <1>2, GoesSeq
    <3> QED BY <2>4, <3>1, Seqs
  <2> HIDE DEF m, g
  <2>6. Softer(calls', Goes(g))
    BY <2>2, <2>5, SofterSelf, SofterUnwound
  <2>7. m = Here.soft
    BY DEF m
  <2>8. PICK k : k = None
    OBVIOUS
  <2>9. /\ (m = None /\ k = State.soft) \/ (k = None /\ m = Here.soft)
        /\ k \in Forms \cup {None}
    BY <2>7, <2>8
  <2>10. g.soft = k
    BY <2>4, <2>8
  <2> QED BY <1>1, <1>2, <2>1, <2>3, <2>4, <2>6, <2>9, <2>10, Exchange
<1> QED BY <1>3, <1>4

\* /SMask
LEMMA SetSoftmaskSoft ==
  ASSUME LInv, SInv, NEW m \in Forms \cup {None}, SetSoftmask(m)
  PROVE  SInv'
<1> DEFINE n == Len(gs)
           x == [State EXCEPT !.soft = m]
<1>1. Next1("token") /\ m # State.soft /\ calls' = calls
  BY DEF SetSoftmask, Token, Reads
<1>2. /\ calls # << >> /\ GoodCalls(calls) /\ n \in 1..n /\ IsState(State, n) /\ IsSeq(gs)
  BY <1>1, At1, Seqs DEF SInv
<1>3. IsState(x, n) /\ x.soft = m
  BY <1>2, StateWith
<1>4. gs' = Replaced(gs, n, x)
  BY DEF SetSoftmask, Replaced, State
<1>5. /\ GoodStates' /\ IsSeq(gs') /\ gs'[n] = x /\ Len(gs') = n
      /\ \A i \in 1..n : i # n => gs'[i] = gs[i]
  <2>1. Len(gs') = n
    BY <1>2, <1>3, <1>4, SetsField
  <2> QED BY <1>2, <1>3, <1>4, <2>1, SetsField
<1> HIDE DEF x
<1>6. refs \in [Forms -> Int]
  BY DEF SInv, Held
<1>7. refs' = [y \in Forms |-> refs[y] - (IF y = State.soft THEN 1 ELSE 0)
                                      + (IF y = m THEN 1 ELSE 0)]
  BY DEF SetSoftmask
<1>8. refs' \in [Forms -> Int]
  BY <1>6, <1>7
<1>9. ASSUME NEW y \in Forms
      PROVE  refs'[y] - refs[y] >= HowMany(gs', y) - HowMany(gs, y)
  <2>1. /\ HowMany(gs, y) \in Nat /\ HowMany(gs', y) \in Nat
        /\ HowMany(gs', y) <= HowMany(gs, y) + 1
        /\ y # m => HowMany(gs', y) <= HowMany(gs, y)
        /\ y # m /\ y = State.soft => HowMany(gs', y) + 1 <= HowMany(gs, y)
    BY <1>2, <1>3, <1>5, MaskMoves DEF State
  <2>2. /\ refs[y] \in Int
        /\ refs'[y] = refs[y] - (IF y = State.soft THEN 1 ELSE 0) + (IF y = m THEN 1 ELSE 0)
    BY <1>6, <1>7
  <2>3. CASE y = m
    BY <1>1, <2>1, <2>2, <2>3
  <2>4. CASE y # m /\ y = State.soft
    BY <2>1, <2>2, <2>4
  <2>5. CASE y # m /\ y # State.soft
    BY <2>1, <2>2, <2>5
  <2> QED BY <2>3, <2>4, <2>5
<1>10. Gains
  BY <1>5, <1>8, <1>9 DEF Gains
<1> QED BY <1>1, <1>2, <1>10, GoodSofter, Gained

LEMMA SoftStep ==
  ASSUME LInv, SInv, [Next]_vars
  PROVE  SInv'
<1>1. ASSUME UNCHANGED vars
      PROVE  SInv'
  BY <1>1 DEF vars, SInv, GoodStates, GoodSofts, Held
<1>2. ASSUME Step
      PROVE  SInv'
  BY <1>2, QuietSoft, ReturnSoft, CallSoft, FieldSoft, SavedSoft, FormSoft, PatternSoft,
     AfreshSoft, BeginSoftmaskSoft, EndSoftmaskSoft, Zenon DEF Step
<1>3. ASSUME Operator
      PROVE  SInv'
  <2>1. CASE Run_q \/ Run_Q \/ Run_W \/ Run_ET \/ SetBlend \/ Later
    BY <2>1, SavedSoft, QuietSoft, FieldSoft, Zenon
  <2>2. CASE \E m \in Forms \cup {None} : SetSoftmask(m)
    BY <2>2, SetSoftmaskSoft
  <2>3. CASE \E kind \in {"colour", "shade", "pattern"} : SetFill(kind)
    BY <2>3, SetFillSoft, Zenon
  <2>4. CASE \E token \in {"n", "f", "sh", "Tj", "image mask"} : Run_Paint(token)
    BY <2>4, PaintSoft, Zenon
  <2>5. CASE \E x \in Forms : Run_Do(x)
    BY <2>5, FormSoft
  <2> QED BY <1>3, <2>1, <2>2, <2>3, <2>4, <2>5, Zenon DEF Operator
<1> QED BY <1>1, <1>2, <1>3 DEF Next

LEMMA SoftInit == Init => Parents /\ SInv
<1> SUFFICES ASSUME Init
             PROVE  Parents /\ SInv
  OBVIOUS
<1>1. gs = << >> /\ csi.gparent = 1 /\ refs = [m \in Forms |-> 0]
  BY SMT DEF Init, NewCsi
<1>2. PICK s, o : s = <<Do("page")>> \o [i \in 1..Annots |-> Do("annot")] /\ o = << >>
  OBVIOUS
<1>3. PICK h : h = Frame("page", s, o)
  OBVIOUS
<1>4. calls = <<h>>
  BY <1>2, <1>3 DEF Init
<1>5. h.soft = None
  BY <1>3, RecWith, NewFields
<1>6. Len(gs) = 0 /\ Len(calls) = 1 /\ calls[1] = h /\ Len(gs) \in Nat /\ Len(calls) \in Nat
  BY <1>1, <1>4
<1>7. \A i \in 1..Len(gs) : FALSE
  BY <1>6
<1>8. \A i \in 1..Len(calls) : calls[i].soft = None
  BY <1>5, <1>6
<1>9. refs \in [Forms -> Int] /\ \A m \in Forms : refs[m] = 0
  BY <1>1
<1>10. \A m \in Forms : HowMany(gs, m) = 0 /\ HowMany(calls, m) = 0
  <2> TAKE m \in Forms
  <2>1. m # None
    BY FormsAssumption
  <2>2. Places(gs, m) = {} /\ Places(calls, m) = {}
    BY <1>7, <1>8, <2>1 DEF Places
  <2> QED BY <2>2, FS_EmptySet DEF HowMany
<1>11. Held
  BY <1>9, <1>10 DEF Held
<1> QED BY <1>1, <1>7, <1>8, <1>11 DEF Parents, SInv, GoodStates, GoodSofts

\* The levels, gparent among them, and the masks, of every state that is reached.
THEOREM SoftKept == Spec => [](LInv /\ Parents /\ SInv)
<1>1. LInv /\ Parents /\ SInv /\ [Next]_vars => (LInv /\ Parents /\ SInv)'
  BY LevelsStep, ParentsStep, SoftStep
<1> QED BY <1>1, LevelsInit, SoftInit, PTL DEF Spec

\* When a call is done and has thrown nothing, the graphics state is the one its
\* caller had saved, and a pattern's is one of those below it, if nothing that is
\* missing passes a stream.
THEOREM StatesHold ==
  ASSUME Patient
  PROVE  Spec => []StatesKept
<1>1. LInv /\ Parents /\ SInv => StatesKept
  <2> SUFFICES ASSUME LInv, Parents, SInv
               PROVE  StatesKept
    OBVIOUS
  <2>1. ASSUME calls # << >>, Here.todo = << >>, Here.pend = "none"
        PROVE  Len(gs) = Here.base
    BY <2>1, ReadyLevel, DoneAt
  <2>2. \A i \in DOMAIN gs : gs[i].from <= i
    BY Seqs DEF SInv, GoodStates, IsState
  <2>3. csi.gparent <= Max({1, Len(gs)})
    <3> DEFINE n == Len(gs)
               T == {1, n}
    <3>1. n \in Nat /\ csi.gparent \in Nat /\ (csi.gparent <= 1 \/ csi.gparent <= n)
      BY Seqs DEF LInv, Levels, Parents
    <3> HIDE DEF n
    <3>2. \E m \in T : (\A y \in T : y <= m)
      BY <3>1
    <3>3. Max(T) \in T /\ \A y \in T : y <= Max(T)
      BY <3>1, <3>2, Zenon DEF Max
    <3> HIDE DEF T
    <3>4. Max(T) \in Int /\ 1 <= Max(T) /\ n <= Max(T)
      BY <3>1, <3>3 DEF T
    <3>5. csi.gparent <= Max(T)
      BY <3>1, <3>4
    <3> QED BY <3>5 DEF T, n
  <2> QED BY <2>1, <2>2, <2>3 DEF StatesKept
<1> QED BY <1>1, SoftKept, PTL

\* A soft mask that a state or a call still needs has been kept for it.
THEOREM MasksHold == Spec => []MasksHeld
<1>1. LInv /\ Parents /\ SInv => MasksHeld
  BY Seqs, SeqLen DEF SInv, Held, HowMany, Places, MasksHeld
<1> QED BY <1>1, SoftKept, PTL

-----------------------------------------------------------------------------
(* Sums, and what goes up step by step                                     *)

\* R is the sums of the first of ns
Sums(ns, n, R) ==
  /\ R[0] = 0
  /\ \A k \in 1..n : R[k] \in Int /\ ns[k] \in Int /\ R[k] = R[k - 1] + ns[k]
LEMMA TotalIs ==
  ASSUME NEW ns, NEW n \in Nat, NEW R, Sums(ns, n, R)
  PROVE  Total(n, ns) = R[n]
<1> USE DEF Sums
<1> DEFINE Sum(f) == f = [k \in 0..n |-> IF k = 0 THEN 0 ELSE f[k - 1] + ns[k]]
           r == [k \in 0..n |-> R[k]]
           s == CHOOSE f : Sum(f)
<1>1. Total(n, ns) = s[n]
  BY DEF Total
<1>2. Sum(r)
  <2>1. \A k \in 0..n : r[k] = IF k = 0 THEN 0 ELSE r[k - 1] + ns[k]
    <3> TAKE k \in 0..n
    <3>1. CASE k = 0
      BY <3>1
    <3>2. CASE k # 0
      <4>1. k \in 1..n /\ k - 1 \in 0..n
        BY <3>2
      <4> QED BY <3>2, <4>1
    <3> QED BY <3>1, <3>2
  <2>2. r = [k \in 0..n |-> r[k]]
    OBVIOUS
  <2> HIDE DEF r
  <2> QED BY <2>1, <2>2
<1>3. Sum(s)
  <2> HIDE DEF Sum, r
  <2> QED BY <1>2
<1>4. \A k \in 0..n : s[k] = R[k]
  <2> DEFINE Bad == {k \in 0..n : s[k] # R[k]}
  <2> SUFFICES ASSUME Bad # {} PROVE FALSE
    OBVIOUS
  <2>1. Bad \in SUBSET Nat
    OBVIOUS
  <2>2. PICK k \in Bad : \A y \in Bad : ~ (<<y, k>> \in OpToRel(<, Nat))
    BY <2>1, NatLessThanWellFounded, WFMin
  <2>3. \A y \in Bad : ~ (y < k)
    BY <2>1, <2>2, Zenon DEF OpToRel
  <2>4. k \in 0..n /\ s[k] # R[k]
    BY <2>2
  <2>5. s[k] = IF k = 0 THEN 0 ELSE s[k - 1] + ns[k]
    BY <1>3, <2>4
  <2> HIDE DEF s
  <2>6. k # 0
    BY <2>4, <2>5
  <2>7. k - 1 \in 0..n /\ k \in 1..n
    BY <2>4, <2>6
  <2>8. s[k - 1] = R[k - 1]
    BY <2>3, <2>4, <2>7
  <2> QED BY <2>4, <2>5, <2>6, <2>7, <2>8
<1> QED BY <1>1, <1>4

\* what never goes down from one place to the next
LEMMA Rises ==
  ASSUME NEW n \in Nat, NEW R, \A i \in 1..n : R[i] \in Int,
         \A i \in 1..n : i + 1 \in 1..n => R[i] <= R[i + 1]
  PROVE  \A i, j \in 1..n : i <= j => R[i] <= R[j]
<1> SUFFICES ASSUME NEW i \in 1..n
             PROVE  \A j \in 1..n : i <= j => R[i] <= R[j]
  OBVIOUS
<1> DEFINE Bad == {j \in 1..n : i <= j /\ ~(R[i] <= R[j])}
<1> SUFFICES ASSUME Bad # {} PROVE FALSE
  OBVIOUS
<1>1. Bad \in SUBSET Nat
  OBVIOUS
<1>2. PICK k \in Bad : \A y \in Bad : ~ (<<y, k>> \in OpToRel(<, Nat))
  BY <1>1, NatLessThanWellFounded, WFMin
<1>3. \A y \in Bad : ~ (y < k)
  BY <1>1, <1>2, Zenon DEF OpToRel
<1>4. k \in 1..n /\ i <= k /\ ~(R[i] <= R[k])
  BY <1>2
<1>5. i # k
  BY <1>4
<1>6. k - 1 \in 1..n /\ i <= k - 1 /\ k - 1 < k /\ (k - 1) + 1 = k
  BY <1>4, <1>5
<1>7. R[i] <= R[k - 1]
  BY <1>3, <1>6
<1>8. R[k - 1] <= R[k]
  BY <1>4, <1>6
<1> QED BY <1>4, <1>6, <1>7, <1>8

-----------------------------------------------------------------------------
(* What the steps of a call open and close                                 *)

Kinds == {"clip", "group", "tile", "mask"}
IsPaint(fn) == fn \notin Outer \cup Named
\* of the soft mask m, once it is a clip
SoftOf(m) == IF m = None THEN << >> ELSE <<"clip">>
Clips == {<< >>, <<"clip">>}

\* A step of a call takes the brackets that the call has open from k to k2, if m
\* is the soft mask it has taken and b its blend mode.
Turns(fn, m, b, step, k, k2) ==
  /\ step[1] = "open" => k2 = Append(k, step[2])
  /\ step[1] = "close" => k = Append(k2, step[2])
  /\ step[1] = "unmask" => k = k2 \o SoftOf(m)
  /\ step[1] = "end blend" => IsPaint(fn) /\ k = (IF b THEN Append(k2, "group") ELSE k2)
  /\ step[1] = "end mask" => k = <<"mask">> /\ k2 = <<"clip">>
  /\ step[1] \notin {"open", "close", "unmask", "end blend", "end mask"} => k2 = k
  /\ step[1] = "softmask" => k = << >>
  /\ step[1] = "clip" /\ IsPaint(fn) => k \in Clips
  /\ step[1] = "clip text" /\ IsPaint(fn) => b \/ k \in Clips
Chain(fn, m, b, t, k, k2, K) ==
  /\ K[1] = k /\ K[Len(t) + 1] = k2
  /\ \A j \in 1..Len(t) + 1 : K[j] \in Seq(Kinds)
  /\ \A j \in 1..Len(t) : Turns(fn, m, b, t[j], K[j], K[j + 1])
  /\ \A j \in 1..Len(t) : t[j][1] = "unmask" => j = Len(t)
Leads(fn, m, b, t, k, k2) == \E K : Chain(fn, m, b, t, k, k2, K)

LEMMA LeadsNone ==
  ASSUME NEW fn, NEW m, NEW b, NEW k
  PROVE  /\ k \in Seq(Kinds) => Leads(fn, m, b, << >>, k, k)
         /\ \A k2 : Leads(fn, m, b, << >>, k, k2) => k2 = k /\ k \in Seq(Kinds)
<1>1. Len(<< >>) = 0
  OBVIOUS
<1>2. ASSUME k \in Seq(Kinds)
      PROVE  Leads(fn, m, b, << >>, k, k)
  <2> DEFINE K == [j \in {1} |-> k]
  <2>1. K[1] = k
    OBVIOUS
  <2> HIDE DEF K
  <2>2. Chain(fn, m, b, << >>, k, k, K)
    BY <1>2, <2>1 DEF Chain
  <2> QED BY <2>2 DEF Leads
<1>3. ASSUME NEW k2, Leads(fn, m, b, << >>, k, k2)
      PROVE  k2 = k /\ k \in Seq(Kinds)
  BY <1>3 DEF Leads, Chain
<1> QED BY <1>2, <1>3

LEMMA LeadsEnd ==
  ASSUME NEW fn, NEW m, NEW b, NEW t, t = << >>, NEW k, NEW k2, Leads(fn, m, b, t, k, k2)
  PROVE  k2 = k /\ k \in Seq(Kinds)
<1>1. Len(t) = 0
  OBVIOUS
<1> QED BY <1>1 DEF Leads, Chain

\* the first step of a call
LEMMA LeadsFirst ==
  ASSUME NEW fn, NEW m, NEW b, NEW t, IsSeq(t), t # << >>, NEW k, NEW k2,
         Leads(fn, m, b, t, k, k2)
  PROVE  /\ \E k1 \in Seq(Kinds) : /\ Turns(fn, m, b, t[1], k, k1)
                                   /\ Leads(fn, m, b, Tail(t), k1, k2)
         /\ k \in Seq(Kinds) /\ k2 \in Seq(Kinds)
         /\ t[1][1] = "unmask" => Tail(t) = << >>
<1>1. PICK K : Chain(fn, m, b, t, k, k2, K)
  BY DEF Leads
<1> DEFINE n == Len(t)
           r == Tail(t)
<1>2. n \in Nat /\ n # 0
  BY SeqLen
<1>3. /\ Len(r) = n - 1 /\ \A j \in 1..n - 1 : r[j] = t[j + 1]
  BY <1>2 DEF IsSeq
<1>14. n = 1 => r = << >>
  <2>1. PICK S : t \in Seq(S)
    BY DEF IsSeq
  <2>3. r \in Seq(S)
    BY <2>1, HeadTail
  <2> HIDE DEF r
  <2>2. IsSeq(r)
    BY <2>3 DEF IsSeq
  <2> QED BY <1>3, <2>2, SeqLen
<1>4. /\ K[1] = k /\ K[n + 1] = k2
      /\ \A j \in 1..n + 1 : K[j] \in Seq(Kinds)
      /\ \A j \in 1..n : Turns(fn, m, b, t[j], K[j], K[j + 1])
      /\ \A j \in 1..n : t[j][1] = "unmask" => j = n
  BY <1>1 DEF Chain
<1> HIDE DEF n, r
<1> DEFINE K1 == [j \in 1..n |-> K[j + 1]]
<1>5. K1[1] = K[2] /\ K1[(n - 1) + 1] = K[n + 1] /\ \A j \in 1..n : K1[j] = K[j + 1]
  BY <1>2
<1> HIDE DEF K1
<1>6. \A j \in 1..n - 1 : j \in 1..n /\ j + 1 \in 1..n
  BY <1>2
<1>7. \A j \in 1..(n - 1) + 1 : j \in 1..n /\ j + 1 \in 1..n + 1
  BY <1>2
<1>8. Chain(fn, m, b, r, K[2], k2, K1)
  <2>1. \A j \in 1..Len(r) + 1 : K1[j] \in Seq(Kinds)
    BY <1>3, <1>4, <1>5, <1>7
  <2>2. \A j \in 1..Len(r) : Turns(fn, m, b, r[j], K1[j], K1[j + 1])
    BY <1>3, <1>4, <1>5, <1>6
  <2>3. \A j \in 1..Len(r) : r[j][1] = "unmask" => j = Len(r)
    <3> TAKE j \in 1..Len(r)
    <3>1. j + 1 \in 1..n /\ r[j] = t[j + 1] /\ j \in Int
      BY <1>2, <1>3, <1>6
    <3>2. t[j + 1][1] = "unmask" => j + 1 = n
      BY <1>4, <3>1
    <3> QED BY <1>2, <1>3, <3>1, <3>2
  <2> QED BY <1>3, <1>4, <1>5, <2>1, <2>2, <2>3 DEF Chain
<1>9. 1 \in 1..n /\ 1 \in 1..n + 1 /\ 2 \in 1..n + 1 /\ n + 1 \in 1..n + 1 /\ 1 + 1 = 2
  BY <1>2
<1>10. Turns(fn, m, b, t[1], k, K[2]) /\ K[2] \in Seq(Kinds)
  <2>1. Turns(fn, m, b, t[1], K[1], K[1 + 1])
    BY <1>4, <1>9
  <2> QED BY <1>4, <1>9, <2>1
<1>11. Leads(fn, m, b, r, K[2], k2)
  BY <1>8 DEF Leads
<1>12. t[1][1] = "unmask" => r = << >>
  BY <1>4, <1>9, <1>14
<1>13. k \in Seq(Kinds) /\ k2 \in Seq(Kinds)
  BY <1>4, <1>9
<1> QED BY <1>10, <1>11, <1>12, <1>13 DEF r

\* one after the other
LEMMA LeadsBoth ==
  ASSUME NEW fn, NEW m, NEW b, NEW s, IsSeq(s), NEW t, IsSeq(t), NEW k, NEW k1, NEW k2,
         Leads(fn, m, b, s, k, k1), Leads(fn, m, b, t, k1, k2),
         \A j \in 1..Len(s) : s[j][1] # "unmask"
  PROVE  Leads(fn, m, b, s \o t, k, k2)
<1>1. PICK K : Chain(fn, m, b, s, k, k1, K)
  BY DEF Leads
<1>2. PICK L : Chain(fn, m, b, t, k1, k2, L)
  BY DEF Leads
<1> DEFINE p == Len(s)
           q == Len(t)
           r == s \o t
<1>3. p \in Nat /\ q \in Nat
  BY SeqLen
<1>4. PICK S : s \in Seq(S)
  BY DEF IsSeq
<1>5. PICK T : t \in Seq(T)
  BY DEF IsSeq
<1>6. /\ Len(r) = p + q /\ \A j \in 1..p : r[j] = s[j]
      /\ \A j \in 1..q : r[p + j] = t[j]
  <2>1. s \in Seq(S \cup T) /\ t \in Seq(S \cup T)
    BY <1>4, <1>5, Widens
  <2> QED BY <2>1
<1>7. /\ K[1] = k /\ K[p + 1] = k1
      /\ \A j \in 1..p + 1 : K[j] \in Seq(Kinds)
      /\ \A j \in 1..p : Turns(fn, m, b, s[j], K[j], K[j + 1])
  BY <1>1 DEF Chain
<1>8. /\ L[1] = k1 /\ L[q + 1] = k2
      /\ \A j \in 1..q + 1 : L[j] \in Seq(Kinds)
      /\ \A j \in 1..q : Turns(fn, m, b, t[j], L[j], L[j + 1])
      /\ \A j \in 1..q : t[j][1] = "unmask" => j = q
  BY <1>2 DEF Chain
<1>9. \A j \in 1..p : s[j][1] # "unmask"
  OBVIOUS
<1> HIDE DEF p, q, r
<1> DEFINE M == [j \in 1..p + q + 1 |-> IF j <= p THEN K[j] ELSE L[j - p]]
<1>10. /\ \A j \in 1..p + 1 : M[j] = K[j]
       /\ \A j \in 1..q + 1 : M[p + j] = L[j]
  <2>1. \A j \in 1..p + 1 : j \in 1..p + q + 1 /\ (j <= p \/ j = p + 1) /\ (p + 1) - p = 1
                            /\ ~(p + 1 <= p) /\ p + 1 \in 1..p + q + 1
    BY <1>3
  <2>2. \A j \in 1..q + 1 : p + j \in 1..p + q + 1 /\ ~(p + j <= p) /\ (p + j) - p = j
    BY <1>3
  <2>3. \A j \in 1..p : M[j] = K[j]
    BY <1>3, <2>1
  <2>4. M[p + 1] = K[p + 1]
    BY <1>3, <1>7, <1>8, <2>1
  <2>5. \A j \in 1..p + 1 : j \in 1..p \/ j = p + 1
    BY <1>3
  <2>6. \A j \in 1..p + 1 : M[j] = K[j]
    BY <2>3, <2>4, <2>5
  <2>7. \A j \in 1..q + 1 : M[p + j] = L[j]
    BY <2>2
  <2> QED BY <2>6, <2>7
<1> HIDE DEF M
<1>11. \A j \in 1..p + q : j \in 1..p \/ \E i \in 1..q : j = p + i
  <2> TAKE j \in 1..p + q
  <2>1. j <= p \/ (j - p \in 1..q /\ j = p + (j - p))
    BY <1>3
  <2> QED BY <1>3, <2>1
<1>12. \A j \in 1..p + q + 1 : j \in 1..p + 1 \/ \E i \in 1..q + 1 : j = p + i
  <2> TAKE j \in 1..p + q + 1
  <2>1. j <= p \/ (j - p \in 1..q + 1 /\ j = p + (j - p))
    BY <1>3
  <2> QED BY <1>3, <2>1
<1>13. \A j \in 1..p + q + 1 : M[j] \in Seq(Kinds)
  BY <1>7, <1>8, <1>10, <1>12
<1>14. \A j \in 1..p + q : Turns(fn, m, b, r[j], M[j], M[j + 1])
  <2> TAKE j \in 1..p + q
  <2>1. CASE j \in 1..p
    <3>1. j \in 1..p + 1 /\ j + 1 \in 1..p + 1
      BY <1>3, <2>1
    <3> QED BY <1>6, <1>7, <1>10, <2>1, <3>1
  <2>2. ASSUME NEW i \in 1..q, j = p + i
        PROVE  Turns(fn, m, b, r[j], M[j], M[j + 1])
    <3>1. i \in 1..q + 1 /\ i + 1 \in 1..q + 1 /\ (p + i) + 1 = p + (i + 1)
      BY <1>3, <2>2
    <3> QED BY <1>6, <1>8, <1>10, <2>2, <3>1
  <2> QED BY <1>11, <2>1, <2>2
<1>15. \A j \in 1..p + q : r[j][1] = "unmask" => j = p + q
  <2> TAKE j \in 1..p + q
  <2>1. CASE j \in 1..p
    BY <1>6, <1>9, <2>1
  <2>2. ASSUME NEW i \in 1..q, j = p + i
        PROVE  r[j][1] = "unmask" => j = p + q
    BY <1>6, <1>8, <2>2
  <2> QED BY <1>11, <2>1, <2>2
<1>16. M[1] = k /\ M[p + q + 1] = k2
  <2>1. 1 \in 1..p + 1 /\ q + 1 \in 1..q + 1 /\ p + (q + 1) = p + q + 1
    BY <1>3
  <2> QED BY <1>7, <1>8, <1>10, <2>1
<1>17. Chain(fn, m, b, r, k, k2, M)
  BY <1>6, <1>13, <1>14, <1>15, <1>16 DEF Chain
<1> QED BY <1>17 DEF Leads, r

LEMMA LeadsOne ==
  ASSUME NEW fn, NEW m, NEW b, NEW x, NEW k \in Seq(Kinds), NEW k2 \in Seq(Kinds),
         Turns(fn, m, b, x, k, k2)
  PROVE  Leads(fn, m, b, <<x>>, k, k2)
<1> DEFINE K == [j \in 1..2 |-> IF j = 1 THEN k ELSE k2]
<1>1. K[1] = k /\ K[2] = k2
  OBVIOUS
<1> HIDE DEF K
<1>2. Len(<<x>>) = 1 /\ <<x>>[1] = x
  OBVIOUS
<1>3. \A j \in 1..1 + 1 : j = 1 \/ j = 2
  OBVIOUS
<1>4. \A j \in 1..1 : j = 1
  OBVIOUS
<1>5. \A j \in 1..1 : Turns(fn, m, b, <<x>>[j], K[j], K[j + 1])
  BY <1>1, <1>2, <1>4
<1>6. Chain(fn, m, b, <<x>>, k, k2, K)
  BY <1>1, <1>2, <1>3, <1>4, <1>5 DEF Chain
<1> QED BY <1>6 DEF Leads

LEMMA LeadsThen ==
  ASSUME NEW fn, NEW m, NEW b, NEW x, NEW t, IsSeq(t), NEW k \in Seq(Kinds),
         NEW k1 \in Seq(Kinds), NEW k2,
         Turns(fn, m, b, x, k, k1), Leads(fn, m, b, t, k1, k2),
         x[1] # "unmask"
  PROVE  Leads(fn, m, b, <<x>> \o t, k, k2)
<1>1. Leads(fn, m, b, <<x>>, k, k1)
  BY LeadsOne
<1>2. IsSeq(<<x>>)
  <2>1. <<x>> \in Seq({x})
    OBVIOUS
  <2> QED BY <2>1 DEF IsSeq
<1>3. \A j \in 1..Len(<<x>>) : <<x>>[j][1] # "unmask"
  OBVIOUS
<1> QED BY <1>1, <1>2, <1>3, LeadsBoth

\* steps that open and close nothing
Quiet(fn, step) ==
  /\ step[1] \notin {"open", "close", "unmask", "end blend", "end mask", "softmask", "clip text"}
  /\ step[1] = "clip" => ~IsPaint(fn)
LEMMA LeadsQuiet ==
  ASSUME NEW fn, NEW m, NEW b, NEW t, IsSeq(t), \A j \in 1..Len(t) : Quiet(fn, t[j]),
         NEW k \in Seq(Kinds)
  PROVE  Leads(fn, m, b, t, k, k)
<1>1. Len(t) \in Nat
  BY SeqLen
<1> DEFINE K == [j \in 1..Len(t) + 1 |-> k]
<1>2. \A j \in 1..Len(t) + 1 : K[j] = k
  OBVIOUS
<1> HIDE DEF K
<1>3. 1 \in 1..Len(t) + 1 /\ Len(t) + 1 \in 1..Len(t) + 1
      /\ \A j \in 1..Len(t) : j \in 1..Len(t) + 1 /\ j + 1 \in 1..Len(t) + 1
  BY <1>1
<1>4. \A j \in 1..Len(t) : Turns(fn, m, b, t[j], k, k)
  BY Zenon DEF Turns, Quiet
<1>5. \A j \in 1..Len(t) : t[j][1] # "unmask"
  BY DEF Quiet
<1>6. Chain(fn, m, b, t, k, k, K)
  BY <1>2, <1>3, <1>4, <1>5 DEF Chain
<1> QED BY <1>6 DEF Leads

\* what a call owes the device is what it has open more than at its end
LEMMA NetIs ==
  ASSUME NEW f, NEW x, NEW k \in Seq(Kinds), NEW k2 \in Seq(Kinds),
         NEW b, IsPaint(f.fn) => b = gs[f.base].blend, Turns(f.fn, f.soft, b, x, k, k2)
  PROVE  Net(f, x) = Len(k) - Len(k2)
<1>1. Len(k) \in Nat /\ Len(k2) \in Nat
  OBVIOUS
<1>2. \A s, y : s \in Seq(Kinds) /\ Append(s, y) \in Seq(Kinds) => Len(Append(s, y)) = Len(s) + 1
  OBVIOUS
<1>3. CASE x[1] = "close"
  BY <1>1, <1>2, <1>3 DEF Turns, Net
<1>4. CASE x[1] = "open"
  <2>1. Len(k2) = Len(k) + 1
    BY <1>2, <1>4 DEF Turns
  <2>2. Net(f, x) = -1
    BY <1>4 DEF Net
  <2> QED BY <1>1, <2>1, <2>2
<1>5. CASE x[1] = "unmask"
  <2>1. k = k2 \o SoftOf(f.soft)
    BY <1>5 DEF Turns
  <2>2. Net(f, x) = IF f.soft = None THEN 0 ELSE 1
    BY <1>5 DEF Net
  <2>3. CASE f.soft = None
    <3>1. k = k2
      BY <2>1, <2>3 DEF SoftOf
    <3> QED BY <1>1, <2>2, <2>3, <3>1
  <2>4. CASE f.soft # None
    <3>1. k = k2 \o <<"clip">>
      BY <2>1, <2>4 DEF SoftOf
    <3>2. Len(k) = Len(k2) + 1
      BY <3>1
    <3> QED BY <1>1, <2>2, <2>4, <3>2
  <2> QED BY <2>3, <2>4
<1>6. CASE x[1] = "end blend"
  <2>1. b = gs[f.base].blend /\ k = (IF b THEN Append(k2, "group") ELSE k2)
    BY <1>6 DEF Turns
  <2>2. Net(f, x) = IF b THEN 1 ELSE 0
    BY <1>6, <2>1 DEF Net
  <2>3. CASE b
    BY <1>1, <1>2, <2>1, <2>2, <2>3
  <2>4. CASE ~b
    BY <1>1, <2>1, <2>2, <2>4
  <2> QED BY <2>3, <2>4
<1>7. CASE x[1] \notin {"open", "close", "unmask", "end blend"}
  <2>1. Net(f, x) = 0
    BY <1>7 DEF Net
  <2>2. k2 = k \/ (k = <<"mask">> /\ k2 = <<"clip">>)
    BY <1>7 DEF Turns
  <2>3. Len(k2) = Len(k)
    BY <2>2
  <2> QED BY <1>1, <2>1, <2>3
<1> QED BY <1>3, <1>4, <1>5, <1>6, <1>7

LEMMA ClosesIs ==
  ASSUME NEW f, IsSeq(f.todo), NEW k, NEW k2, NEW b,
         IsPaint(f.fn) => b = gs[f.base].blend, Leads(f.fn, f.soft, b, f.todo, k, k2)
  PROVE  Closes(f) = Len(k) - Len(k2) /\ k \in Seq(Kinds) /\ k2 \in Seq(Kinds)
<1> DEFINE t == f.todo
           n == Len(t)
           ns == [j \in 1..n |-> Net(f, t[j])]
<1>1. PICK K : Chain(f.fn, f.soft, b, t, k, k2, K)
  BY DEF Leads
<1>2. n \in Nat
  BY SeqLen
<1>3. /\ K[1] = k /\ K[n + 1] = k2
      /\ \A j \in 1..n + 1 : K[j] \in Seq(Kinds)
      /\ \A j \in 1..n : Turns(f.fn, f.soft, b, t[j], K[j], K[j + 1])
  BY <1>1 DEF Chain
<1>4. \A j \in 1..n : j \in 1..n + 1 /\ j + 1 \in 1..n + 1
  BY <1>2
<1>5. \A j \in 1..n : Net(f, t[j]) = Len(K[j]) - Len(K[j + 1])
  BY <1>3, <1>4, NetIs
<1>6. \A j \in 1..n : ns[j] = Len(K[j]) - Len(K[j + 1])
  BY <1>5
<1>7. Closes(f) = Total(n, ns)
  BY DEF Closes
<1> HIDE DEF n, ns
<1>8. \A j \in 1..n + 1 : Len(K[j]) \in Nat
  BY <1>3
<1> DEFINE R == [j \in 0..n |-> Len(K[1]) - Len(K[j + 1])]
<1>9. /\ R[0] = 0
      /\ \A j \in 1..n : R[j] \in Int /\ ns[j] \in Int /\ R[j] = R[j - 1] + ns[j]
      /\ R[n] = Len(k) - Len(k2)
  <2>1. 0 \in 0..n /\ n \in 0..n /\ 0 + 1 = 1 /\ 1 \in 1..n + 1
    BY <1>2
  <2>2. R[0] = 0
    BY <1>8, <2>1
  <2>3. R[n] = Len(k) - Len(k2)
    BY <1>3, <2>1
  <2>4. ASSUME NEW j \in 1..n
        PROVE  R[j] \in Int /\ ns[j] \in Int /\ R[j] = R[j - 1] + ns[j]
    <3>1. j \in 0..n /\ j - 1 \in 0..n /\ (j - 1) + 1 = j /\ j \in 1..n + 1 /\ j + 1 \in 1..n + 1
      BY <1>2
    <3>2. R[j] = Len(K[1]) - Len(K[j + 1]) /\ R[j - 1] = Len(K[1]) - Len(K[j])
      BY <3>1
    <3>3. Len(K[1]) \in Nat /\ Len(K[j]) \in Nat /\ Len(K[j + 1]) \in Nat
      BY <1>8, <2>1, <3>1
    <3>4. PICK c1, c2, c3 : c1 = Len(K[1]) /\ c2 = Len(K[j]) /\ c3 = Len(K[j + 1])
      OBVIOUS
    <3>5. /\ R[j] = c1 - c3 /\ R[j - 1] = c1 - c2 /\ ns[j] = c2 - c3
          /\ c1 \in Nat /\ c2 \in Nat /\ c3 \in Nat
      BY <1>6, <3>2, <3>3, <3>4, Zenon
    <3> HIDE DEF R
    <3> QED BY <3>5
  <2> HIDE DEF R
  <2> QED BY <2>2, <2>3, <2>4
<1> HIDE DEF R
<1>10. Total(n, ns) = R[n]
  BY <1>2, <1>9, TotalIs DEF Sums
<1>11. 1 \in 1..n + 1 /\ n + 1 \in 1..n + 1
  BY <1>2
<1> QED BY <1>3, <1>7, <1>9, <1>10, <1>11

-----------------------------------------------------------------------------
(* Where the brackets are                                                  *)

IsDev(d) ==
  /\ d = [open |-> d.open, err |-> d.err, wrong |-> FALSE]
  /\ d.open \in Seq(Kinds) /\ d.err \in Nat
\* from x + 1 on there are the brackets v, and clips after them up to y, as far as
\* they could be opened
Shows(d, x, y, v) ==
  \A p \in x + 1..y : p <= Len(d.open) =>
    d.open[p] = IF p <= x + Len(v) THEN v[p - x] ELSE "clip"
\* Of n calls, the i-th was made with D[i] clips in the current state, and X[i]
\* brackets on the device; it has itself own[i] open.  D[n + 1] and X[n + 1] are of now.
Laid(n, D, own, X, d) ==
  /\ IsDev(d)
  /\ X[1] = D[1]
  /\ \A i \in 1..n + 1 : X[i] \in Nat /\ D[i] \in Nat
  /\ \A i \in 1..n : /\ own[i] \in Seq(Kinds) /\ D[i] <= D[i + 1]
                     /\ X[i + 1] = X[i] + Len(own[i]) + (D[i + 1] - D[i])
  /\ Len(d.open) + d.err = X[n + 1]
  /\ \A i \in 1..n : Shows(d, X[i], X[i + 1], own[i])

\* The innermost call has the brackets v, where it had others.
LEMMA LaidTop ==
  ASSUME NEW n \in Nat, n >= 1, NEW D, NEW own, NEW X, NEW d, Laid(n, D, own, X, d),
         NEW d2, IsDev(d2), NEW v \in Seq(Kinds), NEW c \in Nat, D[n] <= c,
         Len(d2.open) + d2.err = X[n] + Len(v) + (c - D[n]),
         \A p \in 1..X[n] : p <= Len(d2.open) => p <= Len(d.open) /\ d2.open[p] = d.open[p],
         Shows(d2, X[n], X[n] + Len(v) + (c - D[n]), v),
         NEW own2, own2[n] = v, \A i \in 1..n : i # n => own2[i] = own[i],
         NEW D2, D2[n + 1] = c, \A i \in 1..n : D2[i] = D[i]
  PROVE  \E X2 : Laid(n, D2, own2, X2, d2)
<1> DEFINE y == X[n] + Len(v) + (c - D[n])
           X2 == [i \in 1..n + 1 |-> IF i = n + 1 THEN y ELSE X[i]]
<1>1. /\ X[1] = D[1]
      /\ \A i \in 1..n + 1 : X[i] \in Nat /\ D[i] \in Nat
      /\ \A i \in 1..n : /\ own[i] \in Seq(Kinds) /\ D[i] <= D[i + 1]
                         /\ X[i + 1] = X[i] + Len(own[i]) + (D[i + 1] - D[i])
      /\ \A i \in 1..n : Shows(d, X[i], X[i + 1], own[i])
  BY DEF Laid
<1>2. /\ n \in 1..n /\ n \in 1..n + 1 /\ n + 1 \in 1..n + 1 /\ 1 \in 1..n
      /\ \A i \in 1..n : i \in 1..n + 1 /\ i # n + 1 /\ i + 1 \in 1..n + 1
      /\ \A i \in 1..n : i # n => i + 1 \in 1..n /\ i + 1 # n + 1
      /\ \A i \in 1..n + 1 : i \in 1..n \/ i = n + 1
  OBVIOUS
<1>3. y \in Nat
  <2>1. Len(v) \in Nat /\ X[n] \in Nat /\ D[n] \in Nat /\ c \in Nat
    BY <1>1, <1>2
  <2> QED BY <2>1
<1>4. X2[n + 1] = y /\ \A i \in 1..n : X2[i] = X[i]
  BY <1>2
<1> HIDE DEF X2
<1>5. \A i \in 1..n : i # n => X[i + 1] <= X[n]
  <2>1. \A i \in 1..n : X[i] \in Int
    BY <1>1, <1>2
  <2>2. \A i \in 1..n : i + 1 \in 1..n => X[i] <= X[i + 1]
    <3> TAKE i \in 1..n
    <3>1. X[i + 1] = X[i] + Len(own[i]) + (D[i + 1] - D[i]) /\ D[i] <= D[i + 1]
          /\ own[i] \in Seq(Kinds) /\ X[i] \in Nat /\ D[i] \in Nat /\ D[i + 1] \in Nat
      BY <1>1, <1>2
    <3>2. Len(own[i]) \in Nat
      BY <3>1
    <3> QED BY <3>1, <3>2
  <2>3. \A i, j \in 1..n : i <= j => X[i] <= X[j]
    BY <2>1, <2>2, Rises
  <2>4. \A i \in 1..n : i # n => i + 1 \in 1..n /\ i + 1 <= n
    OBVIOUS
  <2> QED BY <1>2, <2>3, <2>4
<1>6. \A i \in 1..n : i # n => Shows(d2, X[i], X[i + 1], own[i])
  <2> SUFFICES ASSUME NEW i \in 1..n, i # n, NEW p \in X[i] + 1..X[i + 1], p <= Len(d2.open)
               PROVE  d2.open[p] = IF p <= X[i] + Len(own[i]) THEN own[i][p - X[i]] ELSE "clip"
    BY DEF Shows
  <2>1. X[i] \in Nat /\ X[i + 1] \in Nat /\ X[i + 1] <= X[n] /\ X[n] \in Nat
    BY <1>1, <1>2, <1>5
  <2>2. p \in 1..X[n]
    BY <2>1
  <2>3. p <= Len(d.open) /\ d2.open[p] = d.open[p]
    BY <2>2
  <2> QED BY <1>1, <2>3 DEF Shows
<1>7. \A i \in 1..n : /\ own2[i] \in Seq(Kinds) /\ D2[i] <= D2[i + 1]
                      /\ X2[i + 1] = X2[i] + Len(own2[i]) + (D2[i + 1] - D2[i])
                      /\ Shows(d2, X2[i], X2[i + 1], own2[i])
  <2> TAKE i \in 1..n
  <2>1. CASE i = n
    BY <1>2, <1>4, <2>1
  <2>2. CASE i # n
    BY <1>1, <1>2, <1>4, <1>6, <2>2
  <2> QED BY <2>1, <2>2
<1>8. \A i \in 1..n + 1 : X2[i] \in Nat /\ D2[i] \in Nat
  BY <1>1, <1>2, <1>3, <1>4
<1>9. X2[1] = D2[1]
  BY <1>1, <1>2, <1>4
<1> HIDE DEF y
<1>10. Len(d2.open) + d2.err = X2[n + 1]
  BY <1>4 DEF y
<1>11. Laid(n, D2, own2, X2, d2)
  BY <1>7, <1>8, <1>9, <1>10 DEF Laid
<1> QED BY <1>11

\* what the calls have open together
LEMMA LaidSums ==
  ASSUME NEW n \in Nat, NEW D, NEW own, NEW X, NEW d, Laid(n, D, own, X, d)
  PROVE  /\ \A i \in 1..n + 1 : X[i] \in Nat /\ D[i] \in Nat
         /\ \A i \in 1..n : /\ own[i] \in Seq(Kinds) /\ Len(own[i]) \in Nat /\ D[i] <= D[i + 1]
                            /\ X[i + 1] - D[i + 1] = (X[i] - D[i]) + Len(own[i])
         /\ \A i, j \in 1..n + 1 : i <= j => /\ X[i] - D[i] <= X[j] - D[j]
                                             /\ D[i] <= D[j] /\ X[i] <= X[j]
<1>1. \A i \in 1..n + 1 : X[i] \in Nat /\ D[i] \in Nat
  BY DEF Laid
<1>2. \A i \in 1..n : i \in 1..n + 1 /\ i + 1 \in 1..n + 1
  OBVIOUS
<1>3. \A i \in 1..n : /\ own[i] \in Seq(Kinds) /\ Len(own[i]) \in Nat /\ D[i] <= D[i + 1]
                      /\ X[i + 1] - D[i + 1] = (X[i] - D[i]) + Len(own[i])
                      /\ X[i] - D[i] <= X[i + 1] - D[i + 1] /\ X[i] <= X[i + 1]
  <2> TAKE i \in 1..n
  <2>1. /\ own[i] \in Seq(Kinds) /\ D[i] <= D[i + 1]
        /\ X[i + 1] = X[i] + Len(own[i]) + (D[i + 1] - D[i])
    BY DEF Laid
  <2>2. Len(own[i]) \in Nat /\ X[i] \in Nat /\ D[i] \in Nat /\ D[i + 1] \in Nat /\ X[i + 1] \in Nat
    BY <1>1, <1>2, <2>1
  <2> QED BY <2>1, <2>2, SMTT(30)
<1> DEFINE m == n + 1
           S == [i \in 1..m |-> X[i] - D[i]]
<1>4. m \in Nat /\ \A i \in 1..m : i + 1 \in 1..m => i \in 1..n
  OBVIOUS
<1>5. \A i \in 1..m : S[i] = X[i] - D[i]
  OBVIOUS
<1> HIDE DEF m, S
<1>6. \A i \in 1..m : S[i] \in Int /\ X[i] \in Int /\ D[i] \in Int
  BY <1>1, <1>5 DEF m
<1>7. \A i \in 1..m : i + 1 \in 1..m => S[i] <= S[i + 1] /\ X[i] <= X[i + 1] /\ D[i] <= D[i + 1]
  BY <1>3, <1>4, <1>5
<1>8. \A i, j \in 1..m : i <= j => S[i] <= S[j]
  BY <1>4, <1>6, <1>7, Rises
<1>9. \A i, j \in 1..m : i <= j => X[i] <= X[j]
  BY <1>4, <1>6, <1>7, Rises
<1>10. \A i, j \in 1..m : i <= j => D[i] <= D[j]
  BY <1>4, <1>6, <1>7, Rises
<1> QED BY <1>1, <1>3, <1>5, <1>8, <1>9, <1>10 DEF m

\* the call that a bracket is in
LEMMA LaidPlace ==
  ASSUME NEW n \in Nat, NEW D, NEW own, NEW X, NEW d, Laid(n, D, own, X, d),
         NEW j \in 1..n, NEW p, p \in X[j] + 1..X[n + 1]
  PROVE  \E i \in j..n : p \in X[i] + 1..X[i + 1]
<1> DEFINE Beyond == {k \in j..n + 1 : p <= X[k]}
<1>1. \A i \in 1..n + 1 : X[i] \in Nat
  BY LaidSums
<1>2. n + 1 \in Beyond
  BY <1>1
<1>3. Beyond \in SUBSET Nat
  OBVIOUS
<1>4. PICK k \in Beyond : \A y \in Beyond : ~ (<<y, k>> \in OpToRel(<, Nat))
  BY <1>2, <1>3, NatLessThanWellFounded, WFMin
<1>5. \A y \in Beyond : ~ (y < k)
  BY <1>3, <1>4, Zenon DEF OpToRel
<1>6. k \in j..n + 1 /\ p <= X[k]
  BY <1>4
<1>7. k # j
  BY <1>1, <1>6
<1>8. k - 1 \in j..n /\ k - 1 \in j..n + 1 /\ k - 1 < k /\ (k - 1) + 1 = k /\ k - 1 \in 1..n + 1
  BY <1>6, <1>7
<1>9. ~(p <= X[k - 1])
  BY <1>5, <1>8
<1>10. p \in X[k - 1] + 1..X[(k - 1) + 1]
  BY <1>1, <1>6, <1>8, <1>9
<1> QED BY <1>8, <1>10

\* from the call j on there are clips only
LEMMA LaidClips ==
  ASSUME NEW n \in Nat, NEW D, NEW own, NEW X, NEW d, Laid(n, D, own, X, d),
         NEW j \in 1..n, \A i \in j..n : own[i] \in Clips
  PROVE  \A p \in X[j] + 1..X[n + 1] : p <= Len(d.open) => d.open[p] = "clip"
<1> SUFFICES ASSUME NEW p \in X[j] + 1..X[n + 1], p <= Len(d.open)
             PROVE  d.open[p] = "clip"
  OBVIOUS
<1>1. PICK i \in j..n : p \in X[i] + 1..X[i + 1]
  BY LaidPlace
<1>2. i \in 1..n /\ X[i] \in Nat
  BY LaidSums
<1>3. d.open[p] = IF p <= X[i] + Len(own[i]) THEN own[i][p - X[i]] ELSE "clip"
  BY <1>1, <1>2 DEF Laid, Shows
<1>4. CASE own[i] = << >>
  <2>1. ~(p <= X[i] + Len(own[i]))
    BY <1>1, <1>2, <1>4
  <2> QED BY <1>3, <2>1
<1>5. CASE own[i] = <<"clip">>
  <2>1. p <= X[i] + Len(own[i]) => p - X[i] = 1
    BY <1>1, <1>2, <1>5
  <2>2. p <= X[i] + Len(own[i]) => own[i][p - X[i]] = "clip"
    BY <1>5, <2>1
  <2> QED BY <1>3, <2>2
<1> QED BY <1>4, <1>5 DEF Clips

\* The calls from k + 1 on are gone, and had nothing open.
LEMMA LaidCut ==
  ASSUME NEW n \in Nat, NEW D, NEW own, NEW X, NEW d, Laid(n, D, own, X, d),
         NEW k \in 1..n, \A i \in k + 1..n : own[i] = << >>,
         NEW D2, D2[k + 1] = D[n + 1], \A i \in 1..k : D2[i] = D[i]
  PROVE  \E X2 : Laid(k, D2, own, X2, d)
<1> DEFINE X2 == [i \in 1..k + 1 |-> IF i = k + 1 THEN X[n + 1] ELSE X[i]]
<1>1. /\ \A i \in 1..n + 1 : X[i] \in Nat /\ D[i] \in Nat
      /\ \A i \in 1..n : /\ own[i] \in Seq(Kinds) /\ Len(own[i]) \in Nat /\ D[i] <= D[i + 1]
                         /\ X[i + 1] - D[i + 1] = (X[i] - D[i]) + Len(own[i])
      /\ \A i, j \in 1..n + 1 : i <= j => D[i] <= D[j] /\ X[i] <= X[j]
  BY LaidSums
<1>2. /\ k \in 1..n + 1 /\ k + 1 \in 1..n + 1 /\ n + 1 \in 1..n + 1 /\ k + 1 <= n + 1 /\ k <= k + 1
      /\ \A i \in 1..k : i \in 1..n /\ i \in 1..n + 1 /\ i # k + 1 /\ i \in 1..k + 1
      /\ \A i \in 1..k : i # k => i + 1 \in 1..k /\ i + 1 # k + 1
      /\ \A i \in 1..k + 1 : i = k + 1 \/ i \in 1..k
      /\ 1 \in 1..k
  OBVIOUS
<1>3. X2[k + 1] = X[n + 1] /\ \A i \in 1..k : X2[i] = X[i]
  BY <1>2
<1> HIDE DEF X2
\* what they add are clips
<1>4. X[n + 1] - D[n + 1] = X[k + 1] - D[k + 1]
  <2> DEFINE m == n - k + 1
             R == [i \in 1..m |-> 0 - (X[k + i] - D[k + i])]
  <2>1. m \in Nat /\ 1 \in 1..m /\ m \in 1..m /\ 1 <= m /\ k + m = n + 1
        /\ \A i \in 1..m : k + i \in 1..n + 1
    OBVIOUS
  <2>2. \A i \in 1..m : R[i] = 0 - (X[k + i] - D[k + i])
    OBVIOUS
  <2> HIDE DEF R
  <2>3. \A i \in 1..m : R[i] \in Int
    <3> TAKE i \in 1..m
    <3>1. X[k + i] \in Nat /\ D[k + i] \in Nat
      BY <1>1, <2>1
    <3> QED BY <2>2, <3>1
  <2>4. \A i \in 1..m : i + 1 \in 1..m => R[i] <= R[i + 1]
    <3> SUFFICES ASSUME NEW i \in 1..m, i + 1 \in 1..m
                 PROVE  R[i] <= R[i + 1]
      OBVIOUS
    <3>1. k + i \in k + 1..n /\ k + i \in 1..n /\ (k + i) + 1 = k + (i + 1) /\ k + i \in 1..n + 1
          /\ k + (i + 1) \in 1..n + 1
      OBVIOUS
    <3>2. Len(own[k + i]) = 0
      BY <3>1
    <3>3. X[k + (i + 1)] - D[k + (i + 1)] = (X[k + i] - D[k + i]) + Len(own[k + i])
      BY <1>1, <3>1
    <3>4. X[k + (i + 1)] \in Nat /\ D[k + (i + 1)] \in Nat /\ X[k + i] \in Nat /\ D[k + i] \in Nat
      BY <1>1, <3>1
    <3>5. R[i] = 0 - (X[k + i] - D[k + i]) /\ R[i + 1] = 0 - (X[k + (i + 1)] - D[k + (i + 1)])
      BY <2>2
    <3> QED BY <3>2, <3>3, <3>4, <3>5
  <2>5. \A i, j \in 1..m : i <= j => R[i] <= R[j]
    BY <2>1, <2>3, <2>4, Rises
  <2>6. R[1] <= R[m]
    BY <2>1, <2>5
  <2>7. R[1] = 0 - (X[k + 1] - D[k + 1]) /\ R[m] = 0 - (X[n + 1] - D[n + 1])
    BY <2>1, <2>2
  <2>8. X[k + 1] - D[k + 1] <= X[n + 1] - D[n + 1]
    BY <1>2, LaidSums
  <2>9. /\ X[k + 1] \in Nat /\ D[k + 1] \in Nat /\ X[n + 1] \in Nat /\ D[n + 1] \in Nat
    BY <1>1, <1>2
  <2>10. PICK a, b : a = X[k + 1] - D[k + 1] /\ b = X[n + 1] - D[n + 1]
    OBVIOUS
  <2>11. a \in Int /\ b \in Int
    BY <2>9, <2>10
  <2>12. a <= b /\ 0 - a <= 0 - b
    BY <2>6, <2>7, <2>8, <2>10
  <2>13. a = b
    BY <2>11, <2>12
  <2> QED BY <2>10, <2>13
<1>5. Shows(d, X[k], X[n + 1], own[k])
  <2> SUFFICES ASSUME NEW p \in X[k] + 1..X[n + 1], p <= Len(d.open)
               PROVE  d.open[p] = IF p <= X[k] + Len(own[k]) THEN own[k][p - X[k]] ELSE "clip"
    BY DEF Shows
  <2>1. /\ X[k] \in Nat /\ X[k + 1] \in Nat /\ Len(own[k]) \in Nat /\ X[n + 1] \in Nat
        /\ X[k + 1] - D[k + 1] = (X[k] - D[k]) + Len(own[k]) /\ D[k] <= D[k + 1]
        /\ D[k] \in Nat /\ D[k + 1] \in Nat
    BY <1>1, <1>2
  <2>2. CASE p <= X[k + 1]
    <3>1. p \in X[k] + 1..X[k + 1]
      BY <2>1, <2>2
    <3> QED BY <1>2, <3>1 DEF Laid, Shows
  <2>3. CASE ~(p <= X[k + 1])
    <3>1. k + 1 <= n
      BY <2>1, <2>3
    <3>2. k + 1 \in 1..n /\ p \in X[k + 1] + 1..X[n + 1]
      BY <2>1, <2>3, <3>1
    <3>3. d.open[p] = "clip"
      <4>1. \A i \in k + 1..n : own[i] \in Clips
        BY DEF Clips
      <4> QED BY <3>2, <4>1, LaidClips
    <3>4. ~(p <= X[k] + Len(own[k]))
      <4>1. PICK a : a = Len(own[k])
        OBVIOUS
      <4>2. /\ X[k] \in Nat /\ X[k + 1] \in Nat /\ a \in Nat /\ X[k + 1] - D[k + 1] = (X[k] - D[k]) + a
            /\ D[k] <= D[k + 1] /\ D[k] \in Nat /\ D[k + 1] \in Nat
        BY <2>1, <4>1, Zenon
      <4>3. ~(p <= X[k] + a)
        BY <2>3, <4>2, SMTT(30)
      <4> QED BY <4>1, <4>3, Zenon
    <3> QED BY <3>3, <3>4
  <2> QED BY <2>2, <2>3
<1>6. \A i \in 1..k : /\ own[i] \in Seq(Kinds) /\ D2[i] <= D2[i + 1]
                      /\ X2[i + 1] = X2[i] + Len(own[i]) + (D2[i + 1] - D2[i])
                      /\ Shows(d, X2[i], X2[i + 1], own[i])
  <2> TAKE i \in 1..k
  <2>1. CASE i = k
    <3>1. /\ X2[k + 1] = X[n + 1] /\ X2[k] = X[k] /\ D2[k + 1] = D[n + 1] /\ D2[k] = D[k]
      BY <1>2, <1>3
    <3>2. /\ X[k] \in Nat /\ X[k + 1] \in Nat /\ Len(own[k]) \in Nat /\ X[n + 1] \in Nat
          /\ X[k + 1] - D[k + 1] = (X[k] - D[k]) + Len(own[k]) /\ D[k] <= D[n + 1]
          /\ D[k] \in Nat /\ D[k + 1] \in Nat /\ D[n + 1] \in Nat /\ own[k] \in Seq(Kinds)
      BY <1>1, <1>2
    <3>3. X[n + 1] = X[k] + Len(own[k]) + (D[n + 1] - D[k])
      <4>1. PICK a : a = Len(own[k])
        OBVIOUS
      <4>2. /\ X[k] \in Nat /\ X[k + 1] \in Nat /\ a \in Nat /\ X[n + 1] \in Nat
            /\ X[k + 1] - D[k + 1] = (X[k] - D[k]) + a
            /\ D[k] \in Nat /\ D[k + 1] \in Nat /\ D[n + 1] \in Nat
        BY <3>2, <4>1, Zenon
      <4>3. X[n + 1] - D[n + 1] = (X[k] - D[k]) + a
        BY <1>4, <4>2, Zenon
      <4>4. PICK x1, x2, d1, d2 : x1 = X[k] /\ x2 = X[n + 1] /\ d1 = D[k] /\ d2 = D[n + 1]
        OBVIOUS
      <4>5. /\ x1 \in Nat /\ x2 \in Nat /\ d1 \in Nat /\ d2 \in Nat /\ a \in Nat
            /\ x2 - d2 = (x1 - d1) + a
        BY <4>2, <4>3, <4>4, Zenon
      <4>6. x2 = x1 + a + (d2 - d1)
        BY <4>5
      <4> QED BY <4>1, <4>4, <4>6, Zenon
    <3> QED BY <1>5, <2>1, <3>1, <3>2, <3>3
  <2>2. CASE i # k
    <3>1. i \in 1..n /\ X2[i] = X[i] /\ X2[i + 1] = X[i + 1] /\ D2[i] = D[i] /\ D2[i + 1] = D[i + 1]
      BY <1>2, <1>3, <2>2
    <3> QED BY <3>1 DEF Laid
  <2> QED BY <2>1, <2>2
<1>7. /\ X2[1] = D2[1] /\ Len(d.open) + d.err = X2[k + 1] /\ IsDev(d)
      /\ \A i \in 1..k + 1 : X2[i] \in Nat /\ D2[i] \in Nat
  BY <1>1, <1>2, <1>3 DEF Laid
<1>8. Laid(k, D2, own, X2, d)
  BY <1>6, <1>7 DEF Laid
<1> QED BY <1>8

\* A call begins.
LEMMA LaidPush ==
  ASSUME NEW n \in Nat, NEW D, NEW own, NEW X, NEW d, Laid(n, D, own, X, d),
         NEW own2, own2[n + 1] = << >>, \A i \in 1..n : own2[i] = own[i],
         NEW D2, D2[n + 2] = D[n + 1], \A i \in 1..n + 1 : D2[i] = D[i]
  PROVE  \E X2 : Laid(n + 1, D2, own2, X2, d)
<1> DEFINE X2 == [i \in 1..n + 2 |-> IF i = n + 2 THEN X[n + 1] ELSE X[i]]
<1>1. /\ \A i \in 1..n + 1 : i \in 1..n + 2 /\ i # n + 2
      /\ \A i \in 1..n + 2 : i = n + 2 \/ i \in 1..n + 1
      /\ \A i \in 1..n + 1 : i = n + 1 \/ i \in 1..n
      /\ \A i \in 1..n : i \in 1..n + 1 /\ i + 1 \in 1..n + 1
      /\ (n + 1) + 1 = n + 2 /\ n + 1 \in 1..n + 1 /\ n + 2 \in 1..n + 2 /\ 1 \in 1..n + 1
  OBVIOUS
<1>2. X2[n + 2] = X[n + 1] /\ \A i \in 1..n + 1 : X2[i] = X[i]
  BY <1>1
<1> HIDE DEF X2
<1>3. \A i \in 1..n + 2 : X2[i] \in Nat /\ D2[i] \in Nat
  BY <1>1, <1>2 DEF Laid
<1>4. \A i \in 1..n + 1 : /\ own2[i] \in Seq(Kinds) /\ D2[i] <= D2[i + 1]
                          /\ X2[i + 1] = X2[i] + Len(own2[i]) + (D2[i + 1] - D2[i])
                          /\ Shows(d, X2[i], X2[i + 1], own2[i])
  <2> TAKE i \in 1..n + 1
  <2>1. CASE i \in 1..n
    BY <1>1, <1>2, <2>1 DEF Laid
  <2>2. CASE i = n + 1
    <3>1. /\ X2[i] = X[n + 1] /\ X2[i + 1] = X[n + 1] /\ D2[i] = D[n + 1] /\ D2[i + 1] = D[n + 1]
          /\ own2[i] = << >>
      BY <1>1, <1>2, <2>2
    <3>2. X[n + 1] \in Nat /\ D[n + 1] \in Nat
      BY <1>1 DEF Laid
    <3>3. << >> \in Seq(Kinds) /\ Len(<< >>) = 0
      OBVIOUS
    <3>4. Shows(d, X[n + 1], X[n + 1], << >>)
      BY <3>2 DEF Shows
    <3> QED BY <3>1, <3>2, <3>3, <3>4
  <2> QED BY <1>1, <2>1, <2>2
<1>5. Laid(n + 1, D2, own2, X2, d)
  <2>1. X2[1] = D2[1] /\ IsDev(d) /\ Len(d.open) + d.err = X2[(n + 1) + 1]
    BY <1>1, <1>2 DEF Laid
  <2>2. (n + 1) + 1 = n + 2
    OBVIOUS
  <2> QED BY <1>3, <1>4, <2>1, <2>2 DEF Laid
<1> QED BY <1>5

\* What the call after the n-th, the last, has open is the n-th's.
Merged(n, k, D, own, D2, own2) ==
  /\ k = n + 1 /\ own[k] \in Clips
  /\ own2[n] = own[n] \o own[k] /\ \A i \in 1..n : i # n => own2[i] = own[i]
  /\ D2[k] = D[k + 1] /\ \A i \in 1..n : D2[i] = D[i]
\* A call ends; what it has left open is a clip, and its caller's.
LEMMA LaidLess ==
  ASSUME NEW n \in Nat, n >= 1, NEW k, NEW D, NEW own, NEW X, NEW d, Laid(k, D, own, X, d),
         NEW D2, NEW own2, Merged(n, k, D, own, D2, own2)
  PROVE  \E X2 : Laid(n, D2, own2, X2, d)
<1>0. PICK l : l = k + 1
  OBVIOUS
<1>a. /\ k = n + 1 /\ l = n + 2 /\ own[k] \in Clips
      /\ own2[n] = own[n] \o own[k] /\ \A i \in 1..n : i # n => own2[i] = own[i]
      /\ D2[k] = D[l] /\ \A i \in 1..n : D2[i] = D[i]
  BY <1>0 DEF Merged
<1> USE <1>a
<1> DEFINE X2 == [i \in 1..k |-> IF i = k THEN X[l] ELSE X[i]]
<1>1. /\ k + 1 = l /\ n \in 1..n /\ n \in 1..k /\ k \in 1..k /\ 1 \in 1..n
      /\ n \in 1..l /\ k \in 1..l /\ l \in 1..l
      /\ \A i \in 1..n : i \in 1..k /\ i # k /\ i \in 1..l
      /\ \A i \in 1..n : i # n => i + 1 \in 1..n /\ i + 1 # k
      /\ \A i \in 1..k : i = k \/ i \in 1..n
  OBVIOUS
<1>2. /\ \A i \in 1..l : X[i] \in Nat /\ D[i] \in Nat
      /\ \A i \in 1..k : /\ own[i] \in Seq(Kinds) /\ Len(own[i]) \in Nat /\ D[i] <= D[i + 1]
                             /\ X[i + 1] - D[i + 1] = (X[i] - D[i]) + Len(own[i])
  BY <1>1, LaidSums
<1>3. X2[k] = X[l] /\ \A i \in 1..n : X2[i] = X[i]
  BY <1>1
<1> HIDE DEF X2
<1>4. PICK a, b, v : a = Len(own[n]) /\ b = Len(own[k]) /\ v = own2[n]
  OBVIOUS
<1>5. a \in Nat /\ b \in Nat /\ own[n] \in Seq(Kinds) /\ own[k] \in Seq(Kinds)
  BY <1>1, <1>2, <1>4, Zenon
<1>6. /\ v \in Seq(Kinds) /\ Len(v) = a + b
      /\ \A q \in 1..a : v[q] = own[n][q]
      /\ \A q \in a + 1..a + b : v[q] = own[k][q - a]
  <2>1. PICK s, t : s = own[n] /\ t = own[k]
    OBVIOUS
  <2>2. /\ s \in Seq(Kinds) /\ t \in Seq(Kinds) /\ v = s \o t /\ a = Len(s) /\ b = Len(t)
    BY <1>4, <1>5, <2>1, Zenon
  <2>3. v \in Seq(Kinds) /\ Len(v) = a + b
    BY <2>2
  <2>4. \A q \in 1..a : v[q] = s[q]
    BY <2>2
  <2>5. \A q \in a + 1..a + b : v[q] = t[q - a]
    BY <2>2
  <2> QED BY <2>1, <2>3, <2>4, <2>5
<1>7. PICK x1, x2, x3, d1, d2, d3 : /\ x1 = X[n] /\ x2 = X[k] /\ x3 = X[l]
                                    /\ d1 = D[n] /\ d2 = D[k] /\ d3 = D[l]
  OBVIOUS
<1>8. /\ x1 \in Nat /\ x2 \in Nat /\ x3 \in Nat /\ d1 \in Nat /\ d2 \in Nat /\ d3 \in Nat
      /\ d1 <= d2 /\ d2 <= d3
      /\ x2 - d2 = (x1 - d1) + a /\ x3 - d3 = (x2 - d2) + b
  BY <1>1, <1>2, <1>4, <1>7, Zenon
<1>9. /\ d1 <= d3 /\ x3 = x1 + (a + b) + (d3 - d1) /\ x1 + a <= x2
  BY <1>5, <1>8
<1>10. /\ Shows(d, x1, x2, own[n])
       /\ \A p \in x2 + 1..x3 : p <= Len(d.open) => d.open[p] = "clip"
  <2>1. \A i \in k..k : own[i] \in Clips
    BY <1>1
  <2>2. \A p \in X[k] + 1..X[k + 1] : p <= Len(d.open) => d.open[p] = "clip"
    BY <1>1, <2>1, LaidClips
  <2>3. Shows(d, X[n], X[k], own[n])
    BY <1>1 DEF Laid
  <2> QED BY <1>1, <1>7, <2>2, <2>3
<1>11. \A q \in a + 1..a + b : v[q] = "clip"
  <2> TAKE q \in a + 1..a + b
  <2>1. CASE own[k] = << >>
    <3>1. b = 0
      BY <1>4, <2>1
    <3> QED BY <1>5, <3>1
  <2>2. CASE own[k] = <<"clip">>
    <3>1. b = 1
      BY <1>4, <2>2
    <3>2. q - a = 1
      BY <1>5, <3>1
    <3> QED BY <1>6, <2>2, <3>2
  <2> QED BY <2>1, <2>2 DEF Clips
<1>12. Shows(d, x1, x3, v)
  <2> SUFFICES ASSUME NEW p \in x1 + 1..x3, p <= Len(d.open)
               PROVE  d.open[p] = IF p <= x1 + (a + b) THEN v[p - x1] ELSE "clip"
    BY <1>6 DEF Shows
  <2>1. CASE p <= x1 + a
    <3>1. p \in x1 + 1..x2 /\ p - x1 \in 1..a /\ p <= x1 + (a + b)
      BY <1>5, <1>8, <1>9, <2>1
    <3>2. d.open[p] = own[n][p - x1]
      BY <1>4, <1>10, <2>1, <3>1 DEF Shows
    <3> QED BY <1>6, <3>1, <3>2
  <2>2. CASE ~(p <= x1 + a)
    <3>1. d.open[p] = "clip"
      <4>1. CASE p <= x2
        <5>1. p \in x1 + 1..x2
          BY <1>8, <4>1
        <5> QED BY <1>4, <1>10, <2>2, <5>1 DEF Shows
      <4>2. CASE ~(p <= x2)
        <5>1. p \in x2 + 1..x3
          BY <1>8, <4>2
        <5> QED BY <1>10, <5>1
      <4> QED BY <4>1, <4>2
    <3>2. p <= x1 + (a + b) => p - x1 \in a + 1..a + b
      BY <1>5, <1>8, <2>2
    <3> QED BY <1>11, <3>1, <3>2
  <2> QED BY <2>1, <2>2
<1>13. \A i \in 1..n : /\ own2[i] \in Seq(Kinds) /\ D2[i] <= D2[i + 1]
                       /\ X2[i + 1] = X2[i] + Len(own2[i]) + (D2[i + 1] - D2[i])
                       /\ Shows(d, X2[i], X2[i + 1], own2[i])
  <2> TAKE i \in 1..n
  <2>1. CASE i = n
    <3>1. X2[n] = x1 /\ X2[k] = x3 /\ D2[n] = d1 /\ D2[k] = d3 /\ own2[n] = v
      BY <1>1, <1>3, <1>4, <1>7
    <3> QED BY <1>6, <1>9, <1>12, <2>1, <3>1
  <2>2. CASE i # n
    <3>1. /\ i \in 1..k /\ X2[i] = X[i] /\ X2[i + 1] = X[i + 1] /\ D2[i] = D[i]
          /\ D2[i + 1] = D[i + 1] /\ own2[i] = own[i]
      BY <1>1, <1>3, <2>2
    <3> QED BY <3>1 DEF Laid
  <2> QED BY <2>1, <2>2
<1>14. /\ X2[1] = D2[1] /\ Len(d.open) + d.err = X2[k] /\ IsDev(d)
       /\ \A i \in 1..k : X2[i] \in Nat /\ D2[i] \in Nat
  BY <1>1, <1>2, <1>3 DEF Laid
<1>15. Laid(n, D2, own2, X2, d)
  BY <1>13, <1>14 DEF Laid
<1> QED BY <1>15

\* None of the calls is left, and none had anything open.
LEMMA LaidNone ==
  ASSUME NEW n \in Nat, n >= 1, NEW D, NEW own, NEW X, NEW d, Laid(n, D, own, X, d),
         \A i \in 1..n : own[i] = << >>, NEW own2, NEW D2, D2[1] = D[n + 1]
  PROVE  \E X2 : Laid(0, D2, own2, X2, d)
<1> DEFINE D3 == [i \in 1..2 |-> IF i = 2 THEN D[n + 1] ELSE D[i]]
<1>1. D3[2] = D[n + 1] /\ D3[1] = D[1] /\ 1 + 1 = 2 /\ 1 \in 1..n
      /\ (\A i \in 1..1 : i = 1) /\ (\A i \in 1 + 1..n : i \in 1..n)
  OBVIOUS
<1> HIDE DEF D3
<1>2. PICK X3 : Laid(1, D3, own, X3, d)
  <2>1. \A i \in 1 + 1..n : own[i] = << >>
    BY <1>1
  <2>2. \A i \in 1..1 : D3[i] = D[i]
    BY <1>1
  <2>3. D3[1 + 1] = D[n + 1]
    BY <1>1
  <2> QED BY <1>1, <2>1, <2>2, <2>3, LaidCut
<1>3. /\ X3[1] = D3[1] /\ X3[2] = X3[1] + Len(own[1]) + (D3[2] - D3[1]) /\ X3[1] \in Nat /\ D3[1] \in Nat
      /\ D3[2] \in Nat /\ IsDev(d) /\ Len(d.open) + d.err = X3[2]
  <2>1. 1 \in 1..1 /\ 1 \in 1..1 + 1 /\ 2 \in 1..1 + 1 /\ 1 + 1 = 2
    OBVIOUS
  <2> QED BY <1>2, <2>1 DEF Laid
<1>4. Len(own[1]) = 0
  BY <1>1
<1>5. X3[2] = D3[2]
  BY <1>3, <1>4
<1> DEFINE X2 == [i \in {1} |-> D2[1]]
<1>6. X2[1] = D2[1] /\ (\A i \in 1..0 + 1 : i = 1) /\ (\A i \in 1..0 : FALSE) /\ 0 + 1 = 1
  OBVIOUS
<1> HIDE DEF X2
<1>7. Laid(0, D2, own2, X2, d)
  BY <1>1, <1>3, <1>5, <1>6 DEF Laid
<1> QED BY <1>7

\* up to x everything is as it was
Keeps(d, d2, x) ==
  \A p \in 1..x : p <= Len(d2.open) => p <= Len(d.open) /\ d2.open[p] = d.open[p]

\* from d to d2 a clip is opened, as far as it can be
ClipOpened(d, d2) ==
  /\ IsDev(d2) /\ Len(d2.open) + d2.err = (Len(d.open) + d.err) + 1
  /\ Keeps(d, d2, Len(d.open) + d.err)
  /\ (Len(d.open) + d.err) + 1 <= Len(d2.open) => d2.open[(Len(d.open) + d.err) + 1] = "clip"
Shifted(n, j, D, D2) ==
  \A i \in 1..n + 1 : D2[i] = IF i < j THEN D[i] ELSE D[i] + 1

\* There is one clip more in the state that the calls from j on were made with, and these
\* have clips open, or nothing.
LEMMA LaidShift ==
  ASSUME NEW n \in Nat, NEW D, NEW own, NEW X, NEW d, Laid(n, D, own, X, d),
         NEW j \in 1..n, \A i \in j..n : own[i] \in Clips, NEW D2, Shifted(n, j, D, D2),
         NEW d2, ClipOpened(d, d2)
  PROVE  \E X2 : Laid(n, D2, own, X2, d2)
<1>0. /\ \A i \in 1..n + 1 : D2[i] = IF i < j THEN D[i] ELSE D[i] + 1
      /\ IsDev(d2) /\ Len(d2.open) + d2.err = X[n + 1] + 1
      /\ \A p \in 1..X[n + 1] : p <= Len(d2.open) => p <= Len(d.open) /\ d2.open[p] = d.open[p]
      /\ X[n + 1] + 1 <= Len(d2.open) => d2.open[X[n + 1] + 1] = "clip"
  <2>1. PICK y : y = X[n + 1] /\ y = Len(d.open) + d.err
    BY DEF Laid
  <2> QED BY <2>1 DEF Shifted, ClipOpened, Keeps
<1> USE <1>0
<1> DEFINE X2 == [i \in 1..n + 1 |-> IF i < j THEN X[i] ELSE X[i] + 1]
<1>1. \A i \in 1..n + 1 : X2[i] = IF i < j THEN X[i] ELSE X[i] + 1
  OBVIOUS
<1> HIDE DEF X2
<1>2. /\ \A i \in 1..n + 1 : X[i] \in Nat /\ D[i] \in Nat
      /\ \A i \in 1..n : /\ own[i] \in Seq(Kinds) /\ D[i] <= D[i + 1]
                         /\ X[i + 1] = X[i] + Len(own[i]) + (D[i + 1] - D[i])
                         /\ Shows(d, X[i], X[i + 1], own[i])
      /\ X[1] = D[1]
  BY DEF Laid
<1>3. \A i, k \in 1..n + 1 : i <= k => X[i] <= X[k]
  BY LaidSums
<1>4. /\ \A i \in 1..n : i \in 1..n + 1 /\ i + 1 \in 1..n + 1
      /\ n + 1 \in 1..n + 1 /\ 1 \in 1..n + 1 /\ j \in 1..n + 1 /\ ~(n + 1 < j)
  OBVIOUS
<1>5. \A p \in X[j] + 1..X[n + 1] + 1 : p <= Len(d2.open) => d2.open[p] = "clip"
  <2> SUFFICES ASSUME NEW p \in X[j] + 1..X[n + 1] + 1, p <= Len(d2.open)
               PROVE  d2.open[p] = "clip"
    OBVIOUS
  <2>1. X[j] \in Nat /\ X[n + 1] \in Nat
    BY <1>2, <1>4
  <2>2. CASE p = X[n + 1] + 1
    BY <2>2
  <2>3. CASE p # X[n + 1] + 1
    <3>1. p \in X[j] + 1..X[n + 1] /\ p \in 1..X[n + 1]
      BY <2>1, <2>3
    <3>2. p <= Len(d.open) /\ d2.open[p] = d.open[p]
      BY <3>1
    <3>3. d.open[p] = "clip"
      BY <3>1, <3>2, LaidClips
    <3> QED BY <3>2, <3>3
  <2> QED BY <2>2, <2>3
<1>6. \A i \in 1..n : /\ own[i] \in Seq(Kinds) /\ D2[i] <= D2[i + 1]
                      /\ X2[i + 1] = X2[i] + Len(own[i]) + (D2[i + 1] - D2[i])
                      /\ Shows(d2, X2[i], X2[i + 1], own[i])
  <2> TAKE i \in 1..n
  <2>1. PICK a : a = Len(own[i])
    OBVIOUS
  <2>2. PICK x1, x2, d1, e2 : x1 = X[i] /\ x2 = X[i + 1] /\ d1 = D[i] /\ e2 = D[i + 1]
    OBVIOUS
  <2>3. /\ x1 \in Nat /\ x2 \in Nat /\ d1 \in Nat /\ e2 \in Nat /\ a \in Nat
        /\ d1 <= e2 /\ x2 = x1 + a + (e2 - d1) /\ own[i] \in Seq(Kinds)
        /\ Shows(d, x1, x2, own[i])
    <3>1. own[i] \in Seq(Kinds) /\ Len(own[i]) \in Nat
      BY <1>2
    <3> QED BY <1>2, <1>4, <2>1, <2>2, <3>1, Zenon
  <2>4. X[j] \in Nat /\ X[n + 1] \in Nat /\ x2 <= X[n + 1]
    BY <1>2, <1>3, <1>4, <2>2
  <2>5. CASE i >= j
    <3>1. /\ X2[i] = x1 + 1 /\ X2[i + 1] = x2 + 1 /\ D2[i] = d1 + 1 /\ D2[i + 1] = e2 + 1
      BY <1>1, <1>4, <2>2, <2>5
    <3>2. X[j] <= x1
      BY <1>3, <1>4, <2>2, <2>5
    <3>3. Shows(d2, x1 + 1, x2 + 1, own[i])
      <4> SUFFICES ASSUME NEW p \in (x1 + 1) + 1..x2 + 1, p <= Len(d2.open)
                   PROVE  d2.open[p] = IF p <= (x1 + 1) + Len(own[i]) THEN own[i][p - (x1 + 1)]
                                       ELSE "clip"
        BY DEF Shows
      <4>1. p \in X[j] + 1..X[n + 1] + 1
        BY <2>3, <2>4, <3>2
      <4>2. d2.open[p] = "clip"
        BY <1>5, <4>1
      <4>3. CASE own[i] = << >>
        BY <2>3, <4>2, <4>3
      <4>4. CASE own[i] = <<"clip">>
        <5>1. p <= (x1 + 1) + Len(own[i]) => p - (x1 + 1) = 1
          BY <2>3, <4>4
        <5> QED BY <4>2, <4>4, <5>1
      <4>5. own[i] \in Clips
        BY <2>5
      <4> QED BY <4>3, <4>4, <4>5 DEF Clips
    <3>4. d1 + 1 <= e2 + 1 /\ x2 + 1 = (x1 + 1) + a + ((e2 + 1) - (d1 + 1))
      BY <2>3
    <3> QED BY <2>1, <2>3, <3>1, <3>3, <3>4
  <2>6. CASE i < j /\ i + 1 < j
    <3>1. /\ X2[i] = x1 /\ X2[i + 1] = x2 /\ D2[i] = d1 /\ D2[i + 1] = e2
      BY <1>1, <1>4, <2>2, <2>6
    <3>2. Shows(d2, x1, x2, own[i])
      <4> SUFFICES ASSUME NEW p \in x1 + 1..x2, p <= Len(d2.open)
                   PROVE  d2.open[p] = IF p <= x1 + Len(own[i]) THEN own[i][p - x1] ELSE "clip"
        BY DEF Shows
      <4>1. p \in 1..X[n + 1]
        BY <2>3, <2>4
      <4>2. p <= Len(d.open) /\ d2.open[p] = d.open[p]
        BY <4>1
      <4> QED BY <2>3, <4>2 DEF Shows
    <3> QED BY <2>1, <2>3, <3>1, <3>2
  <2>7. CASE i < j /\ ~(i + 1 < j)
    <3>1. i + 1 = j
      BY <2>7
    <3>2. /\ X2[i] = x1 /\ X2[i + 1] = x2 + 1 /\ D2[i] = d1 /\ D2[i + 1] = e2 + 1 /\ X[j] = x2
      BY <1>1, <1>4, <2>2, <2>7, <3>1
    <3>3. Shows(d2, x1, x2 + 1, own[i])
      <4> SUFFICES ASSUME NEW p \in x1 + 1..x2 + 1, p <= Len(d2.open)
                   PROVE  d2.open[p] = IF p <= x1 + a THEN own[i][p - x1] ELSE "clip"
        BY <2>1 DEF Shows
      <4>1. CASE p <= x2
        <5>1. p \in 1..X[n + 1] /\ p \in x1 + 1..x2
          BY <2>3, <2>4, <4>1
        <5>2. p <= Len(d.open) /\ d2.open[p] = d.open[p]
          BY <5>1
        <5> QED BY <2>1, <2>3, <5>1, <5>2 DEF Shows
      <4>2. CASE ~(p <= x2)
        <5>1. p \in X[j] + 1..X[n + 1] + 1 /\ ~(p <= x1 + a)
          BY <2>3, <2>4, <3>2, <4>2, SMTT(30)
        <5> QED BY <1>5, <5>1
      <4> QED BY <4>1, <4>2
    <3>4. d1 <= e2 + 1 /\ x2 + 1 = x1 + a + ((e2 + 1) - d1)
      BY <2>3, SMTT(30)
    <3> QED BY <2>1, <2>3, <3>2, <3>3, <3>4
  <2>8. i >= j \/ (i < j /\ i + 1 < j) \/ (i < j /\ ~(i + 1 < j))
    OBVIOUS
  <2> QED BY <2>5, <2>6, <2>7, <2>8
<1>7. \A i \in 1..n + 1 : X2[i] \in Nat /\ D2[i] \in Nat
  <2> TAKE i \in 1..n + 1
  <2>1. X[i] \in Nat /\ D[i] \in Nat
    BY <1>2
  <2> QED BY <1>1, <2>1
<1>8. X2[1] = D2[1] /\ X2[n + 1] = X[n + 1] + 1
  <2>1. D2[1] = IF 1 < j THEN D[1] ELSE D[1] + 1
    BY <1>4
  <2>2. X2[1] = IF 1 < j THEN X[1] ELSE X[1] + 1
    BY <1>1, <1>4
  <2>3. X2[n + 1] = X[n + 1] + 1
    BY <1>1, <1>4
  <2> QED BY <1>2, <2>1, <2>2, <2>3
<1>9. Laid(n, D2, own, X2, d2)
  BY <1>6, <1>7, <1>8 DEF Laid
<1> QED BY <1>9

-----------------------------------------------------------------------------
(* What each call has open                                                 *)

\* what a call leaves open: a soft mask, its clip
Final(f) == IF f.fn = "mask" THEN <<"clip">> ELSE << >>
\* a form that has yet to open its group
Opening(f) == f.todo # << >> /\ f.todo[1] \in {Do("softmask"), Open("group")}
\* A soft mask is opened where nothing else is, and is the last that is closed.
Softens(f, b) ==
  \A j \in 1..Len(f.todo) : f.todo[j] = Do("softmask") =>
    \A m \in Forms \cup {None} :
      Leads(f.fn, m, b, SubSeq(f.todo, j + 1, Len(f.todo)), SoftOf(m), << >>)
\* what fz_catch finds open is closed by what it runs
Rescues(f, b, w) ==
  f.fn = "form" /\ f.onErr # << >> =>
    /\ Leads(f.fn, f.soft, b, f.onErr, IF Opening(f) THEN Append(w, "group") ELSE w, << >>)
    /\ f.todo # << >> /\ f.todo[1] = Do("softmask") =>
         \A m \in Forms \cup {None} :
           Leads(f.fn, m, b, f.onErr, Append(SoftOf(m), "group"), << >>)
\* The call f, in the blend mode b, has the brackets w open.
Bears(f, b, w) ==
  /\ Leads(f.fn, f.soft, b, f.todo, w, Final(f))
  /\ Softens(f, b)
  /\ f.fn = "stream" => w = << >>
  /\ Rescues(f, b, w)

\* with one call there for another, what it will leave open is its caller's
Rest(fs, i) == IF i < Len(fs) THEN Final(fs[i + 1]) ELSE << >>
ClipsOf(s, i) == IF i = 0 THEN 0 ELSE s[i].clips
ClipsAt(fs, s) ==
  [i \in 1..Len(fs) + 1 |-> ClipsOf(s, IF i <= Len(fs) THEN fs[i].base ELSE Len(s))]
FitsWith(fs, s, d, own, X) ==
  /\ Laid(Len(fs), ClipsAt(fs, s), own, X, d)
  /\ \A i \in 1..Len(fs) : Bears(fs[i], s[fs[i].base].blend, own[i] \o Rest(fs, i))
Fits(fs, s, d) == \E own, X : FitsWith(fs, s, d, own, X)

LEMMA LeadsAny ==
  ASSUME NEW fn, ~IsPaint(fn), NEW m, NEW b, NEW b2, NEW t, NEW k, NEW k2,
         Leads(fn, m, b, t, k, k2)
  PROVE  Leads(fn, m, b2, t, k, k2)
<1>1. PICK K : Chain(fn, m, b, t, k, k2, K)
  BY DEF Leads
<1>2. \A step, h, h2 : Turns(fn, m, b, step, h, h2) => Turns(fn, m, b2, step, h, h2)
  <2> TAKE step, h, h2
  <2>1. Turns(fn, m, b, step, h, h2) => step[1] # "end blend"
    BY Zenon DEF Turns
  <2>2. Turns(fn, m, b, step, h, h2) /\ step[1] # "end blend" => Turns(fn, m, b2, step, h, h2)
    BY Zenon DEF Turns
  <2> QED BY <2>1, <2>2
<1>3. Chain(fn, m, b2, t, k, k2, K)
  BY <1>1, <1>2 DEF Chain
<1> QED BY <1>3 DEF Leads

\* the blend mode matters to what paints only
LEMMA BearsAny ==
  ASSUME NEW f, ~IsPaint(f.fn), NEW b, NEW b2, NEW w, Bears(f, b, w)
  PROVE  Bears(f, b2, w)
<1>1. \A m, t, k, k2 : Leads(f.fn, m, b, t, k, k2) => Leads(f.fn, m, b2, t, k, k2)
  BY LeadsAny
<1>2. Softens(f, b2)
  BY <1>1 DEF Bears, Softens
<1>3. Rescues(f, b2, w)
  BY <1>1, Zenon DEF Bears, Rescues
<1> QED BY <1>1, <1>2, <1>3 DEF Bears

LEMMA ClipsAtIs ==
  ASSUME NEW fs, IsSeq(fs), NEW s
  PROVE  /\ Len(fs) \in Nat
         /\ \A i \in 1..Len(fs) : ClipsAt(fs, s)[i] = ClipsOf(s, fs[i].base)
         /\ ClipsAt(fs, s)[Len(fs) + 1] = ClipsOf(s, Len(s))
<1>1. Len(fs) \in Nat
  BY SeqLen
<1>2. \A i \in 1..Len(fs) : i \in 1..Len(fs) + 1 /\ i <= Len(fs)
  BY <1>1
<1>3. Len(fs) + 1 \in 1..Len(fs) + 1 /\ ~(Len(fs) + 1 <= Len(fs))
  BY <1>1
<1> QED BY <1>1, <1>2, <1>3, Zenon DEF ClipsAt

\* on the device, from x on, there are the brackets w and e clips
Top(d, x, w, e) ==
  /\ IsDev(d) /\ x \in Nat /\ e \in Nat /\ w \in Seq(Kinds)
  /\ Len(d.open) + d.err = x + Len(w) + e
  /\ Shows(d, x, x + Len(w) + e, w)
\* The innermost call goes on.
LEMMA FitsTop ==
  ASSUME NEW fs, IsSeq(fs), NEW n, n = Len(fs), n >= 1, NEW s, NEW d, Fits(fs, s, d),
         NEW f, f = fs[n], NEW g, g.fn = f.fn, g.base = f.base, NEW s2, NEW d2,
         \A i \in 1..n : ClipsOf(s2, fs[i].base) = ClipsOf(s, fs[i].base),
         \A i \in 1..n : i # n /\ IsPaint(fs[i].fn) =>
           s2[fs[i].base].blend = s[fs[i].base].blend,
         NEW e, e = ClipsOf(s, f.base), NEW c, c = ClipsOf(s, Len(s)),
         NEW c2 \in Nat, c2 = ClipsOf(s2, Len(s2)), e <= c2,
         \A w, x : Bears(f, s[f.base].blend, w) /\ e \in Nat /\ c \in Nat /\ Top(d, x, w, c - e)
           => \E v : /\ Bears(g, s2[f.base].blend, v) /\ v \in Seq(Kinds)
                     /\ Top(d2, x, v, c2 - e) /\ Keeps(d, d2, x)
  PROVE  Fits(Replaced(fs, n, g), s2, d2)
<1>1. PICK own, X : FitsWith(fs, s, d, own, X)
  BY DEF Fits
<1> DEFINE D == ClipsAt(fs, s)
           hs == Replaced(fs, n, g)
           D2 == ClipsAt(hs, s2)
<1>2. n \in Nat /\ n \in 1..n /\ n \in 1..n + 1 /\ n + 1 \in 1..n + 1
  BY SeqLen
<1>3. /\ IsSeq(hs) /\ Len(hs) = n /\ hs[n] = g
      /\ \A i \in 1..n : i # n => hs[i] = fs[i]
  BY <1>2, ReplacedSeq
<1>4. /\ \A i \in 1..n : D[i] = ClipsOf(s, fs[i].base)
      /\ D[n + 1] = c
  BY ClipsAtIs
<1> HIDE DEF hs
<1>5. /\ \A i \in 1..n : D2[i] = ClipsOf(s2, hs[i].base)
      /\ D2[n + 1] = c2
  BY <1>3, ClipsAtIs
<1>6. Laid(n, D, own, X, d)
  BY <1>1 DEF FitsWith
<1>7. \A i \in 1..n : Bears(fs[i], s[fs[i].base].blend, own[i] \o Rest(fs, i))
  BY <1>1 DEF FitsWith
<1> HIDE DEF D, D2
<1>8. \A i \in 1..n : D2[i] = D[i]
  <2> TAKE i \in 1..n
  <2>1. hs[i].base = fs[i].base
    BY <1>3
  <2> QED BY <1>4, <1>5, <2>1
<1>9. D[n] = e
  BY <1>2, <1>4
<1>10. /\ own[n] \in Seq(Kinds) /\ D[n] <= D[n + 1] /\ D[n] \in Nat /\ D[n + 1] \in Nat
       /\ X[n] \in Nat /\ X[n + 1] = X[n] + Len(own[n]) + (D[n + 1] - D[n])
       /\ Len(d.open) + d.err = X[n + 1] /\ Shows(d, X[n], X[n + 1], own[n]) /\ IsDev(d)
  BY <1>2, <1>6 DEF Laid
<1>11. Bears(f, s[f.base].blend, own[n])
  <2>1. Rest(fs, n) = << >>
    BY <1>2 DEF Rest
  <2>2. own[n] \o << >> = own[n]
    BY <1>10
  <2> QED BY <1>2, <1>7, <2>1, <2>2
<1>12. Top(d, X[n], own[n], c - e)
  <2>1. D[n + 1] - D[n] = c - e /\ c - e \in Nat
    BY <1>4, <1>9, <1>10
  <2> QED BY <1>10, <2>1 DEF Top
<1>13. PICK v \in Seq(Kinds) : /\ Bears(g, s2[f.base].blend, v)
                               /\ Top(d2, X[n], v, c2 - e) /\ Keeps(d, d2, X[n])
  BY <1>4, <1>9, <1>10, <1>11, <1>12
<1> DEFINE own2 == [i \in 1..n |-> IF i = n THEN v ELSE own[i]]
<1>14. own2[n] = v /\ \A i \in 1..n : i # n => own2[i] = own[i]
  BY <1>2
<1> HIDE DEF own2
<1>15. PICK X2 : Laid(n, D2, own2, X2, d2)
  <2>1. /\ Len(d2.open) + d2.err = X[n] + Len(v) + (c2 - D[n])
        /\ Shows(d2, X[n], X[n] + Len(v) + (c2 - D[n]), v) /\ IsDev(d2)
    BY <1>9, <1>13 DEF Top
  <2>2. \A p \in 1..X[n] : p <= Len(d2.open) => p <= Len(d.open) /\ d2.open[p] = d.open[p]
    BY <1>13 DEF Keeps
  <2>3. D[n] <= c2 /\ c2 \in Nat /\ n >= 1 /\ n \in Nat /\ v \in Seq(Kinds)
    BY <1>2, <1>9, <1>13
  <2>4. D2[n + 1] = c2 /\ \A i \in 1..n : D2[i] = D[i]
    BY <1>5, <1>8
  <2> QED BY <1>6, <1>14, <2>1, <2>2, <2>3, <2>4, LaidTop
<1>16. \A i \in 1..n : Bears(hs[i], s2[hs[i].base].blend, own2[i] \o Rest(hs, i))
  <2> TAKE i \in 1..n
  <2>1. CASE i = n
    <3>1. Rest(hs, i) = << >> /\ hs[i] = g /\ own2[i] = v
      BY <1>2, <1>3, <1>14, <2>1 DEF Rest
    <3>2. v \o << >> = v
      OBVIOUS
    <3> QED BY <1>13, <3>1, <3>2
  <2>2. CASE i # n
    <3>1. hs[i] = fs[i] /\ own2[i] = own[i] /\ i < n /\ i + 1 \in 1..n
      BY <1>2, <1>3, <1>14, <2>2
    <3>2. hs[i + 1].fn = fs[i + 1].fn
      BY <1>3, <3>1
    <3>3. Rest(hs, i) = Rest(fs, i)
      BY <1>3, <3>1, <3>2 DEF Rest, Final
    <3>4. Bears(fs[i], s[fs[i].base].blend, own[i] \o Rest(fs, i))
      BY <1>7
    <3>5. IsPaint(fs[i].fn) => s2[fs[i].base].blend = s[fs[i].base].blend
      BY <2>2
    <3>6. Bears(fs[i], s2[fs[i].base].blend, own[i] \o Rest(fs, i))
      BY <3>4, <3>5, BearsAny
    <3> QED BY <3>1, <3>3, <3>6
  <2> QED BY <2>1, <2>2
<1>17. FitsWith(hs, s2, d2, own2, X2)
  BY <1>3, <1>15, <1>16 DEF FitsWith, D2
<1> QED BY <1>17 DEF Fits, hs

ClipsAre(D, fs, s, n) ==
  (\A i \in 1..n : D[i] = ClipsOf(s, fs[i].base)) /\ D[n + 1] = ClipsOf(s, Len(s))
LEMMA ClipsAtWith ==
  ASSUME NEW fs, IsSeq(fs), NEW s, NEW n, n = Len(fs), NEW D, D = ClipsAt(fs, s)
  PROVE  ClipsAre(D, fs, s, n)
BY ClipsAtIs DEF ClipsAre

\* A call of the innermost call, which goes on as g.
LEMMA FitsPush ==
  ASSUME NEW fs, IsSeq(fs), NEW n, n = Len(fs), n >= 1, NEW s, NEW d, Fits(fs, s, d),
         NEW f, f = fs[n], NEW g, g.fn = f.fn, g.base = f.base, NEW h, NEW s2,
         \A i \in 1..n : ClipsOf(s2, fs[i].base) = ClipsOf(s, fs[i].base),
         \A i \in 1..n : IsPaint(fs[i].fn) => s2[fs[i].base].blend = s[fs[i].base].blend,
         ClipsOf(s2, h.base) = ClipsOf(s, Len(s)),
         ClipsOf(s2, Len(s2)) = ClipsOf(s, Len(s)),
         \A w \in Seq(Kinds) : Bears(f, s[f.base].blend, w)
           => Bears(g, s[f.base].blend, w \o Final(h)),
         Bears(h, s2[h.base].blend, << >>)
  PROVE  Fits(Append(Replaced(fs, n, g), h), s2, d)
<1>1. PICK own, X : FitsWith(fs, s, d, own, X)
  BY DEF Fits
<1> DEFINE D == ClipsAt(fs, s)
           ms == Replaced(fs, n, g)
           hs == Append(ms, h)
           D2 == ClipsAt(hs, s2)
<1>2. /\ n \in Nat /\ n \in 1..n /\ n + 1 \in 1..n + 1 /\ (n + 1) + 1 = n + 2
      /\ \A i \in 1..n : i \in 1..n + 1 /\ i # n + 1
      /\ \A i \in 1..n + 1 : i = n + 1 \/ i \in 1..n
  BY SeqLen
<1>3. /\ IsSeq(ms) /\ Len(ms) = n /\ ms[n] = g
      /\ \A i \in 1..n : i # n => ms[i] = fs[i]
  BY <1>2, ReplacedSeq
<1> HIDE DEF ms
<1>4. /\ IsSeq(hs) /\ Len(hs) = n + 1 /\ hs[n + 1] = h /\ hs[n] = g
      /\ \A i \in 1..n : i # n => hs[i] = fs[i]
  <2>1. /\ IsSeq(hs) /\ Len(hs) = n + 1 /\ hs[n + 1] = h
        /\ \A i \in 1..n : hs[i] = ms[i]
    BY <1>3, AppendSeq
  <2> QED BY <1>2, <1>3, <2>1
<1> HIDE DEF hs
<1>5. /\ \A i \in 1..n : D[i] = ClipsOf(s, fs[i].base)
      /\ D[n + 1] = ClipsOf(s, Len(s))
  <2> HIDE DEF D
  <2>1. D = ClipsAt(fs, s) /\ n = Len(fs) /\ IsSeq(fs)
    BY DEF D
  <2>2. ClipsAre(D, fs, s, n)
    BY <2>1, ClipsAtWith
  <2> QED BY <2>2, Zenon DEF ClipsAre
<1>6. /\ \A i \in 1..n + 1 : D2[i] = ClipsOf(s2, hs[i].base)
      /\ D2[(n + 1) + 1] = ClipsOf(s2, Len(s2))
  <2>1. /\ \A i \in 1..Len(hs) : D2[i] = ClipsOf(s2, hs[i].base)
        /\ D2[Len(hs) + 1] = ClipsOf(s2, Len(s2))
    BY <1>4, ClipsAtIs, ZenonT(30)
  <2> QED BY <1>4, <2>1
<1>7. Laid(n, D, own, X, d)
  BY <1>1 DEF FitsWith
<1>8. \A i \in 1..n : Bears(fs[i], s[fs[i].base].blend, own[i] \o Rest(fs, i))
  BY <1>1 DEF FitsWith
<1> HIDE DEF D, D2
<1>9. \A i \in 1..n : hs[i].base = fs[i].base /\ hs[i].fn = fs[i].fn
  BY <1>4
<1>10. \A i \in 1..n + 1 : D2[i] = D[i]
  <2> TAKE i \in 1..n + 1
  <2>1. CASE i \in 1..n
    BY <1>5, <1>6, <1>9, <2>1
  <2>2. CASE i = n + 1
    BY <1>2, <1>4, <1>5, <1>6, <2>2
  <2> QED BY <1>2, <2>1, <2>2
<1>11. D2[n + 2] = D[n + 1]
  BY <1>2, <1>5, <1>6
<1> DEFINE own2 == [i \in 1..n + 1 |-> IF i = n + 1 THEN << >> ELSE own[i]]
<1>12. own2[n + 1] = << >> /\ \A i \in 1..n : own2[i] = own[i]
  BY <1>2
<1> HIDE DEF own2
<1>13. PICK X2 : Laid(n + 1, D2, own2, X2, d)
  BY <1>2, <1>7, <1>10, <1>11, <1>12, LaidPush
<1>14. \A i \in 1..n : own[i] \in Seq(Kinds)
  BY <1>7 DEF Laid
<1>15. \A i \in 1..n + 1 : Bears(hs[i], s2[hs[i].base].blend, own2[i] \o Rest(hs, i))
  <2> TAKE i \in 1..n + 1
  <2>1. CASE i = n + 1
    <3>1. Rest(hs, i) = << >> /\ hs[i] = h /\ own2[i] = << >>
      BY <1>2, <1>4, <1>12, <2>1 DEF Rest
    <3>2. << >> \o << >> = << >>
      OBVIOUS
    <3> QED BY <3>1, <3>2
  <2>2. CASE i = n
    <3>1. Rest(hs, i) = Final(h) /\ hs[i] = g /\ own2[i] = own[n]
      BY <1>2, <1>4, <1>12, <2>2 DEF Rest
    <3>2. Rest(fs, n) = << >> /\ own[n] \in Seq(Kinds) /\ own[n] \o << >> = own[n]
      <4>1. Rest(fs, n) = << >> /\ own[n] \in Seq(Kinds)
        BY <1>2, <1>14 DEF Rest
      <4> QED BY <4>1
    <3>3. Bears(f, s[f.base].blend, own[n])
      BY <1>2, <1>8, <3>2
    <3>4. Bears(g, s[f.base].blend, own[n] \o Final(h))
      BY <3>2, <3>3
    <3>5. IsPaint(g.fn) => s2[g.base].blend = s[f.base].blend
      BY <1>2
    <3>6. Bears(g, s2[g.base].blend, own[n] \o Final(h))
      BY <3>4, <3>5, BearsAny
    <3> QED BY <3>1, <3>6
  <2>3. CASE i \in 1..n /\ i # n
    <3>1. hs[i] = fs[i] /\ own2[i] = own[i] /\ i < n /\ i < n + 1 /\ i + 1 \in 1..n
      BY <1>2, <1>4, <1>12, <2>3
    <3>2. hs[i + 1].fn = fs[i + 1].fn
      BY <1>9, <3>1
    <3>3. Rest(hs, i) = Rest(fs, i)
      BY <1>4, <3>1, <3>2 DEF Rest, Final
    <3>4. Bears(fs[i], s[fs[i].base].blend, own[i] \o Rest(fs, i))
      BY <1>8, <2>3
    <3>5. IsPaint(fs[i].fn) => s2[fs[i].base].blend = s[fs[i].base].blend
      BY <2>3
    <3>6. Bears(fs[i], s2[fs[i].base].blend, own[i] \o Rest(fs, i))
      BY <3>4, <3>5, BearsAny
    <3> QED BY <3>1, <3>3, <3>6
  <2> QED BY <1>2, <2>1, <2>2, <2>3
<1>16. FitsWith(hs, s2, d, own2, X2)
  BY <1>4, <1>13, <1>15 DEF FitsWith, D2
<1> QED BY <1>16 DEF Fits, hs, ms

\* The innermost call is done.
LEMMA FitsReturn ==
  ASSUME NEW fs, IsSeq(fs), NEW n, n = Len(fs), n >= 1, NEW s, NEW d, Fits(fs, s, d),
         fs[n].todo = << >>, fs[1].fn # "mask"
  PROVE  Fits(Front(fs), s, d)
<1>1. PICK own, X : FitsWith(fs, s, d, own, X)
  BY DEF Fits
<1> DEFINE D == ClipsAt(fs, s)
           hs == Front(fs)
           D2 == ClipsAt(hs, s)
<1>2. n \in Nat /\ n \in 1..n /\ fs # << >>
  BY SeqLen
<1>3. /\ IsSeq(hs) /\ Len(hs) = n - 1
      /\ \A i \in 1..n - 1 : hs[i] = fs[i]
  BY <1>2, FrontSeq
<1> HIDE DEF hs
<1>4. /\ \A i \in 1..n : D[i] = ClipsOf(s, fs[i].base)
      /\ D[n + 1] = ClipsOf(s, Len(s))
  BY ClipsAtIs
<1>5. /\ \A i \in 1..n - 1 : D2[i] = ClipsOf(s, hs[i].base)
      /\ D2[(n - 1) + 1] = ClipsOf(s, Len(s))
  BY <1>3, ClipsAtIs
<1>6. Laid(n, D, own, X, d)
  BY <1>1 DEF FitsWith
<1>7. \A i \in 1..n : Bears(fs[i], s[fs[i].base].blend, own[i] \o Rest(fs, i))
  BY <1>1 DEF FitsWith
<1>8. \A i \in 1..n : own[i] \in Seq(Kinds)
  BY <1>6 DEF Laid
<1> HIDE DEF D, D2
<1>9. own[n] = Final(fs[n])
  <2>1. Rest(fs, n) = << >> /\ own[n] \in Seq(Kinds)
    BY <1>2, <1>8 DEF Rest
  <2>2. own[n] \o << >> = own[n]
    BY <2>1
  <2>3. Bears(fs[n], s[fs[n].base].blend, own[n])
    BY <1>2, <1>7, <2>1, <2>2
  <2>4. Leads(fs[n].fn, fs[n].soft, s[fs[n].base].blend, << >>, own[n], Final(fs[n]))
    BY <2>3 DEF Bears
  <2> QED BY <2>4, LeadsEnd
<1>10. CASE n = 1
  <2>1. \A i \in 1..n : own[i] = << >>
    BY <1>9, <1>10 DEF Final
  <2>2. D2[1] = D[n + 1]
    BY <1>4, <1>5, <1>10
  <2>3. PICK X2 : Laid(0, D2, own, X2, d)
    BY <1>2, <1>6, <2>1, <2>2, LaidNone
  <2>4. Len(hs) = 0 /\ (\A i \in 1..0 : FALSE)
    BY <1>3, <1>10
  <2>5. FitsWith(hs, s, d, own, X2)
    BY <2>3, <2>4 DEF FitsWith, D2
  <2> QED BY <2>5 DEF Fits, hs
<1>11. CASE n # 1
  <2> DEFINE m == n - 1
             own2 == [i \in 1..m |-> IF i = m THEN own[m] \o own[m + 1] ELSE own[i]]
  <2>1. /\ m \in Nat /\ m >= 1 /\ m + 1 = n /\ m + 2 = n + 1 /\ m \in 1..m /\ m \in 1..n /\ m < n
        /\ \A i \in 1..m : i \in 1..n /\ i # n
        /\ \A i \in 1..m : i # m => i + 1 \in 1..m /\ i < m /\ i < n
    BY <1>2, <1>11
  <2>2. own2[m] = own[m] \o own[m + 1] /\ \A i \in 1..m : i # m => own2[i] = own[i]
    BY <2>1
  <2>3. /\ Len(hs) = m /\ \A i \in 1..m : hs[i] = fs[i]
    BY <1>3
  <2>4. D2[m + 1] = D[m + 2] /\ \A i \in 1..m : D2[i] = D[i]
    <3>1. D2[m + 1] = D[m + 2]
      BY <1>4, <1>5, <2>1
    <3>2. \A i \in 1..m : D2[i] = ClipsOf(s, hs[i].base)
      BY <1>5
    <3>3. \A i \in 1..m : D[i] = ClipsOf(s, fs[i].base)
      BY <1>4, <2>1
    <3> QED BY <2>3, <3>1, <3>2, <3>3
  <2> HIDE DEF m, own2
  <2>5. own[m + 1] \in Clips
    BY <1>9, <2>1 DEF Final, Clips
  <2>6. PICK X2 : Laid(m, D2, own2, X2, d)
    <3>1. m + 1 = n /\ m + 2 = n + 1 /\ m \in Nat /\ m >= 1
      BY <2>1
    <3>2. Merged(m, n, D, own, D2, own2)
      BY <2>2, <2>4, <2>5, <3>1 DEF Merged
    <3> QED BY <1>6, <3>1, <3>2, LaidLess
  <2>7. \A i \in 1..m : Bears(hs[i], s[hs[i].base].blend, own2[i] \o Rest(hs, i))
    <3> TAKE i \in 1..m
    <3>1. CASE i = m
      <4>1. Rest(hs, i) = << >> /\ Rest(fs, m) = Final(fs[m + 1]) /\ hs[i] = fs[m]
        BY <2>1, <2>3, <3>1 DEF Rest
      <4>2. own2[m] = own[m] \o Final(fs[m + 1])
        BY <1>9, <2>1, <2>2
      <4>3. own2[m] \in Seq(Kinds)
        BY <2>1, <2>6 DEF Laid
      <4>4. own2[m] \o << >> = own2[m]
        BY <4>3
      <4>5. Bears(fs[m], s[fs[m].base].blend, own2[m])
        BY <1>7, <2>1, <4>1, <4>2
      <4> QED BY <3>1, <4>1, <4>4, <4>5
    <3>2. CASE i # m
      <4>1. hs[i] = fs[i] /\ own2[i] = own[i] /\ hs[i + 1] = fs[i + 1] /\ i \in 1..n
        BY <2>1, <2>2, <2>3, <3>2
      <4>2. Rest(hs, i) = Rest(fs, i)
        BY <2>1, <2>3, <3>2, <4>1 DEF Rest
      <4> QED BY <1>7, <4>1, <4>2
    <3> QED BY <3>1, <3>2
  <2>8. FitsWith(hs, s, d, own2, X2)
    BY <2>3, <2>6, <2>7 DEF FitsWith, D2
  <2> QED BY <2>8 DEF Fits, hs
<1> QED BY <1>10, <1>11

\* The states have other fields.
LEMMA FitsSame ==
  ASSUME NEW fs, IsSeq(fs), NEW s, NEW d, Fits(fs, s, d), NEW s2,
         \A i \in 1..Len(fs) : ClipsOf(s2, fs[i].base) = ClipsOf(s, fs[i].base),
         \A i \in 1..Len(fs) : IsPaint(fs[i].fn) => s2[fs[i].base].blend = s[fs[i].base].blend,
         ClipsOf(s2, Len(s2)) = ClipsOf(s, Len(s))
  PROVE  Fits(fs, s2, d)
<1>1. PICK own, X : FitsWith(fs, s, d, own, X)
  BY DEF Fits
<1>2. ClipsAt(fs, s2) = ClipsAt(fs, s)
  <2>1. Len(fs) \in Nat
    BY SeqLen
  <2>2. \A i \in 1..Len(fs) + 1 : ClipsOf(s2, IF i <= Len(fs) THEN fs[i].base ELSE Len(s2))
                                  = ClipsOf(s, IF i <= Len(fs) THEN fs[i].base ELSE Len(s))
    <3> TAKE i \in 1..Len(fs) + 1
    <3>1. CASE i <= Len(fs)
      <4>1. i \in 1..Len(fs)
        BY <2>1, <3>1
      <4> QED BY <3>1, <4>1
    <3>2. CASE ~(i <= Len(fs))
      BY <3>2
    <3> QED BY <3>1, <3>2
  <2> QED BY <2>2, Zenon DEF ClipsAt
<1>3. Laid(Len(fs), ClipsAt(fs, s2), own, X, d)
  BY <1>1, <1>2 DEF FitsWith
<1>4. \A i \in 1..Len(fs) : Bears(fs[i], s2[fs[i].base].blend, own[i] \o Rest(fs, i))
  BY <1>1, BearsAny DEF FitsWith
<1> QED BY <1>3, <1>4 DEF Fits, FitsWith

\* The state that the innermost calls were made with is clipped.
LEMMA FitsShift ==
  ASSUME NEW fs, IsSeq(fs), NEW n, n = Len(fs), n >= 1, NEW s, NEW d, Fits(fs, s, d),
         NEW f, f = fs[n], NEW g, g.fn = f.fn, g.base = f.base, NEW s2, NEW d2,
         NEW j \in 1..n, \A i \in j..n : i # n => fs[i].fn = "stream",
         \A i \in 1..n : ClipsOf(s2, fs[i].base)
           = IF i < j THEN ClipsOf(s, fs[i].base) ELSE ClipsOf(s, fs[i].base) + 1,
         ClipsOf(s2, Len(s2)) = ClipsOf(s, Len(s)) + 1,
         \A i \in 1..n : i # n /\ IsPaint(fs[i].fn) =>
           s2[fs[i].base].blend = s[fs[i].base].blend,
         ClipOpened(d, d2),
         \A w : Bears(f, s[f.base].blend, w) => w \in Clips /\ Bears(g, s2[f.base].blend, w)
  PROVE  Fits(Replaced(fs, n, g), s2, d2)
<1>1. PICK own, X : FitsWith(fs, s, d, own, X)
  BY DEF Fits
<1> DEFINE D == ClipsAt(fs, s)
           hs == Replaced(fs, n, g)
           D2 == ClipsAt(hs, s2)
<1>2. n \in Nat /\ n \in 1..n /\ n \in 1..n + 1 /\ n + 1 \in 1..n + 1
  BY SeqLen
<1>3. /\ IsSeq(hs) /\ Len(hs) = n /\ hs[n] = g
      /\ \A i \in 1..n : i # n => hs[i] = fs[i]
  BY <1>2, ReplacedSeq
<1>4. /\ \A i \in 1..n : D[i] = ClipsOf(s, fs[i].base)
      /\ D[n + 1] = ClipsOf(s, Len(s))
  BY ClipsAtIs
<1> HIDE DEF hs
<1>5. /\ \A i \in 1..n : D2[i] = ClipsOf(s2, hs[i].base)
      /\ D2[n + 1] = ClipsOf(s2, Len(s2))
  BY <1>3, ClipsAtIs
<1>6. Laid(n, D, own, X, d)
  BY <1>1 DEF FitsWith
<1>7. \A i \in 1..n : Bears(fs[i], s[fs[i].base].blend, own[i] \o Rest(fs, i))
  BY <1>1 DEF FitsWith
<1> HIDE DEF D, D2
<1>8. \A i \in 1..n + 1 : D2[i] = IF i < j THEN D[i] ELSE D[i] + 1
  <2> TAKE i \in 1..n + 1
  <2>1. CASE i = n + 1
    <3>1. ~(i < j)
      BY <1>2, <2>1
    <3> QED BY <1>4, <1>5, <2>1, <3>1
  <2>2. CASE i # n + 1
    <3>1. i \in 1..n
      BY <1>2, <2>2
    <3>2. hs[i].base = fs[i].base
      BY <1>3, <3>1
    <3> QED BY <1>4, <1>5, <3>1, <3>2
  <2> QED BY <2>1, <2>2
<1>9. \A i \in 1..n : own[i] \in Seq(Kinds)
  BY <1>6 DEF Laid
<1>10. own[n] \in Clips /\ Bears(g, s2[f.base].blend, own[n])
  <2>1. Rest(fs, n) = << >> /\ own[n] \in Seq(Kinds)
    BY <1>2, <1>9 DEF Rest
  <2>2. own[n] \o << >> = own[n]
    BY <2>1
  <2>3. Bears(f, s[f.base].blend, own[n])
    BY <1>2, <1>7, <2>1, <2>2
  <2> QED BY <2>3
<1>11. \A i \in j..n : own[i] \in Clips
  <2> TAKE i \in j..n
  <2>1. CASE i = n
    BY <1>10, <2>1
  <2>2. CASE i # n
    <3>1. i \in 1..n /\ fs[i].fn = "stream"
      BY <2>2
    <3>2. own[i] \o Rest(fs, i) = << >>
      BY <1>7, <3>1 DEF Bears
    <3>3. own[i] \in Seq(Kinds)
      BY <1>9, <3>1
    <3>4. PICK r : r = Rest(fs, i) /\ (r = << >> \/ r = <<"clip">>)
      BY DEF Rest, Final
    <3>5. own[i] = << >>
      BY <3>2, <3>3, <3>4
    <3> QED BY <3>5 DEF Clips
  <2> QED BY <2>1, <2>2
<1>12. Shifted(n, j, D, D2)
  BY <1>8 DEF Shifted
<1>13. PICK X2 : Laid(n, D2, own, X2, d2)
  BY <1>2, <1>6, <1>11, <1>12, LaidShift
<1>14. \A i \in 1..n : Bears(hs[i], s2[hs[i].base].blend, own[i] \o Rest(hs, i))
  <2> TAKE i \in 1..n
  <2>1. CASE i = n
    <3>1. Rest(hs, i) = << >> /\ hs[i] = g
      BY <1>2, <1>3, <2>1 DEF Rest
    <3>2. own[n] \o << >> = own[n]
      BY <1>2, <1>9
    <3> QED BY <1>10, <2>1, <3>1, <3>2
  <2>2. CASE i # n
    <3>1. hs[i] = fs[i] /\ i < n /\ i + 1 \in 1..n
      BY <1>2, <1>3, <2>2
    <3>2. hs[i + 1].fn = fs[i + 1].fn
      BY <1>3, <3>1
    <3>3. Rest(hs, i) = Rest(fs, i)
      BY <1>3, <3>1, <3>2 DEF Rest, Final
    <3>4. Bears(fs[i], s[fs[i].base].blend, own[i] \o Rest(fs, i))
      BY <1>7
    <3>5. IsPaint(fs[i].fn) => s2[fs[i].base].blend = s[fs[i].base].blend
      BY <2>2
    <3>6. Bears(fs[i], s2[fs[i].base].blend, own[i] \o Rest(fs, i))
      BY <3>4, <3>5, BearsAny
    <3> QED BY <3>1, <3>3, <3>6
  <2> QED BY <2>1, <2>2
<1>15. FitsWith(hs, s2, d2, own, X2)
  BY <1>3, <1>13, <1>14 DEF FitsWith, D2
<1> QED BY <1>15 DEF Fits, hs

LEMMA KindSeqs ==
  /\ << >> \in Seq(Kinds) /\ (\A x \in Kinds : <<x>> \in Seq(Kinds))
  /\ "clip" \in Kinds /\ "group" \in Kinds /\ "tile" \in Kinds /\ "mask" \in Kinds
  /\ \A s, t \in Seq(Kinds) : s \o t \in Seq(Kinds) /\ Len(s \o t) = Len(s) + Len(t)
  /\ \A s \in Seq(Kinds) : /\ s \o << >> = s /\ << >> \o s = s /\ Len(s) \in Nat
                           /\ \A x \in Kinds : Append(s, x) \in Seq(Kinds)
  /\ \A f : Final(f) \in Seq(Kinds) /\ Len(Final(f)) \in Nat
  /\ \A m : SoftOf(m) \in Seq(Kinds) /\ SoftOf(m) \in Clips
  /\ Clips \subseteq Seq(Kinds)
<1>1. << >> \in Seq(Kinds) /\ \A x \in Kinds : <<x>> \in Seq(Kinds)
  OBVIOUS
<1>2. "clip" \in Kinds /\ "group" \in Kinds /\ "tile" \in Kinds /\ "mask" \in Kinds
  BY DEF Kinds
<1>3. \A s, t \in Seq(Kinds) : s \o t \in Seq(Kinds) /\ Len(s \o t) = Len(s) + Len(t)
  OBVIOUS
<1>4. \A s \in Seq(Kinds) : /\ s \o << >> = s /\ << >> \o s = s /\ Len(s) \in Nat
                            /\ \A x \in Kinds : Append(s, x) \in Seq(Kinds)
  OBVIOUS
<1>5. \A f : Final(f) \in Seq(Kinds)
  BY <1>1, <1>2, Zenon DEF Final
<1>6. \A m : SoftOf(m) \in Seq(Kinds) /\ SoftOf(m) \in Clips
  BY <1>1, <1>2, Zenon DEF SoftOf, Clips
<1>7. Clips \subseteq Seq(Kinds)
  BY <1>1, <1>2, Zenon DEF Clips
<1> QED BY <1>1, <1>2, <1>3, <1>4, <1>5, <1>6, <1>7

\* What the outermost calls owe: what they have open, if the last of them goes on otherwise.
LEMMA OwesPart ==
  ASSUME NEW fs, IsSeq(fs), NEW n, n = Len(fs), NEW d, NEW own, NEW X,
         FitsWith(fs, gs, d, own, X), \A i \in 1..n : IsSeq(fs[i].todo),
         fs[1].fn # "mask", NEW k \in 1..n,
         NEW hs, IsSeq(hs), Len(hs) = k, \A i \in 1..k : i # k => hs[i] = fs[i],
         NEW c \in Int, Closes(hs[k]) = c, NEW D, D = ClipsAt(fs, gs)
  PROVE  Owes(hs) = (X[k] - D[k]) + Len(Final(fs[k])) + c
<1>1. n \in Nat /\ k \in Nat /\ k >= 1 /\ k <= n /\ 1 \in 1..n
  BY SeqLen
<1>2. Laid(n, D, own, X, d)
  BY DEF FitsWith
<1>3. /\ \A i \in 1..n + 1 : X[i] \in Nat /\ D[i] \in Nat
      /\ \A i \in 1..n : /\ own[i] \in Seq(Kinds) /\ Len(own[i]) \in Nat
                         /\ X[i + 1] - D[i + 1] = (X[i] - D[i]) + Len(own[i])
  BY <1>1, <1>2, LaidSums
<1> DEFINE G == [i \in 1..n |-> (X[i] - D[i]) + Len(Final(fs[i]))]
<1>4. \A i \in 1..n : G[i] = (X[i] - D[i]) + Len(Final(fs[i]))
  OBVIOUS
<1> HIDE DEF G
<1>5. \A f : Len(Final(f)) \in Nat
  BY DEF Final
<1>6. \A i \in 1..n : G[i] \in Int
  <2> TAKE i \in 1..n
  <2>1. i \in 1..n + 1
    BY <1>1
  <2>2. X[i] \in Nat /\ D[i] \in Nat /\ Len(Final(fs[i])) \in Nat
    BY <1>3, <1>5, <2>1
  <2> QED BY <1>4, <2>2
<1>7. G[1] = 0
  <2>1. X[1] = D[1] /\ X[1] \in Nat
    BY <1>1, <1>2, <1>3 DEF Laid
  <2>2. Len(Final(fs[1])) = 0
    BY DEF Final
  <2> QED BY <1>1, <1>4, <2>1, <2>2
<1>8. \A i \in 1..n : i # n => Closes(fs[i]) \in Int /\ G[i + 1] = G[i] + Closes(fs[i])
  <2> TAKE i \in 1..n
  <2> HAVE i # n
  <2>1. i + 1 \in 1..n /\ i < n
    BY <1>1
  <2> DEFINE r == Final(fs[i + 1])
             q == Final(fs[i])
  <2>2. Bears(fs[i], gs[fs[i].base].blend, own[i] \o r)
    BY <2>1 DEF FitsWith, Rest
  <2>3. Closes(fs[i]) = Len(own[i] \o r) - Len(q)
    <3>1. Leads(fs[i].fn, fs[i].soft, gs[fs[i].base].blend, fs[i].todo, own[i] \o r, q)
      BY <2>2 DEF Bears
    <3> HIDE DEF r, q
    <3> QED BY <3>1, ClosesIs
  <2>4. PICK s, t : s = own[i] /\ t = r
    OBVIOUS
  <2>5. s \in Seq(Kinds) /\ t \in Seq(Kinds)
    BY <1>3, <2>4, KindSeqs
  <2>6. Len(s \o t) = Len(s) + Len(t)
    BY <2>5
  <2>7. PICK a, b, e, x, y, z, g, h :
          /\ a = Len(own[i]) /\ b = Len(r) /\ e = Len(q) /\ x = X[i] - D[i]
          /\ y = X[i + 1] - D[i + 1] /\ z = Closes(fs[i]) /\ g = G[i] /\ h = G[i + 1]
    OBVIOUS
  <2>8. /\ a \in Nat /\ b \in Nat /\ e \in Nat /\ y = x + a
        /\ g = x + e /\ h = y + b
    <3>1. a \in Nat /\ b \in Nat /\ e \in Nat
      BY <1>3, <1>5, <2>7, Zenon
    <3>2. y = x + a
      BY <1>3, <2>7, Zenon
    <3>3. g = x + e
      BY <1>4, <2>7, Zenon
    <3>4. h = y + b
      BY <1>4, <2>1, <2>7, Zenon
    <3> QED BY <3>1, <3>2, <3>3, <3>4
  <2>9. z = (a + b) - e
    BY <2>3, <2>4, <2>6, <2>7
  <2>10. x \in Int
    <3>1. i \in 1..n + 1
      BY <1>1
    <3>2. X[i] \in Nat /\ D[i] \in Nat
      BY <1>3, <3>1
    <3> QED BY <2>7, <3>2
  <2>11. z \in Int /\ h = g + z
    BY <2>8, <2>9, <2>10
  <2> QED BY <2>7, <2>11
<1> DEFINE ns == [i \in 1..k |-> Closes(hs[i])]
           R == [i \in 0..k |-> IF i < k THEN G[i + 1] ELSE G[k] + c]
<1>9. \A i \in 0..k : R[i] = IF i < k THEN G[i + 1] ELSE G[k] + c
  OBVIOUS
<1>10. Owes(hs) = Total(k, ns)
  BY <1>1 DEF Owes
<1>11. \A i \in 1..k : ns[i] = Closes(hs[i])
  OBVIOUS
<1> HIDE DEF ns, R
<1>12. R[0] = 0
  BY <1>1, <1>7, <1>9
<1>13. \A i \in 1..k : R[i] \in Int /\ ns[i] \in Int /\ R[i] = R[i - 1] + ns[i]
  <2> TAKE i \in 1..k
  <2>1. i - 1 \in 0..k /\ i \in 0..k /\ i - 1 < k /\ (i - 1) + 1 = i /\ i \in 1..n
    BY <1>1
  <2>2. R[i - 1] = G[i]
    BY <1>9, <2>1
  <2>3. CASE i = k
    <3>1. R[i] = G[k] + c /\ ns[i] = c
      BY <1>1, <1>9, <1>11, <2>1, <2>3
    <3>2. G[k] \in Int
      BY <1>6
    <3> QED BY <2>2, <2>3, <3>1, <3>2
  <2>4. CASE i # k
    <3>1. i < k /\ i # n /\ i + 1 \in 1..n
      BY <1>1, <2>1, <2>4
    <3>2. R[i] = G[i + 1] /\ ns[i] = Closes(fs[i])
      BY <1>9, <1>11, <2>1, <2>4, <3>1
    <3>3. Closes(fs[i]) \in Int /\ G[i + 1] = G[i] + Closes(fs[i]) /\ G[i + 1] \in Int
      BY <1>6, <1>8, <2>1, <3>1
    <3> QED BY <2>2, <3>2, <3>3
  <2> QED BY <2>3, <2>4
<1>14. Total(k, ns) = R[k]
  <2>1. Sums(ns, k, R)
    BY <1>11, <1>12, <1>13 DEF Sums
  <2> QED BY <1>1, <2>1, TotalIs
<1>15. R[k] = G[k] + c
  BY <1>1, <1>9
<1> QED BY <1>4, <1>10, <1>14, <1>15

\* what the calls owe, together
LEMMA OwesIs ==
  ASSUME NEW fs, IsSeq(fs), NEW n, n = Len(fs), n >= 1, NEW d, NEW own, NEW X,
         FitsWith(fs, gs, d, own, X), \A i \in 1..n : IsSeq(fs[i].todo),
         fs[1].fn # "mask", NEW D, D = ClipsAt(fs, gs)
  PROVE  Owes(fs) = X[n + 1] - D[n + 1]
<1>1. n \in Nat /\ n \in 1..n
  BY SeqLen
<1>2. Laid(n, D, own, X, d)
  BY DEF FitsWith
<1>3. /\ own[n] \in Seq(Kinds) /\ Len(own[n]) \in Nat
      /\ X[n + 1] - D[n + 1] = (X[n] - D[n]) + Len(own[n])
      /\ X[n] - D[n] \in Int
  <2>1. n \in 1..n + 1
    BY <1>1
  <2> QED BY <1>1, <1>2, <2>1, LaidSums
<1>4. Closes(fs[n]) = Len(own[n]) - Len(Final(fs[n]))
  <2>1. Rest(fs, n) = << >>
    BY <1>1 DEF Rest
  <2>4. Bears(fs[n], gs[fs[n].base].blend, own[n] \o << >>)
    BY <1>1, <2>1 DEF FitsWith
  <2>2. own[n] \o << >> = own[n]
    BY <1>3
  <2>3. Leads(fs[n].fn, fs[n].soft, gs[fs[n].base].blend, fs[n].todo, own[n], Final(fs[n]))
    BY <2>2, <2>4 DEF Bears
  <2> QED BY <1>1, <2>3, ClosesIs
<1>5. Len(Final(fs[n])) \in Nat
  BY DEF Final
<1>6. PICK c : c = Closes(fs[n])
  OBVIOUS
<1>7. c \in Int /\ Len(Final(fs[n])) + c = Len(own[n])
  BY <1>3, <1>4, <1>5, <1>6
<1>8. Owes(fs) = (X[n] - D[n]) + Len(Final(fs[n])) + c
  BY <1>1, <1>6, <1>7, OwesPart
<1> QED BY <1>3, <1>5, <1>7, <1>8

\* what is open is open below
LEMMA LaidNothing ==
  ASSUME NEW n \in Nat, NEW D, NEW own, NEW X, NEW d, Laid(n, D, own, X, d),
         NEW k \in 1..n + 1, X[n + 1] - D[n + 1] <= X[k] - D[k]
  PROVE  \A i \in k..n : own[i] = << >>
<1> SUFFICES ASSUME NEW i \in k..n PROVE own[i] = << >>
  OBVIOUS
<1>1. i \in 1..n /\ i \in 1..n + 1 /\ i + 1 \in 1..n + 1 /\ n + 1 \in 1..n + 1 /\ k <= i /\ i + 1 <= n + 1
  OBVIOUS
<1>2. X[k] - D[k] <= X[i] - D[i] /\ X[i + 1] - D[i + 1] <= X[n + 1] - D[n + 1]
  BY <1>1, LaidSums
<1>3. /\ own[i] \in Seq(Kinds) /\ Len(own[i]) \in Nat
      /\ X[i + 1] - D[i + 1] = (X[i] - D[i]) + Len(own[i])
      /\ X[k] \in Nat /\ D[k] \in Nat /\ X[i] \in Nat /\ D[i] \in Nat
      /\ X[n + 1] \in Nat /\ D[n + 1] \in Nat
  BY <1>1, LaidSums
<1>4. PICK a, r, s, t, u : /\ a = Len(own[i]) /\ r = X[k] - D[k] /\ s = X[i] - D[i]
                           /\ t = X[i + 1] - D[i + 1] /\ u = X[n + 1] - D[n + 1]
  OBVIOUS
<1>5. /\ r \in Int /\ s \in Int /\ u \in Int
  <2>1. \A x, y \in Nat : x - y \in Int
    OBVIOUS
  <2> QED BY <1>3, <1>4, <2>1, Zenon
<1>6. r <= s /\ t <= u /\ u <= r /\ t = s + a /\ a \in Nat
  BY <1>2, <1>3, <1>4, Zenon
<1>7. a = 0
  BY <1>5, <1>6
<1>8. \A v \in Seq(Kinds) : Len(v) = 0 => v = << >>
  OBVIOUS
<1> QED BY <1>3, <1>4, <1>7, <1>8, Zenon

-----------------------------------------------------------------------------
(* The steps of a call, one by one                                         *)

SoftensIn(fn, b, t) ==
  \A j \in 1..Len(t) : t[j] = Do("softmask") =>
    \A m \in Forms \cup {None} :
      Leads(fn, m, b, SubSeq(t, j + 1, Len(t)), SoftOf(m), << >>)

LEMMA SuffixIs ==
  ASSUME NEW S, NEW x \in S, NEW t \in Seq(S), NEW s, s = <<x>> \o t, NEW j \in 1..Len(t) + 1
  PROVE  SubSeq(s, j + 1, Len(s)) = SubSeq(t, j, Len(t))
<1>1. s \in Seq(S) /\ Len(s) = Len(t) + 1 /\ s[1] = x /\ \A i \in 1..Len(t) : s[i + 1] = t[i]
  BY ConcatProperties
<1>2. Len(t) \in Nat
  OBVIOUS
<1> DEFINE n == Len(t)
           A == SubSeq(s, j + 1, Len(s))
           B == SubSeq(t, j, n)
           k == n + 1 - j
<1>3. k \in Nat
  BY <1>2
<1>4. /\ A \in Seq(S) /\ Len(A) = k /\ \A i \in 1..k : A[i] = s[(j + 1) + i - 1]
  BY <1>1, <1>2
<1>5. /\ B \in Seq(S) /\ Len(B) = k /\ \A i \in 1..k : B[i] = t[j + i - 1]
  BY <1>2
<1>6. \A i \in 1..k : (j + 1) + i - 1 = (j + i - 1) + 1 /\ j + i - 1 \in 1..n
  BY <1>2
<1> HIDE DEF A, B, k
<1>7. \A i \in 1..k : A[i] = B[i]
  BY <1>1, <1>4, <1>5, <1>6
<1> QED BY <1>3, <1>4, <1>5, <1>7, SeqEqual DEF A, B

LEMMA HeadAnd ==
  ASSUME NEW S, NEW s \in Seq(S), s # << >>
  PROVE  s = <<s[1]>> \o Tail(s)
OBVIOUS

\* one step more, or less
LEMMA SoftensCons ==
  ASSUME NEW fn, NEW b, NEW x, NEW t, IsSeq(t), NEW s, s = <<x>> \o t
  PROVE  /\ SoftensIn(fn, b, s) => SoftensIn(fn, b, t)
         /\ SoftensIn(fn, b, t) /\ x # Do("softmask") => SoftensIn(fn, b, s)
         /\ SoftensIn(fn, b, t) /\ (\A m \in Forms \cup {None} : Leads(fn, m, b, t, SoftOf(m), << >>))
              => SoftensIn(fn, b, s)
         /\ SoftensIn(fn, b, s) /\ x = Do("softmask")
              => \A m \in Forms \cup {None} : Leads(fn, m, b, t, SoftOf(m), << >>)
<1>1. PICK S0 : t \in Seq(S0)
  BY DEF IsSeq
<1> DEFINE S == S0 \cup {x}
<1>2. t \in Seq(S) /\ x \in S /\ Len(t) \in Nat
  BY <1>1
<1>3. s \in Seq(S) /\ Len(s) = Len(t) + 1 /\ s[1] = x /\ \A i \in 1..Len(t) : s[i + 1] = t[i]
  BY <1>2, ConcatProperties
<1>4. \A j \in 1..Len(t) + 1 : SubSeq(s, j + 1, Len(s)) = SubSeq(t, j, Len(t))
  BY <1>2, SuffixIs
<1>5. SubSeq(t, 1, Len(t)) = t
  BY <1>2
<1> HIDE DEF S
<1>6. \A i \in 1..Len(t) : i + 1 \in 1..Len(s) /\ i + 1 \in 1..Len(t) + 1
  BY <1>2, <1>3
<1>7. \A j \in 1..Len(s) : j = 1 \/ \E i \in 1..Len(t) : j = i + 1
  <2> TAKE j \in 1..Len(s)
  <2>1. j = 1 \/ (j - 1 \in 1..Len(t) /\ j = (j - 1) + 1)
    BY <1>2, <1>3
  <2> QED BY <2>1
<1>8. 1 \in 1..Len(s) /\ 1 \in 1..Len(t) + 1 /\ SubSeq(s, 1 + 1, Len(s)) = t
  <2>1. 1 \in 1..Len(s) /\ 1 \in 1..Len(t) + 1
    BY <1>2, <1>3
  <2> QED BY <1>4, <1>5, <2>1
<1>9. ASSUME SoftensIn(fn, b, s)
      PROVE  SoftensIn(fn, b, t)
  <2> SUFFICES ASSUME NEW i \in 1..Len(t), t[i] = Do("softmask"), NEW m \in Forms \cup {None}
               PROVE  Leads(fn, m, b, SubSeq(t, i + 1, Len(t)), SoftOf(m), << >>)
    BY DEF SoftensIn
  <2>1. s[i + 1] = Do("softmask") /\ i + 1 \in 1..Len(s)
    BY <1>3, <1>6
  <2>2. Leads(fn, m, b, SubSeq(s, (i + 1) + 1, Len(s)), SoftOf(m), << >>)
    BY <1>9, <2>1 DEF SoftensIn
  <2>3. SubSeq(s, (i + 1) + 1, Len(s)) = SubSeq(t, i + 1, Len(t))
    BY <1>4, <1>6
  <2> QED BY <2>2, <2>3
<1>10. ASSUME SoftensIn(fn, b, t),
              x = Do("softmask") => \A m \in Forms \cup {None} : Leads(fn, m, b, t, SoftOf(m), << >>)
       PROVE  SoftensIn(fn, b, s)
  <2> SUFFICES ASSUME NEW j \in 1..Len(s), s[j] = Do("softmask"), NEW m \in Forms \cup {None}
               PROVE  Leads(fn, m, b, SubSeq(s, j + 1, Len(s)), SoftOf(m), << >>)
    BY DEF SoftensIn
  <2>1. CASE j = 1
    BY <1>3, <1>8, <1>10, <2>1
  <2>2. ASSUME NEW i \in 1..Len(t), j = i + 1
        PROVE  Leads(fn, m, b, SubSeq(s, j + 1, Len(s)), SoftOf(m), << >>)
    <3>1. t[i] = Do("softmask")
      BY <1>3, <2>2
    <3>2. Leads(fn, m, b, SubSeq(t, i + 1, Len(t)), SoftOf(m), << >>)
      BY <1>10, <3>1 DEF SoftensIn
    <3>3. SubSeq(s, (i + 1) + 1, Len(s)) = SubSeq(t, i + 1, Len(t))
      BY <1>4, <1>6
    <3> QED BY <2>2, <3>2, <3>3
  <2> QED BY <1>7, <2>1, <2>2
<1>11. ASSUME SoftensIn(fn, b, s), x = Do("softmask"), NEW m \in Forms \cup {None}
       PROVE  Leads(fn, m, b, t, SoftOf(m), << >>)
  <2>1. Leads(fn, m, b, SubSeq(s, 1 + 1, Len(s)), SoftOf(m), << >>)
    BY <1>3, <1>8, <1>11 DEF SoftensIn
  <2> QED BY <1>8, <2>1
<1> QED BY <1>9, <1>10, <1>11

LEMMA SoftensNone ==
  ASSUME NEW fn, NEW b
  PROVE  SoftensIn(fn, b, << >>)
<1>1. Len(<< >>) = 0
  OBVIOUS
<1>2. 1..0 = {}
  OBVIOUS
<1> QED BY <1>1, <1>2 DEF SoftensIn

\* none of them is a soft mask
LEMMA SoftensNever ==
  ASSUME NEW fn, NEW b, NEW t, \A j \in 1..Len(t) : t[j] # Do("softmask")
  PROVE  SoftensIn(fn, b, t)
BY DEF SoftensIn

-----------------------------------------------------------------------------
(* The begin of a form                                                     *)

\* what is first and what is next in a form that has not come to fz_always
InOrder(a, c) ==
  \/ a = Do("contents") /\ c = Do("always")
  \/ a = Do("clip") /\ c = Do("contents")
  \/ a = Do("reset") /\ c = Do("clip")
  \/ a = Open("group") /\ c = Do("reset")
  \/ a = Do("softmask") /\ c = Open("group")
LEMMA PrefixHeads ==
  ASSUME NEW p \in FormPrefixes, p # << >>
  PROVE  \/ p[1] = Do("contents") /\ Tail(p) = << >>
         \/ Tail(p) # << >> /\ InOrder(p[1], Tail(p)[1]) /\ p[1] # Do("contents")
<1> DEFINE B == <<Do("clip"), Do("contents")>>
<1>1. B \in Seq(FormWords) /\ Tail(B) = <<Do("contents")>> /\ B[1] = Do("clip") /\ B # << >>
  BY FormWordsAre, FewIn, Tuples
<1>2. \A a, c : a[1] # c[1] => a # c
  OBVIOUS
<1>3. CASE p = <<Do("contents")>>
  BY <1>3, Tuples
<1>4. CASE p = B
  <2>1. Tail(p) # << >> /\ Tail(p)[1] = Do("contents") /\ p[1] = Do("clip")
    BY <1>1, <1>4, Tuples
  <2> QED BY <2>1, <1>2, StepNames DEF InOrder
<1>5. CASE p = <<Do("reset")>> \o B
  <2>1. Tail(p) = B /\ p[1] = Do("reset")
    BY <1>1, <1>5, FormWordsAre, FirstOne
  <2>2. p[1] # Do("contents")
    BY <2>1, <1>2, StepNames
  <2>3. Tail(p) # << >> /\ Tail(p)[1] = Do("clip")
    BY <2>1, <1>1
  <2> QED BY <2>1, <2>2, <2>3 DEF InOrder
<1>6. CASE p = <<Open("group"), Do("reset")>> \o B
  <2>1. Tail(p) = <<Do("reset")>> \o B /\ p[1] = Open("group")
    BY <1>1, <1>6, FormWordsAre, FirstOfTwo
  <2>2. Tail(p) # << >> /\ Tail(p)[1] = Do("reset")
    BY <1>1, <2>1, FormWordsAre, FirstOne
  <2> QED BY <2>1, <2>2, <1>2, StepNames DEF InOrder
<1>7. CASE p = <<Do("softmask"), Open("group"), Do("reset")>> \o B
  <2>1. Tail(p) = <<Open("group"), Do("reset")>> \o B /\ p[1] = Do("softmask")
    <3>1. <<Do("softmask"), Open("group"), Do("reset")>> \in Seq(FormWords)
      BY FormWordsAre, FewIn
    <3>2. LET t == <<Do("softmask"), Open("group"), Do("reset")>>
          IN  t # << >> /\ t[1] = Do("softmask") /\ Tail(t) = <<Open("group"), Do("reset")>>
      BY Tuples
    <3> QED BY <1>1, <1>7, <3>1, <3>2, FirstOf
  <2>2. Tail(p) # << >> /\ Tail(p)[1] = Open("group")
    <3>1. Open("group") \in FormWords /\ Do("reset") \in FormWords
      BY FormWordsAre
    <3>2. <<Open("group"), Do("reset")>> \o B # << >>
          /\ (<<Open("group"), Do("reset")>> \o B)[1] = Open("group")
      BY <1>1, <3>1, FirstOfTwo
    <3> QED BY <2>1, <3>2
  <2> QED BY <2>1, <2>2, <1>2, StepNames DEF InOrder
<1> QED BY <1>3, <1>4, <1>5, <1>6, <1>7 DEF FormPrefixes

LEMMA FormHeads ==
  ASSUME NEW x, NEW s \in Before(x)
  PROVE  \/ s = FormEnd(x) /\ s[1] = Do("always")
         \/ s # FormEnd(x) /\ Tail(s) # << >> /\ InOrder(s[1], Tail(s)[1])
<1>1. PICK p \in FormPrefixes : s = p \o FormEnd(x)
  BY DEF Before
<1>2. p \in Seq(FormWords) /\ FormEnd(x) \in Seq(FormWords) /\ FormEnd(x) # << >>
      /\ FormEnd(x)[1] = Do("always") /\ << >> \o FormEnd(x) = FormEnd(x)
  BY FormTypes, FormEndIs, EmptyConcat
<1>3. CASE p = << >>
  BY <1>1, <1>2, <1>3
<1>4. CASE p # << >>
  <2>1. s # << >> /\ s[1] = p[1] /\ Tail(s) = Tail(p) \o FormEnd(x) /\ Tail(p) \in Seq(FormWords)
    BY <1>1, <1>2, <1>4, FirstOf, HeadTail
  <2>2. s # FormEnd(x)
    <3>1. s[1][1] # "always"
      BY <1>4, <2>1, PrefixTail
    <3> QED BY <1>2, <3>1, StepNames
  <2>3. CASE p[1] = Do("contents") /\ Tail(p) = << >>
    BY <1>2, <2>1, <2>2, <2>3 DEF InOrder
  <2>4. CASE Tail(p) # << >> /\ InOrder(p[1], Tail(p)[1])
    <3>1. Tail(s) # << >> /\ Tail(s)[1] = Tail(p)[1]
      BY <1>2, <2>1, <2>4, FirstOf, SMTT(30)
    <3> QED BY <2>1, <2>2, <2>4, <3>1
  <2> QED BY <1>4, <2>3, <2>4, PrefixHeads
<1> QED BY <1>3, <1>4

\* steps that open and close nothing
Resting ==
  {"token", "down", "leave", "always", "softmask", "reset", "clip", "contents", "gsave",
   "grestore", "draw", "pattern", "cell", "form", "page", "annot", "new", "appearance", "free"}
LEMMA TurnsRest ==
  ASSUME NEW fn, NEW m, NEW b, NEW step, NEW k, NEW k2, Turns(fn, m, b, step, k, k2)
  PROVE  step[1] \in Resting => k2 = k
<1>1. step[1] \in Resting => step[1] \notin {"open", "close", "unmask", "end blend", "end mask"}
  BY Zenon DEF Resting
<1> QED BY <1>1, Zenon DEF Turns
LEMMA TurnsOpen ==
  ASSUME NEW fn, NEW m, NEW b, NEW kind, NEW step, step = Open(kind), NEW k, NEW k2,
         Turns(fn, m, b, step, k, k2)
  PROVE  k2 = Append(k, kind)
<1>1. step[1] = "open" /\ step[2] = kind
  BY DEF Open
<1>2. step[1] = "open" => k2 = Append(k, step[2])
  BY Zenon DEF Turns
<1> QED BY <1>1, <1>2

\* steps that are not of the begin of a form's group
LEMMA NotOpening ==
  ASSUME NEW z
  PROVE  /\ z[1] \notin {"softmask", "open"} => z # Do("softmask") /\ z # Open("group")
         /\ z = Open("group") => z # Do("softmask")
<1>1. Do("softmask")[1] = "softmask" /\ Open("group")[1] = "open"
  BY StepNames
<1> QED BY <1>1

LEMMA ShapedSeqs ==
  ASSUME NEW f, Shaped(f)
  PROVE  IsRec(f) /\ IsSeq(f.todo) /\ IsSeq(f.onErr) /\ f.todo \in Seq(StepsOf(f.fn))
BY DEF Shaped, IsFrame, IsRec, IsSeq

\* A call goes past its first step.
LEMMA BearsPast ==
  ASSUME NEW f, Shaped(f), f.todo # << >>, NEW b, NEW w, Bears(f, b, w),
         NEW g, g.fn = f.fn, g.soft = f.soft, g.todo = Tail(f.todo), g.onErr \in {f.onErr, << >>}
  PROVE  \E v \in Seq(Kinds) : Turns(f.fn, f.soft, b, f.todo[1], w, v) /\ Bears(g, b, v)
<1> DEFINE S == StepsOf(f.fn)
           t == Tail(f.todo)
           a == f.todo[1]
<1>1. f.todo \in Seq(S) /\ a \in S /\ t \in Seq(S) /\ IsSeq(f.todo)
  BY ShapedSeqs, HeadTail
<1> HIDE DEF S
<1>2. Final(g) = Final(f)
  BY DEF Final
<1>3. PICK v \in Seq(Kinds) : Turns(f.fn, f.soft, b, a, w, v) /\ Leads(f.fn, f.soft, b, t, v, Final(f))
  <2>1. Leads(f.fn, f.soft, b, f.todo, w, Final(f))
    BY DEF Bears
  <2> QED BY <1>1, <2>1, LeadsFirst
<1>4. Softens(g, b)
  <2>1. f.todo = <<a>> \o t /\ IsSeq(t)
    BY <1>1, HeadAnd DEF IsSeq
  <2>2. SoftensIn(f.fn, b, f.todo)
    BY DEF Bears, Softens, SoftensIn
  <2>3. SoftensIn(f.fn, b, t)
    BY <2>1, <2>2, SoftensCons, ZenonT(30)
  <2> QED BY <2>3 DEF Softens, SoftensIn
<1>5. g.fn = "stream" => v = << >>
  <2> SUFFICES ASSUME g.fn = "stream"
               PROVE  v = << >>
    OBVIOUS
  <2>1. a[1] \in {"token", "down", "leave"}
    BY StepIn
  <2>2. a[1] \in Resting
    BY <2>1 DEF Resting
  <2>3. v = w
    BY <1>3, <2>2, TurnsRest
  <2> QED BY <2>3 DEF Bears
<1>6. Rescues(g, b, v)
  <2> SUFFICES ASSUME g.fn = "form", g.onErr # << >>
               PROVE  /\ Leads(g.fn, g.soft, b, g.onErr, IF Opening(g) THEN Append(v, "group") ELSE v, << >>)
                      /\ g.todo # << >> => g.todo[1] # Do("softmask")
    BY DEF Rescues
  <2>1. f.fn = "form" /\ g.onErr = f.onErr /\ f.onErr # << >>
    OBVIOUS
  <2>2. f.todo \in Before(f.form)
    BY <2>1, FormEndIs DEF Shaped, IsForm
  <2>3. Leads(f.fn, f.soft, b, f.onErr, IF Opening(f) THEN Append(w, "group") ELSE w, << >>)
    BY <2>1 DEF Bears, Rescues
  <2>4. SUFFICES /\ (IF Opening(g) THEN Append(v, "group") ELSE v)
                      = (IF Opening(f) THEN Append(w, "group") ELSE w)
                 /\ g.todo # << >> => g.todo[1] # Do("softmask")
    BY <2>1, <2>3
  <2>5. CASE f.todo = FormEnd(f.form) /\ a = Do("always")
    <3>1. t # << >> /\ t[1][1] = "down" /\ a[1] = "always"
      <4>1. f.todo = FormEnd(f.form)
        BY <2>5
      <4>2. Tail(FormEnd(f.form)) # << >> /\ Tail(FormEnd(f.form))[1][1] = "down"
        BY EndNext, Zenon
      <4> QED BY <2>5, <4>1, <4>2, StepNames
    <3>2. t[1] # Do("softmask") /\ t[1] # Open("group") /\ a # Do("softmask") /\ a # Open("group")
      BY <3>1, NotOpening
    <3>3. v = w
      <4>1. a[1] \in Resting
        BY <3>1 DEF Resting
      <4> QED BY <1>3, <4>1, TurnsRest
    <3> QED BY <3>2, <3>3 DEF Opening
  <2>6. CASE t # << >> /\ InOrder(a, t[1])
    <3>1. CASE a = Do("softmask") /\ t[1] = Open("group")
      <4>1. v = w
        <5>1. a[1] \in Resting
          BY <3>1, StepNames DEF Resting
        <5> QED BY <1>3, <5>1, TurnsRest
      <4>2. t[1] # Do("softmask")
        BY <3>1, NotOpening
      <4> QED BY <2>6, <3>1, <4>1, <4>2 DEF Opening
    <3>2. CASE a = Open("group") /\ t[1] = Do("reset")
      <4>1. v = Append(w, "group")
        BY <1>3, <3>2, TurnsOpen
      <4>2. t[1] # Do("softmask") /\ t[1] # Open("group")
        <5>1. t[1][1] = "reset"
          BY <3>2, StepNames
        <5> QED BY <5>1, NotOpening
      <4> QED BY <2>6, <3>2, <4>1, <4>2 DEF Opening
    <3>3. CASE \E c, d \in {"reset", "clip", "contents", "always"} : a = Do(c) /\ t[1] = Do(d)
      <4>0. /\ a[1] \in {"reset", "clip", "contents", "always"}
            /\ t[1][1] \in {"reset", "clip", "contents", "always"}
        <5>1. PICK c, d \in {"reset", "clip", "contents", "always"} : a = Do(c) /\ t[1] = Do(d)
          BY <3>3
        <5>2. Do(c)[1] = c /\ Do(d)[1] = d
          BY StepNames
        <5> HIDE DEF a, t
        <5> QED BY <5>1, <5>2
      <4>1. v = w
        <5>1. a[1] \in Resting
          BY <4>0 DEF Resting
        <5> QED BY <1>3, <5>1, TurnsRest
      <4>2. t[1] # Do("softmask") /\ t[1] # Open("group") /\ a # Do("softmask") /\ a # Open("group")
        BY <4>0, NotOpening
      <4> QED BY <2>6, <4>1, <4>2 DEF Opening
    <3> QED BY <2>6, <3>1, <3>2, <3>3 DEF InOrder
  <2> QED BY <2>2, <2>5, <2>6, FormHeads
<1>7. Bears(g, b, v)
  BY <1>2, <1>3, <1>4, <1>5, <1>6 DEF Bears
<1> QED BY <1>3, <1>7

LEMMA TurnsWhat ==
  ASSUME NEW fn, NEW m, NEW b, NEW step, NEW k, NEW k2, Turns(fn, m, b, step, k, k2)
  PROVE  /\ step[1] = "close" => k = Append(k2, step[2])
         /\ step[1] = "unmask" => k = k2 \o SoftOf(m)
         /\ step[1] = "softmask" => k = << >>
         /\ step[1] = "clip" /\ IsPaint(fn) => k \in Clips
<1>1. step[1] = "close" => k = Append(k2, step[2])
  BY Zenon DEF Turns
<1>2. step[1] = "unmask" => k = k2 \o SoftOf(m)
  BY Zenon DEF Turns
<1>3. step[1] = "softmask" => k = << >>
  BY Zenon DEF Turns
<1>4. step[1] = "clip" /\ IsPaint(fn) => k \in Clips
  BY Zenon DEF Turns
<1> QED BY <1>1, <1>2, <1>3, <1>4

=============================================================================
