------------------------- MODULE WirelessUcisProofs -------------------------
(***************************************************************************)
(* Proofs about WirelessUcis for every size of the buffers and the array,  *)
(* every bound on the output and every set of line lengths.  The inductive *)
(* invariant says that the buffer holds a beginning of the answer,         *)
(* Progress, and that the blocks allocated are those of the array,         *)
(* Blocks.  That a beginning is not longer than the whole is a fact about  *)
(* sums; it is proved by induction on the natural numbers, NatInduct.      *)
(***************************************************************************)
EXTENDS WirelessUcis, TLAPS, SequenceTheorems, WellFoundedInduction

\* The lines of the answer to query q.
Lines(q) == Collected(q, Len(printed[q]))

\* What is in the buffer before the lines of the query under way.
Before == IF query = "radio" THEN <<Start>> ELSE <<Start>> \o Lines("radio")

Printed ==
  /\ \A q \in Queries : Len(printed[q]) <= MaxOutput
  /\ query = "radio" => printed["iface"] = <<>>
  /\ query = "radio" /\ pc = "query" => printed["radio"] = <<>>
  /\ pc = "query" => printed[query] = <<>>

Progress ==
  /\ pc = "query" => result = <<>> /\ buf = Before
  /\ pc = "append" => /\ result = Lines(query)
                      /\ i <= Len(result) + 1
                      /\ buf = Before \o SubSeq(result, 1, i - 1)

Blocks ==
  /\ blocks = IF pc = "done" THEN 0 ELSE Len(result) + 1
  /\ pc # "done" => ret = 0

IInv ==
  TypeOK /\ Printed /\ Progress /\ Blocks /\ AnswerIsWhole /\ OutsideOnlyIfUnfit

-----------------------------------------------------------------------------
(* Sums. *)

\* Induction, for a set of natural numbers.
LEMMA NatInduct ==
  ASSUME NEW S \in SUBSET Nat, 0 \in S, \A n \in S : n + 1 \in S
  PROVE  S = Nat
<1> DEFINE R == {ss \in Nat \X Nat : ss[1] < ss[2]}
           T == Nat \ S
<1> SUFFICES ASSUME T # {} PROVE FALSE
  OBVIOUS
<1>1. IsWellFoundedOn(R, Nat)
  BY NatLessThanWellFounded, Zenon DEF OpToRel
<1>2. T \in SUBSET Nat
  OBVIOUS
<1>3. PICK x \in T : \A y \in T : ~ (<<y, x>> \in R)
  <2> HIDE DEF R, T
  <2> QED
    BY <1>1, <1>2, WFMin, Zenon
<1>4. x \in Nat \ {0} /\ x - 1 \in Nat
  OBVIOUS
<1>5. x - 1 \in T
  BY <1>4
<1>6. <<x - 1, x>> \in R
  BY <1>4
<1> QED
  BY <1>3, <1>5, <1>6, Zenon

\* g adds up the sizes of the first n items of s.
Sums(g, s, n) ==
  g = [k \in 0 .. n |-> IF k = 0 THEN 0 ELSE g[k - 1] + Size(s[k])]

LEMMA SumsExist ==
  ASSUME NEW s, NEW n \in Nat
  PROVE  \E g : Sums(g, s, n)
<1> DEFINE S == {m \in Nat : \E g : Sums(g, s, m)}
<1>1. 0 \in S
  <2> DEFINE g == [k \in 0 .. 0 |-> 0]
  <2>1. Sums(g, s, 0)
    BY DEF Sums
  <2> QED
    BY <2>1
<1>2. ASSUME NEW m \in S PROVE m + 1 \in S
  <2>1. PICK g : Sums(g, s, m)
    OBVIOUS
  <2> DEFINE h == [k \in 0 .. m + 1 |-> IF k = m + 1 THEN g[m] + Size(s[k]) ELSE g[k]]
  <2>2. m \in Nat /\ h[m + 1] = g[m] + Size(s[m + 1]) /\ \A k \in 0 .. m : h[k] = g[k]
    OBVIOUS
  <2>3. \A k \in 0 .. m + 1 : h[k] = IF k = 0 THEN 0 ELSE h[k - 1] + Size(s[k])
    <3> SUFFICES ASSUME NEW k \in 0 .. m + 1
                 PROVE  h[k] = IF k = 0 THEN 0 ELSE h[k - 1] + Size(s[k])
      OBVIOUS
    <3> HIDE DEF h
    <3>1. CASE k = m + 1
      BY <2>2, <3>1
    <3>2. CASE k # m + 1
      <4>1. k \in 0 .. m /\ k # 0 => k - 1 \in 0 .. m
        BY <2>2, <3>2
      <4>2. k \in 0 .. m
        BY <2>2, <3>2
      <4> QED
        BY <2>1, <2>2, <4>1, <4>2 DEF Sums
    <3> QED
      BY <3>1, <3>2
  <2>4. h = [k \in 0 .. m + 1 |-> h[k]]
    OBVIOUS
  <2>5. Sums(h, s, m + 1)
    <3> HIDE DEF h
    <3> QED
      BY <2>3, <2>4 DEF Sums
  <2> QED
    BY <2>2, <2>5
<1> HIDE DEF S
<1>3. S = Nat
  <2>1. S \in SUBSET Nat
    BY DEF S
  <2> QED
    BY <1>1, <1>2, <2>1, NatInduct
<1> QED
  BY <1>3 DEF S

\* Length is such a sum.
LEMMA LengthIsSum ==
  ASSUME NEW s, Len(s) \in Nat
  PROVE  \E g : Sums(g, s, Len(s)) /\ Length(s) = g[Len(s)]
BY SumsExist DEF Length, Sums

\* A beginning is not longer than the whole.
LEMMA BeginningFits ==
  ASSUME NEW s \in Seq(Items), NEW t \in Seq(Items), Len(s) <= Len(t),
         \A k \in 1 .. Len(s) : s[k] = t[k],
         \A k \in 1 .. Len(t) : Size(t[k]) \in Nat
  PROVE  Length(s) \in Nat /\ Length(t) \in Nat /\ Length(s) <= Length(t)
<1>1. Len(s) \in Nat /\ Len(t) \in Nat
  BY LenProperties
<1>2. PICK g : Sums(g, s, Len(s)) /\ Length(s) = g[Len(s)]
  BY <1>1, LengthIsSum
<1>3. PICK h : Sums(h, t, Len(t)) /\ Length(t) = h[Len(t)]
  BY <1>1, LengthIsSum
<1> DEFINE ls == Len(s)
           lt == Len(t)
<1>4. /\ g[0] = 0 /\ h[0] = 0
      /\ \A k \in 1 .. ls : g[k] = g[k - 1] + Size(t[k])
      /\ \A k \in 1 .. lt : h[k] = h[k - 1] + Size(t[k])
  <2>1. \A k \in 0 .. ls : g[k] = IF k = 0 THEN 0 ELSE g[k - 1] + Size(s[k])
    BY <1>2, Zenon DEF Sums
  <2>2. \A k \in 0 .. lt : h[k] = IF k = 0 THEN 0 ELSE h[k - 1] + Size(t[k])
    BY <1>3, Zenon DEF Sums
  <2> QED
    BY <1>1, <2>1, <2>2
<1>5. ls \in Nat /\ lt \in Nat /\ ls <= lt
  BY <1>1
<1> HIDE DEF ls, lt
<1>6. \A k \in Nat : k <= lt => h[k] \in Nat
  <2> DEFINE S == {k \in Nat : k <= lt => h[k] \in Nat}
  <2>1. 0 \in S
    BY <1>4
  <2>2. ASSUME NEW n \in S PROVE n + 1 \in S
    <3> SUFFICES ASSUME n + 1 <= lt PROVE h[n + 1] \in Nat
      OBVIOUS
    <3>1. h[n] \in Nat /\ n + 1 \in 1 .. lt /\ (n + 1) - 1 = n
      BY <1>5
    <3>2. Size(t[n + 1]) \in Nat
      BY <3>1 DEF lt
    <3> QED
      BY <1>4, <3>1, <3>2
  <2>3. S \in SUBSET Nat
    OBVIOUS
  <2> HIDE DEF S
  <2>4. S = Nat
    BY <2>1, <2>2, <2>3, NatInduct
  <2> QED
    BY <2>4 DEF S
<1>7. \A k \in Nat : k <= ls => g[k] = h[k]
  <2> DEFINE S == {k \in Nat : k <= ls => g[k] = h[k]}
  <2>1. 0 \in S
    BY <1>4
  <2>2. ASSUME NEW n \in S PROVE n + 1 \in S
    <3> SUFFICES ASSUME n + 1 <= ls PROVE g[n + 1] = h[n + 1]
      OBVIOUS
    <3>1. g[n] = h[n] /\ n + 1 \in 1 .. ls /\ n + 1 \in 1 .. lt /\ (n + 1) - 1 = n
      BY <1>5
    <3> QED
      BY <1>4, <3>1
  <2>3. S \in SUBSET Nat
    OBVIOUS
  <2> HIDE DEF S
  <2>4. S = Nat
    BY <2>1, <2>2, <2>3, NatInduct
  <2> QED
    BY <2>4 DEF S
<1>8. \A k \in Nat : ls + k <= lt => h[ls] <= h[ls + k]
  <2> DEFINE S == {k \in Nat : ls + k <= lt => h[ls] <= h[ls + k]}
  <2>1. 0 \in S
    BY <1>5, <1>6
  <2>2. ASSUME NEW n \in S PROVE n + 1 \in S
    <3> SUFFICES ASSUME ls + (n + 1) <= lt PROVE h[ls] <= h[ls + (n + 1)]
      OBVIOUS
    <3> DEFINE m == ls + n
    <3>1. /\ h[ls] <= h[m] /\ m \in Nat /\ m <= lt /\ ls <= lt
          /\ m + 1 \in 1 .. lt /\ (m + 1) - 1 = m /\ ls + (n + 1) = m + 1
      BY <1>5
    <3> HIDE DEF m
    <3>2. Size(t[m + 1]) \in Nat
      BY <3>1 DEF lt
    <3>3. h[m] \in Nat /\ h[ls] \in Nat /\ h[m + 1] = h[m] + Size(t[m + 1])
      BY <1>4, <1>5, <1>6, <3>1
    <3> QED
      BY <3>1, <3>2, <3>3
  <2>3. S \in SUBSET Nat
    OBVIOUS
  <2> HIDE DEF S
  <2>4. S = Nat
    BY <2>1, <2>2, <2>3, NatInduct
  <2> QED
    BY <2>4 DEF S
<1>9. PICK d \in Nat : ls + d = lt
  <2>1. lt - ls \in Nat /\ ls + (lt - ls) = lt
    BY <1>5
  <2> QED
    BY <2>1
<1>10. g[ls] = h[ls] /\ h[ls] <= h[lt] /\ h[ls] \in Nat /\ h[lt] \in Nat
  <2>1. h[ls] <= h[ls + d]
    BY <1>5, <1>8, <1>9
  <2>2. h[ls] \in Nat /\ h[lt] \in Nat
    BY <1>5, <1>6
  <2>3. g[ls] = h[ls]
    BY <1>5, <1>7
  <2> QED
    BY <1>9, <2>1, <2>2, <2>3
<1> QED
  BY <1>2, <1>3, <1>10 DEF ls, lt

-----------------------------------------------------------------------------
(* The lines and the answer. *)

\* Items whose size is known.
Known == {m \in Items : Size(m) \in Nat}

LEMMA SmallerOfTwo ==
  ASSUME NEW a \in Int, NEW b \in Int
  PROVE  Min({a, b}) = IF a <= b THEN a ELSE b
BY DEF Min

LEMMA Bounds ==
  /\ MaxOutput \in Nat /\ MaxLine \in Nat /\ BufLen \in Nat /\ TmpLen \in Nat
  /\ StartLen \in Nat /\ EndLen \in Nat
  /\ Lengths \subseteq Nat \ {0}
BY UcisAssumption

LEMMA CollectedShape ==
  ASSUME NEW q \in Queries, NEW n \in 0 .. MaxOutput
  PROVE  /\ Collected(q, n) \in Seq(Items)
         /\ Len(Collected(q, n)) \in Nat
         /\ Len(Collected(q, n)) <= MaxLine /\ Len(Collected(q, n)) <= n
         /\ \A k \in 1 .. Len(Collected(q, n)) : Collected(q, n)[k] = <<q, k>>
         /\ n = 0 => Collected(q, n) = <<>>
<1> DEFINE m == Min({n, MaxLine})
<1>1. m \in Nat /\ m <= n /\ m <= MaxLine /\ m <= MaxOutput
  BY SmallerOfTwo, Bounds
<1> HIDE DEF m
<1>2. Collected(q, n) = [k \in 1 .. m |-> <<q, k>>]
  BY DEF Collected, m
<1>3. \A k \in 1 .. m : <<q, k>> \in Items
  BY <1>1, Bounds DEF Items
<1>4. Collected(q, n) \in [1 .. m -> Items]
  BY <1>2, <1>3
<1>5. Collected(q, n) \in Seq(Items) /\ Len(Collected(q, n)) = m
  BY <1>1, <1>4
<1>6. n = 0 => Collected(q, n) = <<>>
  BY <1>1, <1>5, EmptySeq
<1> QED
  BY <1>1, <1>2, <1>5, <1>6

\* A line that was printed is as long as it is plus the quotes and the comma.
LEMMA LineSize ==
  ASSUME TypeOK, NEW q \in Queries, NEW k \in 1 .. Len(printed[q])
  PROVE  /\ Size(<<q, k>>) = Cut(printed[q][k]) + 3
         /\ Size(<<q, k>>) \in Nat
<1>1. printed[q][k] \in Nat
  BY Bounds, ElementOfSeq DEF TypeOK
<1>2. <<q, k>> # Start /\ <<q, k>> # End
  BY DEF Start, End, Queries
<1> QED
  BY <1>1, <1>2 DEF Size, Quoted, Cut

LEMMA LinesKnown ==
  ASSUME TypeOK, Printed, NEW q \in Queries
  PROVE  /\ Lines(q) \in Seq(Known) /\ Lines(q) \in Seq(Items)
         /\ Len(Lines(q)) \in Nat /\ Len(Lines(q)) <= MaxLine
         /\ Len(Lines(q)) <= Len(printed[q])
         /\ \A k \in 1 .. Len(Lines(q)) : Lines(q)[k] = <<q, k>>
         /\ printed[q] = <<>> => Lines(q) = <<>>
<1>1. Len(printed[q]) \in Nat
  BY LenProperties DEF TypeOK
<1>2. Len(printed[q]) \in 0 .. MaxOutput
  BY <1>1, Bounds DEF Printed
<1>3. /\ Lines(q) \in Seq(Items)
      /\ Len(Lines(q)) \in Nat /\ Len(Lines(q)) <= MaxLine
      /\ Len(Lines(q)) <= Len(printed[q])
      /\ \A k \in 1 .. Len(Lines(q)) : Lines(q)[k] = <<q, k>>
      /\ Len(printed[q]) = 0 => Lines(q) = <<>>
  BY <1>2, CollectedShape DEF Lines
<1>4. ASSUME NEW k \in 1 .. Len(Lines(q)) PROVE Lines(q)[k] \in Known
  <2>1. k \in 1 .. Len(printed[q])
    BY <1>1, <1>3
  <2>2. Lines(q)[k] = <<q, k>> /\ Lines(q)[k] \in Items
    BY <1>3, ElementOfSeq
  <2> QED
    BY <2>1, <2>2, LineSize DEF Known
<1>5. Lines(q) = [k \in 1 .. Len(Lines(q)) |-> Lines(q)[k]]
  BY <1>3
<1>6. Lines(q) \in [1 .. Len(Lines(q)) -> Known]
  BY <1>4, <1>5
<1>7. Lines(q) \in Seq(Known)
  BY <1>3, <1>6
<1> QED
  BY <1>3, <1>7, EmptySeq

LEMMA EndsKnown ==
  /\ Start \in Known /\ End \in Known
  /\ <<Start>> \in Seq(Known) /\ <<End>> \in Seq(Known)
  /\ Known \subseteq Items
  /\ Seq(Known) \subseteq Seq(Items)
<1>1. Start # End /\ Start \in Items /\ End \in Items
  BY DEF Start, End, Items
<1>2. Start \in Known /\ End \in Known
  BY <1>1, Bounds DEF Known, Size
<1>3. Known \subseteq Items
  BY DEF Known
<1> QED
  BY <1>2, <1>3, SeqMonotonic

\* The answer, cut behind the lines of the query under way.
LEMMA AnswerSplit ==
  ASSUME TypeOK, Printed
  PROVE  /\ Before \in Seq(Known) /\ Answer \in Seq(Known)
         /\ Answer = (Before \o Lines(query)) \o <<End>>
<1>1. /\ Lines("radio") \in Seq(Known) /\ Lines("iface") \in Seq(Known)
      /\ query \in Queries /\ Lines(query) \in Seq(Known)
  BY LinesKnown DEF Queries, TypeOK
<1>2. <<Start>> \o Lines("radio") \in Seq(Known)
  BY <1>1, EndsKnown, ConcatProperties
<1>3. Before \in Seq(Known)
  BY <1>2, EndsKnown DEF Before
<1>4. Answer = ((<<Start>> \o Lines("radio")) \o Lines("iface")) \o <<End>>
  BY DEF Answer, Lines
<1>5. Answer = (Before \o Lines(query)) \o <<End>>
  <2>1. CASE query = "radio"
    <3>1. Lines("iface") = <<>>
      BY <2>1, LinesKnown DEF Printed, Queries
    <3>2. (<<Start>> \o Lines("radio")) \o <<>> = <<Start>> \o Lines("radio")
      BY <1>2, ConcatEmptySeq
    <3> QED
      BY <1>4, <2>1, <3>1, <3>2 DEF Before
  <2>2. CASE query = "iface"
    BY <1>4, <2>2 DEF Before
  <2> QED
    BY <2>1, <2>2 DEF TypeOK, Queries
<1>6. Before \o Lines(query) \in Seq(Known)
  BY <1>1, <1>3, ConcatProperties
<1>7. Answer \in Seq(Known)
  BY <1>5, <1>6, EndsKnown, ConcatProperties
<1> QED
  BY <1>3, <1>5, <1>7

LEMMA PartFits ==
  ASSUME NEW s \in Seq(Known), NEW r \in Seq(Known)
  PROVE  Length(s) \in Nat /\ Length(s \o r) \in Nat /\ Length(s) <= Length(s \o r)
<1> DEFINE t == s \o r
<1>1. /\ t \in Seq(Known) /\ Len(t) = Len(s) + Len(r)
      /\ \A k \in 1 .. Len(s) + Len(r) : t[k] = IF k <= Len(s) THEN s[k] ELSE r[k - Len(s)]
  BY ConcatProperties
<1>2. Len(s) \in Nat /\ Len(r) \in Nat
  BY LenProperties
<1> HIDE DEF t
<1>3. Len(s) <= Len(t) /\ \A k \in 1 .. Len(s) : s[k] = t[k]
  BY <1>1, <1>2
<1>4. \A k \in 1 .. Len(t) : Size(t[k]) \in Nat
  BY <1>1, ElementOfSeq DEF Known
<1>5. s \in Seq(Items) /\ t \in Seq(Items)
  BY <1>1, EndsKnown
<1> QED
  BY <1>3, <1>4, <1>5, BeginningFits DEF t

-----------------------------------------------------------------------------
(* The steps.  After a byte has been written outside, there is none. *)

\* The invariant but for what it says of the bytes outside.
Whole == TypeOK /\ Printed /\ Progress /\ Blocks /\ AnswerIsWhole

\* The length of s and the answer, of the lines printed.
LengthIn(p, s) ==
  LET size(m) == IF m = Start THEN StartLen ELSE IF m = End THEN EndLen
                 ELSE Cut(p[m[1]][m[2]]) + 3
      upTo[k \in 0 .. Len(s)] == IF k = 0 THEN 0 ELSE upTo[k - 1] + size(s[k])
  IN  upTo[Len(s)]
AnswerIn(p) == LET lines(q) == Collected(q, Len(p[q])) IN
               <<Start>> \o lines("radio") \o lines("iface") \o <<End>>

\* While nothing is printed, the answer is the same and as long as it was.
LEMMA SameAnswer ==
  ASSUME printed' = printed
  PROVE  Answer' = Answer /\ Length(Answer)' = Length(Answer)
<1>1. Answer = AnswerIn(printed) /\ Answer' = AnswerIn(printed')
  BY DEF Answer, AnswerIn
<1>2. \A s : Length(s) = LengthIn(printed, s)
  BY DEF Length, LengthIn, Size, Quoted
<1>3. Length(Answer)' = LengthIn(printed', Answer')
  BY DEF Length, LengthIn, Size, Quoted
<1> QED
  BY <1>1, <1>2, <1>3

\* systemEx collects what the command prints; the buffer stays.
LEMMA SystemExStep ==
  ASSUME Whole, SystemEx
  PROVE  Whole' /\ OutsideOnlyIfUnfit'
<1> USE DEF Whole
<1>0. PICK n \in 0 .. MaxOutput : \E s \in [1 .. n -> Lengths] :
        /\ printed' = [printed EXCEPT ![query] = s]
        /\ result' = Collected(query, n)
        /\ blocks' = blocks + Len(result')
        /\ outside' = HasEmptyLine(s)
  BY DEF SystemEx
<1>1. PICK s \in [1 .. n -> Lengths] :
        /\ printed' = [printed EXCEPT ![query] = s]
        /\ result' = Collected(query, n)
        /\ blocks' = blocks + Len(result')
        /\ outside' = HasEmptyLine(s)
  BY <1>0
<1>2. /\ pc = "query" /\ pc' = "append" /\ i' = 1
      /\ query' = query /\ buf' = buf /\ ret' = ret /\ query \in Queries
  BY DEF SystemEx, TypeOK
<1>3. n \in Nat /\ s \in Seq(Lengths) /\ Len(s) = n
  BY Bounds
<1>4. /\ printed' \in [Queries -> Seq(Lengths)]
      /\ printed'[query] = s
      /\ \A q \in Queries \ {query} : printed'[q] = printed[q]
  BY <1>1, <1>2, <1>3 DEF TypeOK
<1>5. /\ result' \in Seq(Items) /\ Len(result') \in Nat /\ Len(result') <= MaxLine
  BY <1>1, <1>2, CollectedShape
<1>6. result' = Lines(query)'
  BY <1>1, <1>2, <1>3, <1>4 DEF Lines
<1>7. Printed'
  <2>1. \A q \in Queries : Len(printed'[q]) <= MaxOutput
    BY <1>1, <1>2, <1>3, <1>4, Bounds DEF Printed
  <2>2. query = "radio" => printed'["iface"] = <<>>
    BY <1>2, <1>4 DEF Printed, Queries
  <2> QED
    BY <1>2, <2>1, <2>2 DEF Printed
<1>8. TypeOK'
  <2>1. outside' \in BOOLEAN
    BY <1>1, Zenon DEF HasEmptyLine
  <2>2. i' \in 1 .. MaxLine + 1
    BY <1>2, Bounds
  <2>3. blocks' \in Nat
    BY <1>1, <1>5 DEF TypeOK
  <2> QED
    BY <1>2, <1>4, <1>5, <2>1, <2>2, <2>3 DEF TypeOK
<1>9. Progress'
  <2>1. Before' = Before
    BY <1>2, <1>4 DEF Before, Lines, Queries
  <2>2. buf = Before /\ Before \in Seq(Known)
    BY <1>2, AnswerSplit DEF Progress
  <2>3. SubSeq(result', 1, i' - 1) = <<>>
    BY <1>2, SubSeqEmpty
  <2>4. buf' = Before' \o SubSeq(result', 1, i' - 1)
    BY <1>2, <2>1, <2>2, <2>3, ConcatEmptySeq
  <2>5. i' <= Len(result') + 1
    BY <1>2, <1>5
  <2> QED
    BY <1>2, <1>6, <2>4, <2>5 DEF Progress
<1>10. Blocks'
  <2>1. result = <<>> /\ blocks = 1 /\ ret = 0
    BY <1>2, EmptySeq DEF Progress, Blocks
  <2> QED
    BY <1>1, <1>2, <1>5, <2>1 DEF Blocks
<1>11. AnswerIsWhole'
  BY <1>2 DEF AnswerIsWhole
<1>12. OutsideOnlyIfUnfit'
  BY <1>1, <1>2, <1>4 DEF OutsideOnlyIfUnfit
<1> QED
  BY <1>7, <1>8, <1>9, <1>10, <1>11, <1>12

\* Where the append loop is, what it is about to append is the next line.
LEMMA NextLine ==
  ASSUME Whole, pc = "append", i <= Len(result)
  PROVE  /\ result = Lines(query) /\ i \in 1 .. Len(result)
         /\ result[i] = <<query, i>> /\ i \in 1 .. Len(printed[query])
         /\ result[i] \in Known
         /\ buf \in Seq(Known)
         /\ Append(buf, result[i]) = Before \o SubSeq(result, 1, i)
         /\ \E r \in Seq(Known) : Answer = Append(buf, result[i]) \o r
<1> DEFINE L == Lines(query)
<1> USE DEF Whole
<1>1. /\ query \in Queries /\ result = L
      /\ L \in Seq(Known) /\ Len(L) \in Nat /\ Len(L) <= Len(printed[query])
      /\ \A k \in 1 .. Len(L) : L[k] = <<query, k>>
      /\ buf = Before \o SubSeq(L, 1, i - 1)
  BY LinesKnown DEF Progress, TypeOK
<1> HIDE DEF L
<1>2. i \in 1 .. Len(L) /\ i \in Nat /\ i - 1 \in Nat /\ i \in 1 .. Len(printed[query])
  <2>1. Len(printed[query]) \in Nat
    BY <1>1, LenProperties DEF TypeOK
  <2> QED
    BY <1>1, <2>1, Bounds DEF TypeOK
<1>3. L[i] \in Known
  BY <1>1, <1>2, ElementOfSeq
<1>4. /\ SubSeq(L, 1, i - 1) \in Seq(Known) /\ SubSeq(L, 1, i) \in Seq(Known)
      /\ SubSeq(L, i + 1, Len(L)) \in Seq(Known)
  <2>1. \A k \in 1 .. Len(L) : L[k] \in Known
    BY <1>1, ElementOfSeq
  <2>2. /\ \A k \in 1 .. i - 1 : L[k] \in Known
        /\ \A k \in 1 .. i : L[k] \in Known
        /\ \A k \in i + 1 .. Len(L) : L[k] \in Known
    BY <1>2, <1>1, <2>1
  <2> QED
    BY <1>1, <1>2, <2>2, SubSeqProperties
<1>5. SubSeq(L, 1, i) = SubSeq(L, 1, i - 1) \o <<L[i]>>
  <2>1. 1 \in 1 .. Len(L) /\ i \in 1 .. Len(L)
    BY <1>1, <1>2
  <2> QED
    BY <1>1, <2>1, SubSeqRecursiveSecond, Zenon
<1>6. Before \in Seq(Known) /\ Answer = (Before \o L) \o <<End>>
  BY AnswerSplit DEF L
<1>7. buf \in Seq(Known)
  BY <1>1, <1>4, <1>6, ConcatProperties
<1>8. Append(buf, L[i]) = Before \o SubSeq(L, 1, i)
  <2>1. <<L[i]>> \in Seq(Known) /\ Append(buf, L[i]) = buf \o <<L[i]>>
    BY <1>3, <1>7, AppendIsConcat
  <2>2. (Before \o SubSeq(L, 1, i - 1)) \o <<L[i]>> = Before \o (SubSeq(L, 1, i - 1) \o <<L[i]>>)
    <3> DEFINE head == SubSeq(L, 1, i - 1)
               last == <<L[i]>>
    <3>1. Before \in Seq(Known) /\ head \in Seq(Known) /\ last \in Seq(Known)
      BY <1>4, <1>6, <2>1
    <3> HIDE DEF head, last
    <3>2. (Before \o head) \o last = Before \o (head \o last)
      BY <3>1, ConcatAssociative
    <3> QED
      BY <3>2 DEF head, last
  <2> QED
    BY <1>1, <1>5, <2>1, <2>2
<1>9. \E r \in Seq(Known) : Answer = Append(buf, L[i]) \o r
  <2> DEFINE rest == SubSeq(L, i + 1, Len(L))
             head == SubSeq(L, 1, i)
  <2>1. L = head \o rest
    <3>1. SubSeq(L, 1, i) \o SubSeq(L, i + 1, Len(L)) = SubSeq(L, 1, Len(L))
      BY <1>1, <1>2, ConcatAdjacentSubSeq
    <3>2. SubSeq(L, 1, Len(L)) = L
      BY <1>1, SubSeqFull
    <3> QED
      BY <3>1, <3>2
  <2>2. head \in Seq(Known) /\ rest \in Seq(Known)
    BY <1>4
  <2> HIDE DEF head, rest
  <2>3. Before \o (head \o rest) = (Before \o head) \o rest
    BY <1>6, <2>2, ConcatAssociative
  <2>4. Before \o head \in Seq(Known) /\ rest \o <<End>> \in Seq(Known)
    BY <1>6, <2>2, EndsKnown, ConcatProperties
  <2>5. ((Before \o head) \o rest) \o <<End>> = (Before \o head) \o (rest \o <<End>>)
    BY <2>2, <2>4, EndsKnown, ConcatAssociative
  <2>6. Answer = Append(buf, L[i]) \o (rest \o <<End>>)
    BY <1>6, <1>8, <2>1, <2>3, <2>5 DEF head
  <2> QED
    BY <2>4, <2>6
<1> QED
  BY <1>1, <1>2, <1>3, <1>7, <1>8, <1>9 DEF L

\* The next line is appended, or does not fit at all.
LEMMA AppendLineStep ==
  ASSUME Whole, AppendLine
  PROVE  Whole' /\ OutsideOnlyIfUnfit'
<1> USE DEF Whole
<1> DEFINE m == result[i]
<1>1. pc = "append" /\ i <= Len(result)
  BY DEF AppendLine
<1>2. /\ result = Lines(query) /\ i \in 1 .. Len(result)
      /\ m = <<query, i>> /\ i \in 1 .. Len(printed[query])
      /\ m \in Known
      /\ buf \in Seq(Known)
      /\ Append(buf, m) = Before \o SubSeq(result, 1, i)
      /\ \E r \in Seq(Known) : Answer = Append(buf, m) \o r
  BY <1>1, NextLine
<1>3. /\ i' = i + 1 /\ UNCHANGED <<query, printed, result, blocks, ret>>
  BY DEF AppendLine
<1>4. Append(buf, m) \in Seq(Known)
  BY <1>2, AppendProperties
<1>5. \/ /\ buf' = Append(buf, m)
         /\ outside' = (Length(buf') >= BufLen \/ Size(m) >= TmpLen)
         /\ pc' = "append"
      \/ /\ pc' = "fail"
         /\ outside' = (Size(m) >= TmpLen)
         /\ buf' = buf
  BY <1>1 DEF AppendLine
<1>6. buf' \in Seq(Known)
  BY <1>2, <1>4, <1>5
<1>7. Size(m) \in Nat /\ Length(buf') \in Nat /\ BufLen \in Nat /\ TmpLen \in Nat
  <2>1. Length(buf') \in Nat
    BY <1>6, EndsKnown, PartFits
  <2> QED
    BY <1>2, <2>1, Bounds DEF Known
<1>8. outside' \in BOOLEAN
  <2>1. CASE outside' = (Length(buf') >= BufLen \/ Size(m) >= TmpLen)
    BY <1>7, <2>1
  <2>2. CASE outside' = (Size(m) >= TmpLen)
    BY <1>7, <2>2
  <2> QED
    BY <1>5, <2>1, <2>2
<1>9. i' \in 1 .. MaxLine + 1 /\ i' <= Len(result') + 1 /\ i' - 1 = i
  BY <1>2, <1>3, Bounds DEF TypeOK
<1>10. TypeOK'
  BY <1>3, <1>5, <1>6, <1>8, <1>9, EndsKnown DEF TypeOK
<1>11. Lines(query)' = Lines(query) /\ Before' = Before /\ Answer' = Answer
  BY <1>3 DEF Lines, Before, Answer
<1>12. Printed'
  BY <1>3, <1>5 DEF Printed
<1>13. Progress'
  BY <1>2, <1>3, <1>5, <1>9, <1>11 DEF Progress
<1>14. Blocks' /\ AnswerIsWhole'
  BY <1>1, <1>3, <1>5 DEF Blocks, AnswerIsWhole
<1>15. OutsideOnlyIfUnfit'
  <2>1. ASSUME Size(m) >= TmpLen
        PROVE  \E q \in Queries : \E n \in ToSet(printed'[q]) : Cut(n) + 3 >= TmpLen
    <3>1. query \in Queries /\ Size(m) = Cut(printed[query][i]) + 3
      BY <1>2, LineSize DEF TypeOK
    <3>2. printed[query][i] \in ToSet(printed[query])
      <4>1. i \in DOMAIN printed[query]
        BY <1>2, <3>1, LenProperties DEF TypeOK
      <4> QED
        BY <4>1 DEF ToSet
    <3> QED
      BY <1>3, <2>1, <3>1, <3>2
  <2>2. ASSUME buf' = Append(buf, m), Length(buf') >= BufLen
        PROVE  Length(Answer) >= BufLen
    <3>1. PICK r \in Seq(Known) : Answer = Append(buf, m) \o r
      BY <1>2
    <3>2. /\ Length(Append(buf, m)) \in Nat /\ Length(Answer) \in Nat
          /\ Length(Append(buf, m)) <= Length(Answer)
      BY <1>4, <3>1, PartFits
    <3> QED
      BY <1>7, <2>2, <3>2
  <2> QED
    BY <1>3, <1>5, <1>11, <2>1, <2>2, SameAnswer DEF OutsideOnlyIfUnfit
<1> QED
  BY <1>10, <1>12, <1>13, <1>14, <1>15

\* At the end of the append loop all lines of the query are in the buffer.
LEMMA LinesDone ==
  ASSUME Whole, pc = "append", i > Len(result)
  PROVE  buf = Before \o Lines(query) /\ buf \in Seq(Known) /\ Len(result) \in Nat
<1> USE DEF Whole
<1>1. /\ result = Lines(query) /\ result \in Seq(Known) /\ Len(result) \in Nat
      /\ buf = Before \o SubSeq(result, 1, i - 1) /\ i <= Len(result) + 1
  BY LinesKnown DEF Progress, TypeOK
<1>2. i - 1 = Len(result)
  BY <1>1, Bounds DEF TypeOK
<1>3. SubSeq(result, 1, i - 1) = result
  BY <1>1, <1>2, SubSeqFull
<1> QED
  BY <1>1, <1>3, AnswerSplit, ConcatProperties

\* The radio is done: the array is freed and a new one made for the interface.
LEMMA InterfaceStep ==
  ASSUME Whole, Interface, ~outside
  PROVE  Whole' /\ OutsideOnlyIfUnfit'
<1> USE DEF Whole
<1>1. /\ pc = "append" /\ query = "radio" /\ i > Len(result)
      /\ blocks' = 1 /\ result' = <<>> /\ query' = "iface"
      /\ pc' \in {"query", "append"} /\ i' = 1
      /\ UNCHANGED <<printed, buf, outside, ret>>
  BY LinesDone DEF Interface, GetBaseUci, FreeStrings, Blocks
<1>2. buf = <<Start>> \o Lines("radio") /\ buf \in Seq(Known)
  BY <1>1, LinesDone DEF Before
<1>3. printed["iface"] = <<>> /\ Lines("iface") = <<>>
  BY <1>1, LinesKnown DEF Printed, Queries
<1>4. Len(result') = 0
  BY <1>1, EmptySeq
<1>5. TypeOK'
  <2>1. i' \in 1 .. MaxLine + 1 /\ Len(result') <= MaxLine
    BY <1>1, <1>4, Bounds
  <2> QED
    BY <1>1, <2>1, EmptySeq DEF TypeOK, Queries
<1>6. Printed'
  BY <1>1, <1>3 DEF Printed
<1>7. Progress'
  <2>1. Before' = buf'
    BY <1>1, <1>2 DEF Before, Lines
  <2>2. SubSeq(result', 1, i' - 1) = <<>>
    BY <1>1, SubSeqEmpty
  <2>3. Before' \o SubSeq(result', 1, i' - 1) = buf'
    BY <1>1, <1>2, <2>1, <2>2, ConcatEmptySeq
  <2>4. Lines(query)' = <<>>
    BY <1>1, <1>3 DEF Lines
  <2> QED
    BY <1>1, <1>4, <2>1, <2>3, <2>4 DEF Progress
<1>8. Blocks' /\ AnswerIsWhole' /\ OutsideOnlyIfUnfit'
  BY <1>1, <1>4 DEF Blocks, AnswerIsWhole, OutsideOnlyIfUnfit
<1> QED
  BY <1>5, <1>6, <1>7, <1>8

\* end is appended and the answer is whole.
LEMMA FinishStep ==
  ASSUME Whole, Finish, ~outside
  PROVE  Whole' /\ OutsideOnlyIfUnfit'
<1> USE DEF Whole
<1>1. /\ pc = "append" /\ query = "iface" /\ i > Len(result)
      /\ UNCHANGED <<query, printed, i, ret>> /\ ret = 0
  BY DEF Finish, Blocks
<1>2. /\ buf = Before \o Lines(query) /\ buf \in Seq(Known) /\ Len(result) \in Nat
  BY <1>1, LinesDone
<1>3. Append(buf, End) = Answer /\ Answer \in Seq(Known)
  BY <1>2, AnswerSplit, EndsKnown, AppendIsConcat
<1>4. Lines(query)' = Lines(query) /\ Before' = Before /\ Answer' = Answer
  BY <1>1 DEF Lines, Before, Answer
<1>5. CASE /\ buf' = Append(buf, End)
           /\ outside' = (Length(buf') >= BufLen)
           /\ pc' = "done" /\ blocks' = FreeStrings /\ result' = <<>>
  <2>1. blocks' = 0 /\ Len(result') = 0
    BY <1>1, <1>2, <1>5, EmptySeq DEF FreeStrings, Blocks
  <2>2. Length(Answer) \in Nat
    BY <1>3, PartFits, EndsKnown
  <2>3. outside' \in BOOLEAN
    BY <1>3, <1>5, <2>2, Bounds
  <2>4. TypeOK'
    BY <1>1, <1>3, <1>5, <2>1, <2>3, EmptySeq, EndsKnown, Bounds DEF TypeOK
  <2>5. Printed' /\ Progress' /\ Blocks'
    BY <1>1, <1>5, <2>1 DEF Printed, Progress, Blocks
  <2>6. AnswerIsWhole' /\ OutsideOnlyIfUnfit'
    BY <1>1, <1>3, <1>4, <1>5, SameAnswer DEF AnswerIsWhole, OutsideOnlyIfUnfit
  <2> QED
    BY <2>4, <2>5, <2>6
<1>6. CASE pc' = "fail" /\ UNCHANGED <<buf, outside, blocks, result>>
  BY <1>1, <1>4, <1>6 DEF TypeOK, Printed, Progress, Blocks, AnswerIsWhole,
     OutsideOnlyIfUnfit
<1> QED
  BY <1>5, <1>6 DEF Finish

\* fail frees the array and clears the buffer.
LEMMA FailStep ==
  ASSUME Whole, Fail, ~outside
  PROVE  Whole' /\ OutsideOnlyIfUnfit'
<1> USE DEF Whole
<1>1. /\ pc = "fail" /\ pc' = "done" /\ blocks' = FreeStrings /\ result' = <<>>
      /\ buf' = <<>> /\ ret' = -1 /\ UNCHANGED <<query, printed, i, outside>>
  BY DEF Fail
<1>2. blocks' = 0 /\ Len(result') = 0
  <2>1. Len(result) \in Nat
    BY LenProperties DEF TypeOK
  <2> QED
    BY <1>1, <2>1, EmptySeq DEF FreeStrings, Blocks
<1>3. TypeOK'
  BY <1>1, <1>2, EmptySeq, Bounds DEF TypeOK
<1> QED
  BY <1>1, <1>2, <1>3 DEF Printed, Progress, Blocks, AnswerIsWhole, OutsideOnlyIfUnfit

-----------------------------------------------------------------------------
(* The invariant and the theorems. *)

LEMMA Initially == Init => IInv
<1> SUFFICES ASSUME Init PROVE IInv
  OBVIOUS
<1>1. Len(<<>>) = 0 /\ <<>> \in Seq(Items) /\ <<>> \in Seq(Lengths)
  BY EmptySeq
<1>2. TypeOK
  <2>1. buf \in Seq(Items)
    BY EndsKnown DEF Init
  <2>2. i \in 1 .. MaxLine + 1 /\ Len(result) <= MaxLine
    BY <1>1, Bounds DEF Init
  <2>3. printed \in [Queries -> Seq(Lengths)]
    BY <1>1 DEF Init
  <2> QED
    BY <1>1, <2>1, <2>2, <2>3 DEF Init, TypeOK, Queries
<1>3. Printed /\ Progress /\ Blocks /\ AnswerIsWhole /\ OutsideOnlyIfUnfit
  BY <1>1, Bounds DEF Init, Printed, Progress, Blocks, AnswerIsWhole,
     OutsideOnlyIfUnfit, Before, Queries
<1> QED
  BY <1>2, <1>3 DEF IInv

LEMMA Inductive == IInv /\ [Next]_vars => IInv'
<1> SUFFICES ASSUME IInv, [Next]_vars PROVE IInv'
  OBVIOUS
<1>1. CASE UNCHANGED vars
  <2>1. TypeOK' /\ Printed' /\ Blocks'
    BY <1>1 DEF vars, IInv, TypeOK, Printed, Blocks
  <2>2. Progress'
    BY <1>1 DEF vars, IInv, Progress, Before, Lines
  <2>3. AnswerIsWhole' /\ OutsideOnlyIfUnfit'
    BY <1>1, SameAnswer DEF vars, IInv, AnswerIsWhole, OutsideOnlyIfUnfit
  <2> QED
    BY <2>1, <2>2, <2>3 DEF IInv
<1>2. CASE Next
  BY <1>2, SystemExStep, AppendLineStep, InterfaceStep, FinishStep, FailStep
     DEF Next, IInv, Whole
<1> QED
  BY <1>1, <1>2

LEMMA Invariant == Spec => []IInv
BY Initially, Inductive, PTL DEF Spec

\* The state has its types; the array holds no more strings than it has room for.
THEOREM TypeCorrect == Spec => []TypeOK
<1>1. IInv => TypeOK
  BY DEF IInv
<1> QED
  BY <1>1, Invariant, PTL

\* getWirelessUcis returns 0 with every line in place or -1 with an empty buffer.
THEOREM AnswersAreWhole == Spec => []AnswerIsWhole
<1>1. IInv => AnswerIsWhole
  BY DEF IInv
<1> QED
  BY <1>1, Invariant, PTL

\* On every path what has been allocated is freed, once.
THEOREM NothingIsLeaked == Spec => []NothingLeaks
<1>1. IInv => NothingLeaks
  BY DEF IInv, Blocks, NothingLeaks
<1> QED
  BY <1>1, Invariant, PTL

\* Nothing is written outside of a buffer unless the answer as a whole is too
\* long for it, a line too long for tmp, or a line empty.
THEOREM FittingAnswersAreSafe == Spec => []OutsideOnlyIfUnfit
<1>1. IInv => OutsideOnlyIfUnfit
  BY DEF IInv
<1> QED
  BY <1>1, Invariant, PTL
=============================================================================
