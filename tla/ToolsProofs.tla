------------------------------ MODULE ToolsProofs ------------------------------
(***************************************************************************)
(* Proofs about two of the tools (src/lib/tools): LeakDetector, for every  *)
(* heap and every width of index, and UbusCall with the semaphore, for     *)
(* every set of processes and of identifiers.                              *)
(*                                                                         *)
(* The inductive invariant of LeakDetector gives the records of the list   *)
(* as a sequence:                                                          *)
(*   Chain       they are linked in this order, without a circle;          *)
(*   LastInv     ptr_next points to the last of them or to none, and to    *)
(*               the last until one was erased from behind another;        *)
(*   Addresses   they are about different blocks, until a position has     *)
(*               wrapped.                                                  *)
(* Records that add has linked to freed memory are in no list and in       *)
(* nobody's way.                                                           *)
(*                                                                         *)
(* That of UbusCall says, beyond the types:                                *)
(*   HoldersInv  one process at most holds the semaphore, which exists and *)
(*               is not free then;                                         *)
(*   SetvalInv   a semaphore whose value is still to be set is untouched;  *)
(*   InsideInv   who is inside with the semaphore that exists holds it;    *)
(*   ReliedInv   before anybody is undermined, who relies on a semaphore   *)
(*               relies on the one that exists.                            *)
(***************************************************************************)
EXTENDS LeakDetector, UbusCall, TLAPS, SequenceTheorems, FiniteSetTheorems,
        WellFoundedInduction

Chain(recs) ==
  /\ recs \in Seq(Chunks)
  /\ \A j, k \in 1 .. Len(recs) : recs[j] = recs[k] => j = k
  /\ \A k \in 1 .. Len(recs) : role[recs[k]] = "record" /\ address[recs[k]] \in Chunks
  /\ ptr_start = IF Len(recs) = 0 THEN Null ELSE recs[1]
  /\ \A k \in 1 .. Len(recs) : next[recs[k]] = IF k = Len(recs) THEN Null ELSE recs[k + 1]

LastInv(recs) ==
  /\ \A k \in 1 .. Len(recs) : recs[k] = ptr_next => k = Len(recs)
  /\ Len(recs) # 0 => /\ ptr_next \in Chunks
                      /\ ~tailErased => ptr_next = recs[Len(recs)]

Addresses(recs) ==
  ~wrapped =>
    /\ \A k \in 1 .. Len(recs) : role[address[recs[k]]] = "block"
    /\ \A j, k \in 1 .. Len(recs) : address[recs[j]] = address[recs[k]] => j = k
    /\ ~tailErased => inUse = [k \in 1 .. Len(recs) |-> address[recs[k]]]

ListInv ==
  ~ended => \E recs \in Seq(Chunks) : Chain(recs) /\ LastInv(recs) /\ Addresses(recs)

\* The blocks are those in use.
BlocksInv ==
  /\ \A b \in Chunks : role[b] = "block" <=> \E k \in 1 .. Len(inUse) : inUse[k] = b
  /\ \A j, k \in 1 .. Len(inUse) : inUse[j] = inUse[k] => j = k

ReportInv ==
  /\ ~ended => reported = {}
  /\ wrapped \/ reported \subseteq ToSet(inUse)

IInv == TypeOK /\ BlocksInv /\ ListInv /\ ReportInv /\ OwnMemoryOnly

-----------------------------------------------------------------------------
(* Numbers and sequences. *)

\* Induction, for a set of natural numbers.
LEMMA NatInduct ==
  ASSUME NEW S \in SUBSET Nat, 0 \in S, \A n \in S : n + 1 \in S
  PROVE  S = Nat
<1> DEFINE R == {ss \in Nat \X Nat : ss[1] < ss[2]}
           T == Nat \ S
<1> SUFFICES ASSUME T # {} PROVE FALSE
  OBVIOUS
<1>1. IsWellFoundedOn(R, Nat)
  BY NatLessThanWellFounded, Zenon DEF OpToRel
<1>2. T \in SUBSET Nat
  OBVIOUS
<1>3. PICK x \in T : \A y \in T : ~ (<<y, x>> \in R)
  <2> HIDE DEF R, T
  <2> QED
    BY <1>1, <1>2, WFMin, Zenon
<1>4. x \in Nat \ {0} /\ x - 1 \in Nat
  OBVIOUS
<1>5. x - 1 \in T
  BY <1>4
<1>6. <<x - 1, x>> \in R
  BY <1>4
<1> QED
  BY <1>3, <1>5, <1>6, Zenon

\* A set of naturals has a least element.
LEMMA LeastExists ==
  ASSUME NEW S \in SUBSET Nat, S # {}
  PROVE  Min(S) \in S /\ \A y \in S : Min(S) <= y
<1> DEFINE R == {ss \in Nat \X Nat : ss[1] < ss[2]}
<1>1. IsWellFoundedOn(R, Nat)
  BY NatLessThanWellFounded, Zenon DEF OpToRel
<1>2. PICK x \in S : \A y \in S : ~ (<<y, x>> \in R)
  BY <1>1, WFMin, Zenon
<1>3. \A y \in S : x <= y
  <2>1. SUFFICES ASSUME NEW y \in S, y < x PROVE FALSE
    OBVIOUS
  <2>2. <<y, x>> \in R
    BY <2>1
  <2> QED
    BY <1>2, <2>2, Zenon
<1> QED
  BY <1>3 DEF Min

\* index counts as it should up to where it wraps, and never too far.
LEMMA Wrapping ==
  ASSUME NEW n \in Nat
  PROVE  /\ n % IndexMod \in Nat
         /\ n % IndexMod <= n
         /\ n < IndexMod => n % IndexMod = n
BY LeakAssumption

LEMMA SeqIsFunction ==
  ASSUME NEW s \in Seq(Chunks), NEW n, Len(s) = n
  PROVE  s = [k \in 1 .. n |-> s[k]]
BY LenProperties

\* s without its i-th element.
Without(s, i) == [k \in 1 .. Len(s) - 1 |-> IF k < i THEN s[k] ELSE s[k + 1]]

LEMMA WithoutShape ==
  ASSUME NEW s \in Seq(Chunks), NEW i \in 1 .. Len(s)
  PROVE  /\ Without(s, i) \in Seq(Chunks)
         /\ Len(Without(s, i)) = Len(s) - 1 /\ Len(s) - 1 \in Nat
         /\ \A k \in 1 .. Len(s) - 1 :
              Without(s, i)[k] = IF k < i THEN s[k] ELSE s[k + 1]
<1>1. Len(s) \in Nat /\ Len(s) - 1 \in Nat /\ i \in Nat
  OBVIOUS
<1>2. \A k \in 1 .. Len(s) : s[k] \in Chunks
  BY ElementOfSeq
<1>3. \A k \in 1 .. Len(s) - 1 : k \in 1 .. Len(s) /\ k + 1 \in 1 .. Len(s)
  BY <1>1
<1>4. Without(s, i) \in [1 .. Len(s) - 1 -> Chunks]
  BY <1>2, <1>3 DEF Without
<1> QED
  BY <1>1, <1>4 DEF Without

LEMMA RemoveAtIsWithout ==
  ASSUME NEW s \in Seq(Chunks), NEW i \in 1 .. Len(s)
  PROVE  RemoveAt(s, i) = Without(s, i)
<1> DEFINE l == Len(s)
           a == SubSeq(s, 1, i - 1)
           c == SubSeq(s, i + 1, l)
<1>1. l \in Nat /\ i \in Nat /\ i > 0 /\ i <= l /\ \A k \in 1 .. l : s[k] \in Chunks
  BY ElementOfSeq
<1>2. /\ \A k \in 1 .. i - 1 : s[k] \in Chunks
      /\ \A k \in i + 1 .. l : s[k] \in Chunks
  BY <1>1
<1>3. /\ a \in Seq(Chunks) /\ Len(a) = i - 1
      /\ \A k \in 1 .. i - 1 : a[k] = s[k]
  <2>1. i - 1 \in Int /\ 1 \in Int
    BY <1>1
  <2> QED
    BY <1>1, <1>2, <2>1, SubSeqProperties
<1>4. /\ c \in Seq(Chunks) /\ Len(c) = l - i
      /\ \A k \in 1 .. l - i : c[k] = s[k + i]
  <2>1. i + 1 \in Int /\ l \in Int
    BY <1>1
  <2> QED
    BY <1>1, <1>2, <2>1, SubSeqProperties
<1> HIDE DEF a, c, l
<1>5. /\ a \o c \in Seq(Chunks) /\ Len(a \o c) = l - 1
      /\ \A k \in 1 .. l - 1 : (a \o c)[k] = IF k <= i - 1 THEN a[k] ELSE c[k - (i - 1)]
  <2>1. Len(a) + Len(c) = l - 1
    BY <1>1, <1>3, <1>4
  <2> QED
    BY <1>3, <1>4, <2>1, ConcatProperties
<1>6. \A k \in 1 .. l - 1 : (a \o c)[k] = IF k < i THEN s[k] ELSE s[k + 1]
  <2> SUFFICES ASSUME NEW k \in 1 .. l - 1
               PROVE  (a \o c)[k] = IF k < i THEN s[k] ELSE s[k + 1]
    OBVIOUS
  <2>1. CASE k < i
    <3>1. k \in 1 .. i - 1
      BY <1>1, <2>1
    <3> QED
      BY <1>1, <1>3, <1>5, <2>1, <3>1
  <2>2. CASE ~(k < i)
    <3>1. k - (i - 1) \in 1 .. l - i /\ (k - (i - 1)) + i = k + 1 /\ ~(k <= i - 1)
      BY <1>1, <2>2
    <3>2. c[k - (i - 1)] = s[k + 1]
      BY <1>4, <3>1
    <3> QED
      BY <1>5, <2>2, <3>1, <3>2
  <2> QED
    BY <2>1, <2>2
<1>7. a \o c = [k \in 1 .. l - 1 |-> (a \o c)[k]]
  <2> DEFINE t == a \o c
  <2>1. t \in Seq(Chunks) /\ Len(t) = l - 1
    BY <1>5
  <2> HIDE DEF t
  <2>2. t = [k \in 1 .. l - 1 |-> t[k]]
    BY <2>1
  <2> QED
    BY <2>2 DEF t
<1> QED
  BY <1>6, <1>7 DEF RemoveAt, Without, a, c, l

LEMMA RemoveShape ==
  ASSUME NEW s \in Seq(Chunks), NEW b \in Chunks,
         \A j, k \in 1 .. Len(s) : s[j] = s[k] => j = k
  PROVE  /\ (\A k \in 1 .. Len(s) : s[k] # b) => RemoveFirst(s, b) = s
         /\ \A i \in 1 .. Len(s) : s[i] = b => RemoveFirst(s, b) = Without(s, i)
<1>1. Len(s) \in Nat
  BY LenProperties
<1>2. (\A k \in 1 .. Len(s) : s[k] # b) => RemoveFirst(s, b) = s
  BY DEF RemoveFirst
<1>3. ASSUME NEW i \in 1 .. Len(s), s[i] = b
      PROVE  RemoveFirst(s, b) = Without(s, i)
  <2> DEFINE S == {k \in 1 .. Len(s) : s[k] = b}
  <2>1. S = {i}
    BY <1>3
  <2>2. Min({i}) = i
    BY DEF Min
  <2>3. SelectInSeq(s, LAMBDA v : v = b) = i
    BY <2>1, <2>2 DEF SelectInSeq
  <2>4. RemoveFirst(s, b) = RemoveAt(s, i)
    BY <1>3, <2>3 DEF RemoveFirst
  <2> QED
    BY <2>4, RemoveAtIsWithout
<1> QED
  BY <1>2, <1>3

-----------------------------------------------------------------------------
(* The list. *)

\* g gives the records reached from p in up to n steps.
Steps(g, p, nx, n) ==
  g = [k \in 0 .. n |-> IF k = 0 THEN p
                        ELSE IF g[k - 1] = Null THEN Null ELSE nx[g[k - 1]]]

LEMMA StepsExist ==
  ASSUME NEW p, NEW nx, NEW n \in Nat
  PROVE  \E g : Steps(g, p, nx, n)
<1> DEFINE S == {m \in Nat : \E g : Steps(g, p, nx, m)}
<1>1. 0 \in S
  <2> DEFINE g == [k \in 0 .. 0 |-> p]
  <2>1. Steps(g, p, nx, 0)
    BY DEF Steps
  <2> QED
    BY <2>1
<1>2. ASSUME NEW m \in S PROVE m + 1 \in S
  <2>1. PICK g : Steps(g, p, nx, m)
    OBVIOUS
  <2> DEFINE e == IF g[m] = Null THEN Null ELSE nx[g[m]]
             h == [k \in 0 .. m + 1 |-> IF k = m + 1 THEN e ELSE g[k]]
  <2>2. m \in Nat /\ h[m + 1] = e /\ \A k \in 0 .. m : h[k] = g[k]
    OBVIOUS
  <2>3. \A k \in 0 .. m + 1 : h[k] = IF k = 0 THEN p
                              ELSE IF h[k - 1] = Null THEN Null ELSE nx[h[k - 1]]
    <3> SUFFICES ASSUME NEW k \in 0 .. m + 1
                 PROVE  h[k] = IF k = 0 THEN p
                               ELSE IF h[k - 1] = Null THEN Null ELSE nx[h[k - 1]]
      OBVIOUS
    <3> HIDE DEF h
    <3>1. CASE k = m + 1
      BY <2>2, <3>1
    <3>2. CASE k # m + 1
      <4>1. k \in 0 .. m /\ (k # 0 => k - 1 \in 0 .. m)
        BY <2>2, <3>2
      <4> QED
        BY <2>1, <2>2, <4>1 DEF Steps
    <3> QED
      BY <3>1, <3>2
  <2>4. h = [k \in 0 .. m + 1 |-> h[k]]
    OBVIOUS
  <2>5. Steps(h, p, nx, m + 1)
    <3> HIDE DEF h
    <3> QED
      BY <2>3, <2>4 DEF Steps
  <2> QED
    BY <2>2, <2>5
<1> HIDE DEF S
<1>3. S = Nat
  <2>1. S \in SUBSET Nat
    BY DEF S
  <2> QED
    BY <1>1, <1>2, <2>1, NatInduct
<1> QED
  BY <1>3 DEF S

LEMMA HeapSize == Cardinality(Chunks) \in Nat
BY LeakAssumption, FS_CardinalityType

\* Nth is what its definition says.
LEMMA NthIsReached ==
  /\ Nth[0] = ptr_start
  /\ \A k \in 1 .. Cardinality(Chunks) :
       Nth[k] = IF Nth[k - 1] = Null THEN Null ELSE next[Nth[k - 1]]
<1> DEFINE n == Cardinality(Chunks)
<1>1. n \in Nat
  BY HeapSize
<1>2. \E g : Steps(g, ptr_start, next, n)
  BY <1>1, StepsExist
<1>3. Steps(Nth, ptr_start, next, n)
  BY <1>2, Zenon DEF Steps, Nth
<1> HIDE DEF n
<1>4. \A k \in 0 .. n : Nth[k] = IF k = 0 THEN ptr_start
                        ELSE IF Nth[k - 1] = Null THEN Null ELSE next[Nth[k - 1]]
  BY <1>3 DEF Steps
<1>5. \A k \in 1 .. n : k \in 0 .. n /\ k # 0
  BY <1>1
<1>6. 0 \in 0 .. n
  BY <1>1
<1> QED
  BY <1>4, <1>5, <1>6 DEF n

\* No chain is longer than the heap.
LEMMA ChainFits ==
  ASSUME NEW recs \in Seq(Chunks),
         \A j, k \in 1 .. Len(recs) : recs[j] = recs[k] => j = k
  PROVE  Len(recs) \in 0 .. Cardinality(Chunks)
<1>1. Len(recs) \in Nat
  BY LenProperties
<1>2. recs \in Injection(1 .. Len(recs), Chunks)
  BY DEF Injection, IsInjective
<1>3. Cardinality(1 .. Len(recs)) <= Cardinality(Chunks)
  BY <1>2, LeakAssumption, FS_Injection
<1>4. Cardinality(1 .. Len(recs)) = Len(recs)
  <2> DEFINE l == Len(recs)
  <2>1. 1 \in Int /\ l \in Int /\ l >= 0
    BY <1>1
  <2> HIDE DEF l
  <2>2. Cardinality(1 .. l) = IF 1 > l THEN 0 ELSE l - 1 + 1
    BY <2>1, FS_Interval
  <2> QED
    BY <2>1, <2>2 DEF l
<1> QED
  BY <1>1, <1>3, <1>4, HeapSize

\* The list's records are those of the chain.
LEMMA ChainIsList ==
  ASSUME NEW recs \in Seq(Chunks), Chain(recs)
  PROVE  /\ \A k \in 0 .. Len(recs) - 1 : Nth[k] = recs[k + 1]
         /\ Count = Len(recs)
         /\ Listed = [k \in 1 .. Len(recs) |-> address[recs[k]]]
<1> DEFINE l == Len(recs)
           n == Cardinality(Chunks)
<1>1. l \in Nat /\ n \in Nat /\ l <= n
  BY ChainFits, HeapSize, LenProperties DEF Chain
<1>2. \A k \in 1 .. l : recs[k] \in Chunks /\ recs[k] # Null
  BY ElementOfSeq, LeakAssumption
<1> HIDE DEF l, n
<1>3. /\ Nth[0] = IF l = 0 THEN Null ELSE recs[1]
      /\ \A k \in 1 .. n : Nth[k] = IF Nth[k - 1] = Null THEN Null ELSE next[Nth[k - 1]]
      /\ \A k \in 1 .. l : next[recs[k]] = IF k = l THEN Null ELSE recs[k + 1]
  BY NthIsReached DEF Chain, l, n
<1> DEFINE S == {k \in Nat : k <= l => Nth[k] = IF k = l THEN Null ELSE recs[k + 1]}
<1>4. 0 \in S
  BY <1>1, <1>3
<1>5. ASSUME NEW k \in S PROVE k + 1 \in S
  <2> SUFFICES ASSUME k + 1 <= l
               PROVE  Nth[k + 1] = IF k + 1 = l THEN Null ELSE recs[(k + 1) + 1]
    OBVIOUS
  <2>1. k \in Nat /\ k + 1 \in 1 .. l /\ k + 1 \in 1 .. n /\ (k + 1) - 1 = k
    BY <1>1
  <2>2. Nth[k] = recs[k + 1]
    BY <1>1, <2>1
  <2>3. Nth[k + 1] = next[recs[k + 1]]
    BY <1>2, <1>3, <2>1, <2>2
  <2> QED
    BY <1>3, <2>1, <2>3
<1>6. S = Nat
  <2>1. S \in SUBSET Nat
    OBVIOUS
  <2> HIDE DEF S
  <2> QED
    BY <1>4, <1>5, <2>1, NatInduct
<1>7. \A k \in 0 .. l : Nth[k] = IF k = l THEN Null ELSE recs[k + 1]
  <2> SUFFICES ASSUME NEW k \in 0 .. l
               PROVE  Nth[k] = IF k = l THEN Null ELSE recs[k + 1]
    OBVIOUS
  <2>1. k \in S /\ k <= l
    BY <1>1, <1>6
  <2> QED
    BY <2>1
<1> HIDE DEF S
<1>8. \A k \in 0 .. l - 1 : Nth[k] = recs[k + 1] /\ Nth[k] # Null
  <2> SUFFICES ASSUME NEW k \in 0 .. l - 1
               PROVE  Nth[k] = recs[k + 1] /\ Nth[k] # Null
    OBVIOUS
  <2>1. k \in 0 .. l /\ k # l /\ k + 1 \in 1 .. l
    BY <1>1
  <2> QED
    BY <1>2, <1>7, <2>1
<1>9. Nth[l] = Null /\ l \in 0 .. n
  BY <1>1, <1>7
<1>10. Count = l
  <2>1. ASSUME NEW k \in 0 .. n, Nth[k] = Null, \A j \in 0 .. k - 1 : Nth[j] # Null
        PROVE  k = l
    <3>1. CASE k < l
      <4>1. k \in 0 .. l - 1
        BY <1>1, <3>1
      <4> QED
        BY <1>8, <2>1, <4>1
    <3>2. CASE l < k
      <4>1. l \in 0 .. k - 1
        BY <1>1, <3>2
      <4> QED
        BY <1>9, <2>1, <4>1
    <3> QED
      BY <1>1, <3>1, <3>2
  <2>2. l \in 0 .. n /\ Nth[l] = Null /\ \A j \in 0 .. l - 1 : Nth[j] # Null
    BY <1>8, <1>9
  <2> QED
    BY <2>1, <2>2 DEF Count, n
<1>11. Listed = [k \in 1 .. l |-> address[recs[k]]]
  <2>1. \A k \in 1 .. l : Nth[k - 1] = recs[k]
    <3> SUFFICES ASSUME NEW k \in 1 .. l PROVE Nth[k - 1] = recs[k]
      OBVIOUS
    <3>1. k - 1 \in 0 .. l - 1 /\ (k - 1) + 1 = k
      BY <1>1
    <3>2. Nth[k - 1] = recs[(k - 1) + 1]
      BY <1>8, <3>1
    <3> QED
      BY <3>1, <3>2
  <2> QED
    BY <1>10, <2>1 DEF Listed
<1> QED
  BY <1>8, <1>10, <1>11 DEF l

-----------------------------------------------------------------------------
(* Allocation. *)

\* The new record is put behind the last one, or gets lost behind freed memory.
LEMMA AddStep ==
  ASSUME IInv, ~ended, NEW b \in Chunks, NEW m \in Chunks \ {b},
         role[b] = "free", role[m] = "free", inUse' = Append(inUse, b),
         Add(b, m), UNCHANGED <<reported, tailErased, wrapped>>
  PROVE  IInv'
<1> USE DEF IInv
<1>1. PICK recs \in Seq(Chunks) : Chain(recs) /\ LastInv(recs) /\ Addresses(recs)
  BY DEF ListInv
<1> DEFINE l == Len(recs)
<1>2. l \in Nat /\ \A k \in 1 .. l : recs[k] \in Chunks /\ role[recs[k]] = "record"
  BY <1>1, ElementOfSeq DEF Chain
<1>3. /\ role' = [role EXCEPT ![b] = "block", ![m] = "record"]
      /\ address' = [address EXCEPT ![m] = b]
      /\ ptr_next' = m /\ ended' = ended
  BY DEF Add
<1>4. /\ role' \in [Chunks -> {"free", "block", "foreign", "record"}]
      /\ role'[b] = "block" /\ role'[m] = "record"
      /\ \A x \in Chunks \ {b, m} : role'[x] = role[x]
  BY <1>3 DEF TypeOK
<1>5. /\ address' \in [Chunks -> Chunks \cup {Null}]
      /\ address'[m] = b /\ \A x \in Chunks \ {m} : address'[x] = address[x]
  BY <1>3 DEF TypeOK
<1>6. /\ inUse' \in Seq(Chunks) /\ Len(inUse') = Len(inUse) + 1 /\ Len(inUse) \in Nat
      /\ inUse'[Len(inUse) + 1] = b
      /\ \A k \in 1 .. Len(inUse) : inUse'[k] = inUse[k]
  BY AppendProperties, LenProperties DEF TypeOK
<1>7. \A k \in 1 .. Len(inUse) : inUse[k] # b /\ inUse[k] \in Chunks
  BY ElementOfSeq DEF TypeOK, BlocksInv
<1>8. \A k \in 1 .. l : recs[k] # b /\ recs[k] # m
  BY <1>2
<1>9. BlocksInv'
  <2>1. \A k \in 1 .. Len(inUse') : k \in 1 .. Len(inUse) \/ k = Len(inUse) + 1
    BY <1>6
  <2>2. Len(inUse) + 1 \in 1 .. Len(inUse')
        /\ \A k \in 1 .. Len(inUse) : k \in 1 .. Len(inUse')
    BY <1>6
  <2>3. ASSUME NEW x \in Chunks
        PROVE  role'[x] = "block" <=> \E k \in 1 .. Len(inUse') : inUse'[k] = x
    <3>1. CASE x = b
      BY <1>4, <1>6, <2>2, <3>1
    <3>2. CASE x = m
      BY <1>4, <1>6, <2>1, <3>2 DEF BlocksInv
    <3>3. CASE x \notin {b, m}
      BY <1>4, <1>6, <2>1, <2>2, <3>3 DEF BlocksInv
    <3> QED
      BY <3>1, <3>2, <3>3
  <2>4. ASSUME NEW j \in 1 .. Len(inUse'), NEW k \in 1 .. Len(inUse'), inUse'[j] = inUse'[k]
        PROVE  j = k
    BY <1>6, <1>7, <2>1, <2>4 DEF BlocksInv
  <2> QED
    BY <2>3, <2>4 DEF BlocksInv
<1>10. ReportInv'
  <2>1. ToSet(inUse) \subseteq ToSet(inUse')
    <3>1. DOMAIN inUse = 1 .. Len(inUse) /\ DOMAIN inUse' = 1 .. Len(inUse')
      BY <1>6, LenProperties DEF TypeOK
    <3>2. \A k \in 1 .. Len(inUse) : k \in 1 .. Len(inUse')
      BY <1>6
    <3> QED
      BY <1>6, <3>1, <3>2 DEF ToSet
  <2> QED
    BY <1>3, <2>1 DEF ReportInv
<1>11. CASE ptr_start = Null
  <2>1. /\ ptr_start' = m /\ next' = [next EXCEPT ![m] = Null] /\ UNCHANGED overwritten
    BY <1>11 DEF Add
  <2>2. l = 0
    BY <1>1, <1>2, <1>11, LeakAssumption DEF Chain
  <2>3. TypeOK'
    BY <1>3, <1>4, <1>5, <1>6, <2>1 DEF TypeOK
  <2>4. next'[m] = Null
    BY <2>1 DEF TypeOK
  <2> DEFINE r == <<m>>
  <2>5. r \in Seq(Chunks) /\ Len(r) = 1 /\ r[1] = m /\ \A k \in 1 .. 1 : k = 1
    OBVIOUS
  <2> HIDE DEF r
  <2>6. Chain(r)'
    BY <1>4, <1>5, <2>1, <2>4, <2>5 DEF Chain
  <2>7. LastInv(r)'
    BY <1>3, <2>5 DEF LastInv
  <2>8. Addresses(r)'
    <3>1. ~tailErased /\ ~wrapped => inUse' = [k \in 1 .. 1 |-> address'[r[k]]]
      <4> SUFFICES ASSUME ~tailErased, ~wrapped
                   PROVE  inUse' = [k \in 1 .. 1 |-> address'[r[k]]]
        OBVIOUS
      <4>1. Len(inUse) = 0
        <5>1. inUse = [k \in 1 .. l |-> address[recs[k]]]
          BY <1>1 DEF Addresses
        <5>2. DOMAIN inUse = 1 .. 0
          BY <2>2, <5>1
        <5>3. inUse \in Seq(Chunks)
          BY DEF TypeOK
        <5>4. 1 .. Len(inUse) = 1 .. 0
          BY <5>2, <5>3, LenProperties
        <5> QED
          BY <1>6, <5>4
      <4>2. Len(inUse') = 1 /\ inUse'[1] = b
        BY <1>6, <4>1
      <4>3. inUse' = [k \in 1 .. 1 |-> inUse'[k]]
        BY <1>6, <4>2, SeqIsFunction
      <4> QED
        BY <1>5, <2>5, <4>2, <4>3
    <3> QED
      BY <1>4, <1>5, <2>5, <3>1 DEF Addresses
  <2>9. OwnMemoryOnly'
    BY <2>1 DEF OwnMemoryOnly
  <2> QED
    BY <1>9, <1>10, <2>3, <2>5, <2>6, <2>7, <2>8, <2>9 DEF ListInv
<1>12. CASE ptr_start # Null
  <2>1. /\ ptr_start' = ptr_start /\ next' = Linked(m)
        /\ overwritten' = overwritten \cup
             {x \in {ptr_next} : role'[x] \in {"block", "foreign"}}
    BY <1>12 DEF Add
  <2>2. l > 0 /\ l \in 1 .. l /\ 1 \in 1 .. l
    BY <1>1, <1>2, <1>12 DEF Chain
  <2>3. OwnMemoryOnly' /\ overwritten' \subseteq Chunks
    <3>1. tailErased \/ ptr_next = recs[l]
      BY <1>1, <2>2 DEF LastInv
    <3>2. recs[l] \in Chunks \ {b, m} /\ role[recs[l]] = "record"
      BY <1>2, <1>8, <2>2
    <3>3. tailErased \/ overwritten' = {}
      BY <1>4, <2>1, <3>1, <3>2 DEF OwnMemoryOnly
    <3>4. overwritten' \subseteq Chunks
      <4>1. ptr_next \in Chunks
        BY <1>1, <2>2 DEF LastInv
      <4> QED
        BY <2>1, <4>1 DEF TypeOK
    <3> QED
      BY <3>3, <3>4 DEF OwnMemoryOnly
  <2>4. /\ next' \in [Chunks -> Chunks \cup {Null}]
        /\ \A x \in Chunks \ {m, ptr_next} : next'[x] = next[x]
        /\ ptr_next # m => next'[m] = Null
        /\ ptr_next \in Chunks \ {m} /\ role[ptr_next] = "record" => next'[ptr_next] = m
    BY <2>1 DEF TypeOK, Linked
  <2>5. TypeOK'
    BY <1>3, <1>4, <1>5, <1>6, <2>1, <2>3, <2>4 DEF TypeOK
  <2>6. CASE ptr_next = recs[l]
    <3> DEFINE r == Append(recs, m)
    <3>1. /\ r \in Seq(Chunks) /\ Len(r) = l + 1 /\ r[l + 1] = m
          /\ \A k \in 1 .. l : r[k] = recs[k]
      BY AppendProperties
    <3> HIDE DEF r, l
    <3>2. \A k \in 1 .. Len(r) : k \in 1 .. l \/ k = l + 1
      BY <1>2, <3>1
    <3>3. l + 1 # l /\ 1 \in 1 .. l /\ Len(r) # 0
      BY <1>2, <2>2, <3>1
    <3>4. ptr_next \in Chunks \ {m} /\ role[ptr_next] = "record"
      BY <1>2, <1>8, <2>2, <2>6
    <3>5. \A k \in 1 .. Len(r) : next'[r[k]] = IF k = Len(r) THEN Null ELSE r[k + 1]
      <4> SUFFICES ASSUME NEW k \in 1 .. Len(r)
                   PROVE  next'[r[k]] = IF k = Len(r) THEN Null ELSE r[k + 1]
        OBVIOUS
      <4>1. CASE k = l + 1
        BY <2>4, <3>1, <3>4, <4>1
      <4>2. CASE k = l
        <5>1. next'[recs[l]] = m /\ r[k] = recs[l] /\ k # Len(r)
          BY <2>2, <2>4, <2>6, <3>1, <3>3, <3>4, <4>2
        <5> QED
          BY <3>1, <4>2, <5>1
      <4>3. CASE k # l + 1 /\ k # l
        <5>1. k \in 1 .. l /\ k + 1 \in 1 .. l
          BY <1>2, <3>1, <4>3
        <5>2. recs[k] # recs[l] /\ recs[k] # m /\ recs[k] \in Chunks
          BY <1>1, <1>2, <1>8, <2>2, <4>3, <5>1 DEF Chain, l
        <5>3. next'[recs[k]] = next[recs[k]]
          BY <2>4, <2>6, <5>2
        <5>4. next[recs[k]] = recs[k + 1]
          BY <1>1, <4>3, <5>1 DEF Chain, l
        <5> QED
          BY <3>1, <4>3, <5>1, <5>3, <5>4
      <4> QED
        BY <4>1, <4>2, <4>3
    <3>6. \A j, k \in 1 .. Len(r) : r[j] = r[k] => j = k
      BY <1>1, <1>8, <3>1, <3>2 DEF Chain, l
    <3>7. \A k \in 1 .. Len(r) : role'[r[k]] = "record"
      BY <1>2, <1>4, <1>8, <3>1, <3>2
    <3>8. ptr_start' = r[1]
      BY <1>1, <2>1, <2>2, <3>1, <3>3 DEF Chain, l
    <3>9. Chain(r)'
      <4>1. \A k \in 1 .. Len(r) : address'[r[k]] \in Chunks
        BY <1>1, <1>2, <1>5, <1>8, <3>1, <3>2 DEF Chain, l
      <4> QED
        BY <3>1, <3>3, <3>5, <3>6, <3>7, <3>8, <4>1 DEF Chain
    <3>10. LastInv(r)'
      BY <1>3, <1>8, <3>1, <3>2 DEF LastInv
    <3>11. Addresses(r)'
      <4> SUFFICES ASSUME ~wrapped PROVE Addresses(r)'
        BY DEF Addresses
      <4>1. /\ \A k \in 1 .. l : /\ address[recs[k]] \in Chunks
                                 /\ role[address[recs[k]]] = "block"
            /\ \A j, k \in 1 .. l : address[recs[j]] = address[recs[k]] => j = k
            /\ ~tailErased => inUse = [k \in 1 .. l |-> address[recs[k]]]
        BY <1>1 DEF Addresses, Chain, l
      <4>2. \A k \in 1 .. l : address'[r[k]] = address[recs[k]]
        BY <1>2, <1>5, <1>8, <3>1
      <4>3. address'[r[l + 1]] = b
        BY <1>5, <3>1
      <4>4. \A k \in 1 .. l : /\ address[recs[k]] # b
                              /\ role'[address[recs[k]]] = "block"
        BY <1>4, <4>1
      <4>5. /\ \A k \in 1 .. Len(r) : /\ address'[r[k]] \in Chunks
                                      /\ role'[address'[r[k]]] = "block"
            /\ \A j, k \in 1 .. Len(r) : address'[r[j]] = address'[r[k]] => j = k
        BY <1>4, <3>2, <4>1, <4>2, <4>3, <4>4
      <4>6. ~tailErased => inUse' = [k \in 1 .. Len(r) |-> address'[r[k]]]
        <5> SUFFICES ASSUME ~tailErased
                     PROVE  inUse' = [k \in 1 .. Len(r) |-> address'[r[k]]]
          OBVIOUS
        <5>1. inUse = [k \in 1 .. l |-> address[recs[k]]]
          BY <4>1
        <5>2. DOMAIN inUse = 1 .. l
          BY <5>1
        <5>3. DOMAIN inUse = 1 .. Len(inUse)
          BY LenProperties DEF TypeOK
        <5>4. Len(inUse) = l
          BY <1>2, <1>6, <5>2, <5>3
        <5>5. \A k \in 1 .. Len(r) : inUse'[k] = address'[r[k]]
          BY <1>6, <3>2, <4>2, <4>3, <5>1, <5>4
        <5>6. inUse' = [k \in 1 .. Len(r) |-> inUse'[k]]
          BY <1>6, <3>1, <5>4, SeqIsFunction
        <5> QED
          BY <5>5, <5>6
      <4> QED
        BY <4>5, <4>6 DEF Addresses
    <3> QED
      BY <1>9, <1>10, <2>3, <2>5, <3>1, <3>9, <3>10, <3>11 DEF ListInv
  <2>7. CASE ptr_next # recs[l]
    <3>1. tailErased
      BY <1>1, <2>2, <2>7 DEF LastInv
    <3>2. \A k \in 1 .. l : recs[k] # ptr_next
      BY <1>1, <2>7 DEF LastInv
    <3> HIDE DEF l
    <3>3. \A k \in 1 .. l : next'[recs[k]] = next[recs[k]]
      BY <1>2, <1>8, <2>4, <3>2
    <3>4. \A k \in 1 .. l : role'[recs[k]] = "record"
      BY <1>2, <1>4, <1>8
    <3>5. Chain(recs)'
      <4>1. \A k \in 1 .. l : address'[recs[k]] = address[recs[k]]
        BY <1>2, <1>5, <1>8
      <4> QED
        BY <1>1, <2>1, <3>3, <3>4, <4>1 DEF Chain, l
    <3>6. LastInv(recs)'
      BY <1>3, <1>8, <3>1 DEF LastInv, l
    <3>7. Addresses(recs)'
      <4> SUFFICES ASSUME ~wrapped PROVE Addresses(recs)'
        BY DEF Addresses
      <4>1. \A k \in 1 .. l : address'[recs[k]] = address[recs[k]]
        BY <1>2, <1>5, <1>8
      <4>2. \A k \in 1 .. l : role'[address[recs[k]]] = "block"
        BY <1>1, <1>4 DEF Addresses, Chain, l
      <4> QED
        BY <1>1, <3>1, <4>1, <4>2 DEF Addresses, l
    <3> QED
      BY <1>9, <1>10, <2>3, <2>5, <3>5, <3>6, <3>7 DEF ListInv
  <2> QED
    BY <2>6, <2>7
<1> QED
  BY <1>11, <1>12

\* A block is in use without a record, and the process ends.
LEMMA NoMemoryStep ==
  ASSUME IInv, NEW b \in Chunks, role[b] = "free", inUse' = Append(inUse, b),
         NoMemoryForRecord(b), UNCHANGED <<reported, tailErased, wrapped>>
  PROVE  IInv'
<1> USE DEF IInv
<1>1. /\ role' = [role EXCEPT ![b] = "block"] /\ ended' = TRUE
      /\ UNCHANGED <<listVars, overwritten>>
  BY DEF NoMemoryForRecord
<1>2. role'[b] = "block" /\ \A x \in Chunks \ {b} : role'[x] = role[x]
  BY <1>1 DEF TypeOK
<1>3. /\ inUse' \in Seq(Chunks) /\ Len(inUse') = Len(inUse) + 1 /\ Len(inUse) \in Nat
      /\ inUse'[Len(inUse) + 1] = b
      /\ \A k \in 1 .. Len(inUse) : inUse'[k] = inUse[k]
  BY AppendProperties, LenProperties DEF TypeOK
<1>4. \A k \in 1 .. Len(inUse) : inUse[k] # b /\ inUse[k] \in Chunks
  BY ElementOfSeq DEF TypeOK, BlocksInv
<1>5. \A k \in 1 .. Len(inUse') : k \in 1 .. Len(inUse) \/ k = Len(inUse) + 1
  BY <1>3
<1>6. Len(inUse) + 1 \in 1 .. Len(inUse')
      /\ \A k \in 1 .. Len(inUse) : k \in 1 .. Len(inUse')
  BY <1>3
<1>7. BlocksInv'
  <2>1. ASSUME NEW x \in Chunks
        PROVE  role'[x] = "block" <=> \E k \in 1 .. Len(inUse') : inUse'[k] = x
    <3>1. CASE x = b
      BY <1>2, <1>3, <1>6, <3>1
    <3>2. CASE x # b
      BY <1>2, <1>3, <1>5, <1>6, <3>2 DEF BlocksInv
    <3> QED
      BY <3>1, <3>2
  <2>2. ASSUME NEW j \in 1 .. Len(inUse'), NEW k \in 1 .. Len(inUse'), inUse'[j] = inUse'[k]
        PROVE  j = k
    BY <1>3, <1>4, <1>5, <2>2 DEF BlocksInv
  <2> QED
    BY <2>1, <2>2 DEF BlocksInv
<1>8. ReportInv'
  <2>1. ToSet(inUse) \subseteq ToSet(inUse')
    <3>1. DOMAIN inUse = 1 .. Len(inUse) /\ DOMAIN inUse' = 1 .. Len(inUse')
      BY <1>3, LenProperties DEF TypeOK
    <3> QED
      BY <1>3, <1>6, <3>1 DEF ToSet
  <2> QED
    BY <1>1, <2>1 DEF ReportInv
<1>9. TypeOK'
  BY <1>1, <1>3 DEF TypeOK, listVars
<1> QED
  BY <1>1, <1>7, <1>8, <1>9 DEF ListInv, OwnMemoryOnly

LEMMA PlainMallocStep ==
  ASSUME IInv, PlainMalloc
  PROVE  IInv'
<1> USE DEF IInv
<1>1. PICK b \in Chunks : role[b] = "free" /\ role' = [role EXCEPT ![b] = "foreign"]
  BY DEF PlainMalloc
<1>2. /\ ~ended
      /\ UNCHANGED <<listVars, ended, reported, inUse, tailErased, wrapped, overwritten>>
  BY DEF PlainMalloc
<1>3. role'[b] = "foreign" /\ \A x \in Chunks \ {b} : role'[x] = role[x]
  BY <1>1 DEF TypeOK
<1>4. TypeOK'
  BY <1>1, <1>2 DEF TypeOK, listVars
<1>5. BlocksInv'
  BY <1>1, <1>2, <1>3 DEF BlocksInv
<1>6. ListInv'
  <2>1. PICK recs \in Seq(Chunks) : Chain(recs) /\ LastInv(recs) /\ Addresses(recs)
    BY <1>2 DEF ListInv
  <2>2. \A k \in 1 .. Len(recs) : recs[k] \in Chunks /\ role[recs[k]] = "record"
    BY <2>1, ElementOfSeq DEF Chain
  <2>3. \A k \in 1 .. Len(recs) : role'[recs[k]] = "record"
    BY <1>1, <1>3, <2>2
  <2>4. Chain(recs)'
    BY <1>2, <2>1, <2>3 DEF Chain, listVars
  <2>5. LastInv(recs)'
    BY <1>2, <2>1 DEF LastInv, listVars
  <2>6. ~wrapped => \A k \in 1 .. Len(recs) : role'[address[recs[k]]] = "block"
    BY <1>1, <1>3, <2>1 DEF Addresses, Chain
  <2>7. Addresses(recs)'
    BY <1>2, <2>1, <2>6 DEF Addresses, listVars
  <2> QED
    BY <2>4, <2>5, <2>7 DEF ListInv
<1> QED
  BY <1>2, <1>4, <1>5, <1>6 DEF ReportInv, OwnMemoryOnly

-----------------------------------------------------------------------------
(* Freeing. *)

\* A chunk that is freed is taken from the blocks in use.
LEMMA FreedBlocks ==
  ASSUME TypeOK, BlocksInv, NEW b \in Chunks, inUse' = RemoveFirst(inUse, b),
         \A x \in Chunks : role'[x] = "block" <=> (role[x] = "block" /\ x # b)
  PROVE  BlocksInv' /\ inUse' \in Seq(Chunks)
<1>1. inUse \in Seq(Chunks) /\ Len(inUse) \in Nat
  BY LenProperties DEF TypeOK
<1>2. \A k \in 1 .. Len(inUse) : inUse[k] \in Chunks
  BY <1>1, ElementOfSeq
<1>3. CASE \A k \in 1 .. Len(inUse) : inUse[k] # b
  <2>1. inUse' = inUse
    BY <1>1, <1>3, RemoveShape DEF BlocksInv
  <2> QED
    BY <1>1, <1>3, <2>1 DEF BlocksInv
<1>4. ASSUME NEW i \in 1 .. Len(inUse), inUse[i] = b
      PROVE  BlocksInv' /\ inUse' \in Seq(Chunks)
  <2> DEFINE n == Len(inUse)
  <2>1. inUse' = Without(inUse, i)
    BY <1>1, <1>4, RemoveShape DEF BlocksInv
  <2>2. /\ inUse' \in Seq(Chunks) /\ Len(inUse') = n - 1 /\ n - 1 \in Nat
        /\ \A k \in 1 .. n - 1 : inUse'[k] = IF k < i THEN inUse[k] ELSE inUse[k + 1]
    BY <1>1, <2>1, WithoutShape
  <2> HIDE DEF n
  <2>3. n \in Nat /\ i \in 1 .. n /\ i \in Nat
        /\ \A j, k \in 1 .. n : inUse[j] = inUse[k] => j = k
    BY <1>1 DEF BlocksInv, n
  <2>4. ASSUME NEW k \in 1 .. n - 1
        PROVE  \E o \in 1 .. n : /\ o # i /\ inUse'[k] = inUse[o]
                                 /\ o = IF k < i THEN k ELSE k + 1
    <3>1. CASE k < i
      <4>1. k \in 1 .. n /\ k # i
        BY <2>3, <3>1
      <4> QED
        BY <2>2, <3>1, <4>1
    <3>2. CASE ~(k < i)
      <4>1. k + 1 \in 1 .. n /\ k + 1 # i
        BY <2>3, <3>2
      <4> QED
        BY <2>2, <3>2, <4>1
    <3> QED
      BY <3>1, <3>2
  <2>5. ASSUME NEW o \in 1 .. n, o # i
        PROVE  \E k \in 1 .. n - 1 : inUse'[k] = inUse[o]
    <3>1. CASE o < i
      <4>1. o \in 1 .. n - 1
        BY <2>3, <3>1
      <4> QED
        BY <2>2, <3>1, <4>1
    <3>2. CASE ~(o < i)
      <4>1. o - 1 \in 1 .. n - 1 /\ ~(o - 1 < i) /\ (o - 1) + 1 = o
        BY <2>3, <2>5, <3>2
      <4> QED
        BY <2>2, <4>1
    <3> QED
      BY <3>1, <3>2
  <2>6. ASSUME NEW j \in 1 .. n - 1, NEW k \in 1 .. n - 1, inUse'[j] = inUse'[k]
        PROVE  j = k
    <3>1. PICK o \in 1 .. n : inUse'[j] = inUse[o] /\ o = IF j < i THEN j ELSE j + 1
      BY <2>4
    <3>2. PICK q \in 1 .. n : inUse'[k] = inUse[q] /\ q = IF k < i THEN k ELSE k + 1
      BY <2>4
    <3>3. o = q
      BY <2>3, <2>6, <3>1, <3>2
    <3> QED
      BY <2>3, <3>1, <3>2, <3>3
  <2>7. ASSUME NEW x \in Chunks
        PROVE  role'[x] = "block" <=> \E k \in 1 .. n - 1 : inUse'[k] = x
    <3>1. role[x] = "block" <=> \E k \in 1 .. n : inUse[k] = x
      BY DEF BlocksInv, n
    <3>2. CASE x = b
      <4>1. \A k \in 1 .. n - 1 : inUse'[k] # b
        BY <1>4, <2>3, <2>4
      <4> QED
        BY <3>2, <4>1
    <3>3. CASE x # b
      <4>1. (\E k \in 1 .. n : inUse[k] = x) => \E k \in 1 .. n - 1 : inUse'[k] = x
        BY <1>4, <2>5, <3>3
      <4>2. (\E k \in 1 .. n - 1 : inUse'[k] = x) => \E k \in 1 .. n : inUse[k] = x
        BY <2>4
      <4> QED
        BY <3>1, <3>3, <4>1, <4>2
    <3> QED
      BY <3>2, <3>3
  <2> QED
    BY <2>2, <2>6, <2>7 DEF BlocksInv
<1> QED
  BY <1>3, <1>4

\* The block has no record in the list; the list stays.
LEMMA FreeUnlisted ==
  ASSUME IInv, ~ended, NEW b \in Chunks, role[b] \in {"block", "foreign"},
         \A k \in 0 .. Count - 1 : address[Nth[k]] # b,
         role' = [role EXCEPT ![b] = "free"], inUse' = RemoveFirst(inUse, b),
         UNCHANGED <<listVars, tailErased, wrapped, ended, reported, overwritten>>
  PROVE  TypeOK' /\ BlocksInv' /\ ListInv' /\ OwnMemoryOnly'
<1> USE DEF IInv
<1>1. PICK recs \in Seq(Chunks) : Chain(recs) /\ LastInv(recs) /\ Addresses(recs)
  BY DEF ListInv
<1> DEFINE l == Len(recs)
<1>2. l \in Nat /\ \A k \in 1 .. l : recs[k] \in Chunks /\ role[recs[k]] = "record"
  BY <1>1, ElementOfSeq DEF Chain
<1>3. role'[b] = "free" /\ \A x \in Chunks \ {b} : role'[x] = role[x]
  BY DEF TypeOK
<1>4. BlocksInv' /\ inUse' \in Seq(Chunks)
  BY <1>3, FreedBlocks
<1>5. TypeOK'
  BY <1>4 DEF TypeOK, listVars
<1>6. \A k \in 1 .. l : address[recs[k]] # b
  <2> SUFFICES ASSUME NEW k \in 1 .. l PROVE address[recs[k]] # b
    OBVIOUS
  <2>1. k - 1 \in 0 .. l - 1 /\ (k - 1) + 1 = k
    BY <1>2
  <2>2. Nth[k - 1] = recs[(k - 1) + 1] /\ Count = l
    BY <1>1, <2>1, ChainIsList
  <2> QED
    BY <2>1, <2>2
<1>7. \A k \in 1 .. l : role'[recs[k]] = "record"
  BY <1>2, <1>3
<1>8. Chain(recs)' /\ LastInv(recs)'
  BY <1>1, <1>7 DEF Chain, LastInv, listVars
<1>9. Addresses(recs)'
  <2> SUFFICES ASSUME ~wrapped PROVE Addresses(recs)'
    BY DEF Addresses
  <2> HIDE DEF l
  <2>1. \A k \in 1 .. l : role'[address[recs[k]]] = "block"
    BY <1>1, <1>3, <1>6 DEF Addresses, Chain, l
  <2>2. ~tailErased => inUse' = inUse
    <3> SUFFICES ASSUME ~tailErased PROVE inUse' = inUse
      OBVIOUS
    <3>1. inUse = [k \in 1 .. l |-> address[recs[k]]]
      BY <1>1 DEF Addresses, l
    <3>2. DOMAIN inUse = 1 .. l /\ DOMAIN inUse = 1 .. Len(inUse) /\ inUse \in Seq(Chunks)
      BY <3>1, LenProperties DEF TypeOK
    <3>3. \A k \in 1 .. Len(inUse) : inUse[k] # b
      BY <1>6, <3>1, <3>2
    <3> QED
      BY <3>2, <3>3, RemoveShape DEF BlocksInv
  <2> QED
    BY <1>1, <2>1, <2>2 DEF Addresses, listVars, l
<1> QED
  BY <1>4, <1>5, <1>8, <1>9 DEF ListInv, OwnMemoryOnly

\* erase takes the record at p out of the chain.
LEMMA EraseStep ==
  ASSUME TypeOK, NEW recs \in Seq(Chunks), Chain(recs), LastInv(recs),
         NEW p \in 1 .. Len(recs), Erase(p - 1),
         \A k \in 1 .. Len(recs) : k # p => role'[recs[k]] = "record"
  PROVE  /\ Chain(Without(recs, p))'
         /\ LastInv(Without(recs, p))'
         /\ next' \in [Chunks -> Chunks \cup {Null}]
         /\ ptr_start' \in Chunks \cup {Null}
         /\ address' = [address EXCEPT ![recs[p]] = Null]
         /\ tailErased => tailErased'
<1> DEFINE l == Len(recs)
           r == Without(recs, p)
<1>1. /\ l \in Nat /\ p \in Nat /\ p >= 1 /\ p <= l
      /\ \A k \in 1 .. l : recs[k] \in Chunks
  BY ElementOfSeq
<1>2. /\ r \in Seq(Chunks) /\ Len(r) = l - 1 /\ l - 1 \in Nat
      /\ \A k \in 1 .. l - 1 : r[k] = IF k < p THEN recs[k] ELSE recs[k + 1]
  BY WithoutShape
<1>3. Count = l /\ \A k \in 0 .. l - 1 : Nth[k] = recs[k + 1]
  BY ChainIsList
<1>4. /\ \A j, k \in 1 .. l : recs[j] = recs[k] => j = k
      /\ ptr_start = IF l = 0 THEN Null ELSE recs[1]
      /\ \A k \in 1 .. l : next[recs[k]] = IF k = l THEN Null ELSE recs[k + 1]
      /\ \A k \in 1 .. l : k # p => role'[recs[k]] = "record"
      /\ \A k \in 1 .. l : address[recs[k]] \in Chunks
  BY DEF Chain
<1>5. /\ \A k \in 1 .. l : recs[k] = ptr_next => k = l
      /\ l # 0 => /\ ptr_next \in Chunks
                  /\ ~tailErased => ptr_next = recs[l]
  BY DEF LastInv
<1> HIDE DEF l, r
<1>6. /\ p - 1 \in 0 .. l - 1 /\ Nth[p - 1] = recs[p]
      /\ p # 1 => p - 2 \in 0 .. l - 1 /\ Nth[(p - 1) - 1] = recs[p - 1]
  <2>1. p - 1 \in 0 .. l - 1 /\ (p - 1) + 1 = p
    BY <1>1
  <2>2. p # 1 => p - 2 \in 0 .. l - 1 /\ (p - 2) + 1 = p - 1 /\ (p - 1) - 1 = p - 2
    BY <1>1
  <2> QED
    BY <1>3, <2>1, <2>2
<1>7. /\ p = 1 => /\ ptr_start' = next[recs[p]]
                  /\ next' = [next EXCEPT ![recs[p]] = Null]
      /\ p # 1 => /\ ptr_start' = ptr_start
                  /\ next' = [next EXCEPT ![recs[p - 1]] = next[recs[p]],
                                          ![recs[p]] = Null]
      /\ address' = [address EXCEPT ![recs[p]] = Null]
      /\ tailErased' = (tailErased \/ (p - 1 > 0 /\ p - 1 = l - 1))
      /\ ptr_next' = ptr_next
  BY <1>1, <1>3, <1>6 DEF Erase
<1>8. /\ next \in [Chunks -> Chunks \cup {Null}]
      /\ ptr_start \in Chunks \cup {Null}
      /\ next[recs[p]] \in Chunks \cup {Null}
  BY <1>1 DEF TypeOK
<1>9. next' \in [Chunks -> Chunks \cup {Null}] /\ ptr_start' \in Chunks \cup {Null}
  BY <1>7, <1>8
<1>10. /\ \A k \in 1 .. l : k # p /\ k # p - 1 => next'[recs[k]] = next[recs[k]]
       /\ p # 1 => next'[recs[p - 1]] = next[recs[p]]
  <2>1. ASSUME NEW k \in 1 .. l, k # p, k # p - 1
        PROVE  next'[recs[k]] = next[recs[k]]
    <3>1. recs[k] # recs[p] /\ (p # 1 => recs[k] # recs[p - 1])
      BY <1>1, <1>4, <2>1
    <3> QED
      BY <1>1, <1>7, <1>8, <3>1
  <2>2. ASSUME p # 1 PROVE next'[recs[p - 1]] = next[recs[p]]
    <3>1. p - 1 \in 1 .. l /\ p - 1 # p
      BY <1>1, <2>2
    <3>2. recs[p - 1] # recs[p] /\ recs[p - 1] \in Chunks
      BY <1>1, <1>4, <3>1
    <3> QED
      BY <1>7, <1>8, <2>2, <3>2
  <2> QED
    BY <2>1, <2>2
<1>11. ASSUME NEW k \in 1 .. l - 1
       PROVE  \E o \in 1 .. l : /\ o # p /\ r[k] = recs[o]
                                /\ o = IF k < p THEN k ELSE k + 1
  <2>1. CASE k < p
    <3>1. k \in 1 .. l /\ k # p
      BY <1>1, <2>1
    <3> QED
      BY <1>2, <2>1, <3>1
  <2>2. CASE ~(k < p)
    <3>1. k + 1 \in 1 .. l /\ k + 1 # p
      BY <1>1, <2>2
    <3> QED
      BY <1>2, <2>2, <3>1
  <2> QED
    BY <2>1, <2>2
<1>12. Chain(r)'
  <2>1. ASSUME NEW j \in 1 .. l - 1, NEW k \in 1 .. l - 1, r[j] = r[k]
        PROVE  j = k
    <3>1. PICK o \in 1 .. l : r[j] = recs[o] /\ o = IF j < p THEN j ELSE j + 1
      BY <1>11
    <3>2. PICK q \in 1 .. l : r[k] = recs[q] /\ q = IF k < p THEN k ELSE k + 1
      BY <1>11
    <3>3. recs[o] = recs[q]
      BY <2>1, <3>1, <3>2
    <3>4. o = q
      BY <1>4, <3>3
    <3> QED
      BY <1>1, <3>1, <3>2, <3>4
  <2>2. ASSUME NEW k \in 1 .. l - 1
        PROVE  role'[r[k]] = "record" /\ address'[r[k]] \in Chunks
    <3>1. PICK o \in 1 .. l : o # p /\ r[k] = recs[o]
      BY <1>11
    <3>2. recs[o] # recs[p] /\ recs[o] \in Chunks
      BY <1>1, <1>4, <3>1
    <3>3. address'[recs[o]] = address[recs[o]]
      BY <1>7, <3>2 DEF TypeOK
    <3> QED
      BY <1>4, <3>1, <3>3
  <2>3. ptr_start' = IF l - 1 = 0 THEN Null ELSE r[1]
    <3>1. CASE p = 1
      <4>1. l # 1 => 1 \in 1 .. l - 1 /\ ~(1 < p) /\ r[1] = recs[2]
        <5>1. l # 1 => 1 \in 1 .. l - 1 /\ ~(1 < p) /\ 1 + 1 = 2
          BY <1>1, <3>1
        <5> QED
          BY <1>2, <5>1
      <4>2. ptr_start' = IF 1 = l THEN Null ELSE recs[2]
        <5>1. p \in 1 .. l /\ p + 1 = 2
          BY <1>1, <3>1
        <5> QED
          BY <1>4, <1>7, <3>1, <5>1
      <4> QED
        BY <1>1, <4>1, <4>2
    <3>2. CASE p # 1
      <4>1. 1 \in 1 .. l - 1 /\ 1 < p /\ l - 1 # 0 /\ l # 0
        BY <1>1, <3>2
      <4> QED
        BY <1>2, <1>4, <1>7, <3>2, <4>1
    <3> QED
      BY <3>1, <3>2
  <2>4. ASSUME NEW k \in 1 .. l - 1
        PROVE  next'[r[k]] = IF k = l - 1 THEN Null ELSE r[k + 1]
    <3>1. CASE k < p - 1
      <4>1. /\ k \in 1 .. l /\ k + 1 \in 1 .. l - 1 /\ k < p /\ k + 1 < p /\ k # p
            /\ k # p - 1 /\ k # l /\ k # l - 1
        BY <1>1, <3>1
      <4>2. r[k] = recs[k] /\ r[k + 1] = recs[k + 1]
        BY <1>2, <4>1
      <4> QED
        BY <1>4, <1>10, <4>1, <4>2
    <3>2. CASE k = p - 1
      <4>1. /\ p # 1 /\ k < p /\ (k = l - 1 <=> p = l) /\ k + 1 = p
            /\ p # l => p \in 1 .. l - 1 /\ ~(p < p)
        BY <1>1, <3>2
      <4>2. r[k] = recs[p - 1] /\ (p # l => r[k + 1] = recs[p + 1])
        BY <1>2, <3>2, <4>1
      <4>3. next[recs[p]] = IF p = l THEN Null ELSE recs[p + 1]
        BY <1>1, <1>4
      <4>4. next'[r[k]] = IF p = l THEN Null ELSE recs[p + 1]
        BY <1>10, <4>1, <4>2, <4>3
      <4> QED
        BY <4>1, <4>2, <4>4
    <3>3. CASE ~(k < p)
      <4>1. /\ k + 1 \in 1 .. l /\ k + 1 # p /\ k + 1 # p - 1
            /\ (k + 1 = l <=> k = l - 1)
            /\ k # l - 1 => k + 1 \in 1 .. l - 1 /\ ~(k + 1 < p)
        BY <1>1, <3>3
      <4>2. r[k] = recs[k + 1] /\ (k # l - 1 => r[k + 1] = recs[(k + 1) + 1])
        BY <1>2, <3>3, <4>1
      <4> QED
        BY <1>4, <1>10, <4>1, <4>2
    <3> QED
      BY <1>1, <3>1, <3>2, <3>3
  <2> QED
    BY <1>2, <2>1, <2>2, <2>3, <2>4 DEF Chain
<1>13. LastInv(r)'
  <2>1. ASSUME NEW k \in 1 .. l - 1, r[k] = ptr_next
        PROVE  k = l - 1
    <3>1. PICK o \in 1 .. l : r[k] = recs[o] /\ o = IF k < p THEN k ELSE k + 1
      BY <1>11
    <3>2. o = l
      BY <1>5, <2>1, <3>1
    <3> QED
      BY <1>1, <3>1, <3>2
  <2>2. ASSUME l - 1 # 0
        PROVE  /\ ptr_next \in Chunks
               /\ ~tailErased' => ptr_next = r[l - 1]
    <3>1. ptr_next \in Chunks
      BY <1>1, <1>5
    <3>2. ASSUME ~tailErased' PROVE ptr_next = r[l - 1]
      <4>1. ~tailErased /\ ~(p - 1 > 0 /\ p - 1 = l - 1)
        BY <1>7, <3>2
      <4>2. l - 1 \in 1 .. l - 1 /\ ~(l - 1 < p) /\ (l - 1) + 1 = l /\ l # 0
        BY <1>1, <2>2, <4>1
      <4>3. r[l - 1] = recs[l]
        BY <1>2, <4>2
      <4> QED
        BY <1>5, <4>1, <4>2, <4>3
    <3> QED
      BY <3>1, <3>2
  <2> QED
    BY <1>2, <1>7, <2>1, <2>2 DEF LastInv
<1> QED
  BY <1>7, <1>9, <1>12, <1>13 DEF r

\* The record that is erased is that of the block, until index wraps.
LEMMA FreeListed ==
  ASSUME IInv, ~ended, NEW b \in Chunks, role[b] \in {"block", "foreign"},
         NEW found, found = {k \in 0 .. Count - 1 : address[Nth[k]] = b}, found # {},
         NEW index, index = Min(found) % IndexMod,
         role' = [role EXCEPT ![Nth[index]] = "free", ![b] = "free"],
         Erase(index),
         wrapped' = (wrapped \/ Min(found) >= IndexMod),
         inUse' = RemoveFirst(inUse, b),
         UNCHANGED <<ended, reported, overwritten>>
  PROVE  TypeOK' /\ BlocksInv' /\ ListInv' /\ OwnMemoryOnly'
<1> USE DEF IInv
<1>1. PICK recs \in Seq(Chunks) : Chain(recs) /\ LastInv(recs) /\ Addresses(recs)
  BY DEF ListInv
<1> DEFINE l == Len(recs)
           p == index + 1
           r == Without(recs, p)
<1>2. /\ l \in Nat
      /\ \A k \in 1 .. l : recs[k] \in Chunks /\ role[recs[k]] = "record"
      /\ \A j, k \in 1 .. l : recs[j] = recs[k] => j = k
  BY <1>1, ElementOfSeq DEF Chain
<1>3. Count = l /\ \A k \in 0 .. l - 1 : Nth[k] = recs[k + 1]
  BY <1>1, ChainIsList
<1> HIDE DEF l
<1>4. Min(found) \in found /\ Min(found) \in 0 .. l - 1
  <2>1. found \in SUBSET Nat
    BY <1>2, <1>3
  <2>2. Min(found) \in found
    BY <2>1, LeastExists
  <2> QED
    BY <1>3, <2>2
<1>5. /\ index \in 0 .. l - 1
      /\ Min(found) < IndexMod => index = Min(found)
  <2>1. Min(found) \in Nat
    BY <1>2, <1>4
  <2> DEFINE f == Min(found)
  <2>2. f \in 0 .. l - 1 /\ f \in Nat /\ index = f % IndexMod
    BY <1>4, <2>1
  <2> HIDE DEF f
  <2>3. f % IndexMod \in Nat /\ f % IndexMod <= f /\ (f < IndexMod => f % IndexMod = f)
    BY <2>2, Wrapping
  <2>4. index \in 0 .. l - 1 /\ (f < IndexMod => index = f)
    BY <1>2, <2>2, <2>3
  <2> QED
    BY <2>4 DEF f
<1>6. p \in 1 .. l /\ p - 1 = index /\ Nth[index] = recs[p]
  BY <1>2, <1>3, <1>5
<1> HIDE DEF p
<1>7. recs[p] \in Chunks /\ role[recs[p]] = "record" /\ recs[p] # b
  BY <1>2, <1>6
<1>8. /\ role' = [role EXCEPT ![recs[p]] = "free", ![b] = "free"]
      /\ role'[recs[p]] = "free" /\ role'[b] = "free"
      /\ \A x \in Chunks \ {b, recs[p]} : role'[x] = role[x]
  BY <1>6, <1>7 DEF TypeOK
<1>9. \A k \in 1 .. l : k # p => role'[recs[k]] = "record"
  <2> SUFFICES ASSUME NEW k \in 1 .. l, k # p PROVE role'[recs[k]] = "record"
    OBVIOUS
  <2>1. recs[k] # recs[p] /\ recs[k] # b /\ recs[k] \in Chunks /\ role[recs[k]] = "record"
    BY <1>2, <1>6
  <2> QED
    BY <1>8, <2>1
<1>10. /\ Chain(r)' /\ LastInv(r)'
       /\ next' \in [Chunks -> Chunks \cup {Null}]
       /\ ptr_start' \in Chunks \cup {Null}
       /\ address' = [address EXCEPT ![recs[p]] = Null]
       /\ tailErased => tailErased'
  <2>1. Erase(p - 1) /\ p \in 1 .. Len(recs)
    BY <1>6 DEF l
  <2>2. \A k \in 1 .. Len(recs) : k # p => role'[recs[k]] = "record"
    BY <1>9 DEF l
  <2> QED
    BY <1>1, <2>1, <2>2, EraseStep
<1>11. /\ r \in Seq(Chunks) /\ Len(r) = l - 1 /\ l - 1 \in Nat
       /\ \A k \in 1 .. l - 1 : r[k] = IF k < p THEN recs[k] ELSE recs[k + 1]
  <2>1. p \in 1 .. Len(recs)
    BY <1>6 DEF l
  <2> QED
    BY <2>1, WithoutShape DEF l
<1>12. BlocksInv' /\ inUse' \in Seq(Chunks)
  <2>1. \A x \in Chunks : role'[x] = "block" <=> (role[x] = "block" /\ x # b)
    BY <1>7, <1>8
  <2> QED
    BY <2>1, FreedBlocks
<1>13. TypeOK'
  <2>1. tailErased' \in BOOLEAN /\ ptr_next' = ptr_next
    BY Zenon DEF Erase
  <2>2. wrapped' \in BOOLEAN
    OBVIOUS
  <2>3. role' \in [Chunks -> {"free", "block", "foreign", "record"}]
    BY <1>8 DEF TypeOK
  <2>4. address' \in [Chunks -> Chunks \cup {Null}]
    BY <1>10 DEF TypeOK
  <2> QED
    BY <1>10, <1>12, <2>1, <2>2, <2>3, <2>4 DEF TypeOK
<1>14. Addresses(r)'
  <2> SUFFICES ASSUME ~wrapped' PROVE Addresses(r)'
    BY DEF Addresses
  <2>1. ~wrapped /\ index = Min(found)
    <3>1. ~wrapped /\ ~(Min(found) >= IndexMod)
      BY Zenon
    <3> DEFINE f == Min(found)
    <3>2. f \in Nat /\ IndexMod \in Nat
      BY <1>2, <1>4, LeakAssumption
    <3> HIDE DEF f
    <3>3. ~(f >= IndexMod) => f < IndexMod
      BY <3>2
    <3> QED
      BY <1>5, <3>1, <3>3 DEF f
  <2>2. address[recs[p]] = b
    <3>1. address[Nth[index]] = b
      BY <1>4, <2>1
    <3> QED
      BY <1>6, <3>1
  <2>3. /\ \A k \in 1 .. l : /\ address[recs[k]] \in Chunks
                             /\ role[address[recs[k]]] = "block"
        /\ \A j, k \in 1 .. l : address[recs[j]] = address[recs[k]] => j = k
        /\ ~tailErased => inUse = [k \in 1 .. l |-> address[recs[k]]]
    BY <1>1, <2>1 DEF Addresses, Chain, l
  <2>4. ASSUME NEW k \in 1 .. l - 1
        PROVE  \E o \in 1 .. l : /\ o # p /\ r[k] = recs[o]
                                 /\ o = IF k < p THEN k ELSE k + 1
    <3>1. CASE k < p
      <4>1. k \in 1 .. l /\ k # p
        BY <1>2, <1>6, <3>1
      <4> QED
        BY <1>11, <3>1, <4>1
    <3>2. CASE ~(k < p)
      <4>1. k + 1 \in 1 .. l /\ k + 1 # p
        BY <1>2, <1>6, <3>2
      <4> QED
        BY <1>11, <3>2, <4>1
    <3> QED
      BY <3>1, <3>2
  <2>5. \A o \in 1 .. l : o # p => address'[recs[o]] = address[recs[o]]
    <3> SUFFICES ASSUME NEW o \in 1 .. l, o # p
                 PROVE  address'[recs[o]] = address[recs[o]]
      OBVIOUS
    <3>1. recs[o] # recs[p] /\ recs[o] \in Chunks
      BY <1>2, <1>6
    <3> QED
      BY <1>10, <3>1 DEF TypeOK
  <2> HIDE DEF r
  <2>6. ASSUME NEW k \in 1 .. l - 1
        PROVE  role'[address'[r[k]]] = "block"
    <3>1. PICK o \in 1 .. l : o # p /\ r[k] = recs[o]
      BY <2>4
    <3>2. address'[r[k]] = address[recs[o]] /\ address[recs[o]] # b
      BY <1>6, <2>2, <2>3, <2>5, <3>1
    <3>3. address[recs[o]] \in Chunks /\ role[address[recs[o]]] = "block"
      BY <2>3
    <3>4. address[recs[o]] \in Chunks \ {b, recs[p]}
      BY <1>7, <3>2, <3>3
    <3> QED
      BY <1>8, <3>2, <3>3, <3>4
  <2>7. ASSUME NEW j \in 1 .. l - 1, NEW k \in 1 .. l - 1, address'[r[j]] = address'[r[k]]
        PROVE  j = k
    <3>1. PICK o \in 1 .. l : /\ o # p /\ r[j] = recs[o]
                              /\ o = IF j < p THEN j ELSE j + 1
      BY <2>4
    <3>2. PICK q \in 1 .. l : /\ q # p /\ r[k] = recs[q]
                              /\ q = IF k < p THEN k ELSE k + 1
      BY <2>4
    <3>3. address[recs[o]] = address[recs[q]]
      BY <2>5, <2>7, <3>1, <3>2
    <3>4. o = q
      BY <2>3, <3>3
    <3> QED
      BY <1>2, <1>6, <3>1, <3>2, <3>4
  <2>8. ASSUME ~tailErased'
        PROVE  inUse' = [k \in 1 .. l - 1 |-> address'[r[k]]]
    <3>1. inUse = [k \in 1 .. l |-> address[recs[k]]]
      BY <1>10, <2>3, <2>8
    <3>2. inUse \in Seq(Chunks) /\ Len(inUse) = l /\ inUse[p] = b
      <4>1. inUse \in Seq(Chunks) /\ DOMAIN inUse = 1 .. l
        BY <3>1 DEF TypeOK
      <4>2. DOMAIN inUse = 1 .. Len(inUse) /\ Len(inUse) \in Nat
        BY <4>1, LenProperties
      <4> QED
        BY <1>2, <1>6, <2>2, <3>1, <4>1, <4>2
    <3>3. inUse' = Without(inUse, p)
      BY <1>6, <3>2, RemoveShape DEF BlocksInv
    <3>4. inUse' = [k \in 1 .. l - 1 |-> IF k < p THEN inUse[k] ELSE inUse[k + 1]]
      BY <3>2, <3>3 DEF Without
    <3>5. ASSUME NEW k \in 1 .. l - 1
          PROVE  (IF k < p THEN inUse[k] ELSE inUse[k + 1]) = address'[r[k]]
      <4>1. PICK o \in 1 .. l : /\ o # p /\ r[k] = recs[o]
                                /\ o = IF k < p THEN k ELSE k + 1
        BY <2>4
      <4>2. address'[r[k]] = inUse[o]
        BY <2>5, <3>1, <4>1
      <4> QED
        BY <4>1, <4>2
    <3> QED
      BY <3>4, <3>5
  <2> QED
    BY <1>11, <2>6, <2>7, <2>8 DEF Addresses
<1> QED
  BY <1>10, <1>11, <1>12, <1>13, <1>14 DEF ListInv, OwnMemoryOnly

\* xfree, with a record for the block or without.
LEMMA XfreeStep ==
  ASSUME IInv, Xfree
  PROVE  IInv'
<1> DEFINE Found(b) == {k \in 0 .. Count - 1 : address[Nth[k]] = b}
           Index(b) == Min(Found(b)) % IndexMod
<1>1. PICK b \in Chunks :
        /\ role[b] \in {"block", "foreign"}
        /\ IF Found(b) = {}
           THEN /\ role' = [role EXCEPT ![b] = "free"]
                /\ UNCHANGED <<listVars, tailErased, wrapped>>
           ELSE /\ role' = [role EXCEPT ![Nth[Index(b)]] = "free", ![b] = "free"]
                /\ Erase(Index(b))
                /\ wrapped' = (wrapped \/ Min(Found(b)) >= IndexMod)
        /\ inUse' = RemoveFirst(inUse, b)
  BY Zenon DEF Xfree
<1>2. ~ended /\ UNCHANGED <<ended, reported, overwritten>>
  BY DEF Xfree
<1>3. TypeOK' /\ BlocksInv' /\ ListInv' /\ OwnMemoryOnly'
  <2>1. CASE Found(b) = {}
    <3>1. \A k \in 0 .. Count - 1 : address[Nth[k]] # b
      BY <2>1
    <3> HIDE DEF Found
    <3> QED
      BY <1>1, <1>2, <2>1, <3>1, FreeUnlisted
  <2>2. CASE Found(b) # {}
    <3> DEFINE found == Found(b)
               index == Index(b)
    <3>1. found = {k \in 0 .. Count - 1 : address[Nth[k]] = b} /\ found # {}
      BY <2>2
    <3>2. index = Min(found) % IndexMod
      OBVIOUS
    <3>3. /\ role' = [role EXCEPT ![Nth[index]] = "free", ![b] = "free"]
          /\ Erase(index)
          /\ wrapped' = (wrapped \/ Min(found) >= IndexMod)
      BY <1>1, <2>2
    <3> HIDE DEF found, index
    <3> QED
      BY <1>1, <1>2, <3>1, <3>2, <3>3, FreeListed
  <2> QED
    BY <2>1, <2>2
<1>4. ReportInv'
  BY <1>2 DEF IInv, ReportInv
<1> QED
  BY <1>3, <1>4 DEF IInv

LEMMA XmallocStep ==
  ASSUME IInv, Xmalloc
  PROVE  IInv'
<1>1. PICK b \in Chunks :
        /\ role[b] = "free"
        /\ inUse' = Append(inUse, b)
        /\ \/ \E m \in Chunks \ {b} : role[m] = "free" /\ Add(b, m)
           \/ NoMemoryForRecord(b)
  BY DEF Xmalloc
<1>2. ~ended /\ UNCHANGED <<reported, tailErased, wrapped>>
  BY DEF Xmalloc
<1>3. CASE NoMemoryForRecord(b)
  BY <1>1, <1>2, <1>3, NoMemoryStep
<1>4. ASSUME NEW m \in Chunks \ {b}, role[m] = "free", Add(b, m) PROVE IInv'
  BY <1>1, <1>2, <1>4, AddStep
<1> QED
  BY <1>1, <1>3, <1>4

\* What is listed, and so reported, is in use until a position has wrapped.
LEMMA ListedInUse ==
  ASSUME IInv, ~ended
  PROVE  /\ ToSet(Listed) \subseteq Chunks
         /\ ~wrapped => ToSet(Listed) \subseteq ToSet(inUse)
         /\ \A k \in 0 .. Count - 1 : role[Nth[k]] = "record"
<1>1. PICK recs \in Seq(Chunks) : Chain(recs) /\ LastInv(recs) /\ Addresses(recs)
  BY DEF IInv, ListInv
<1> DEFINE l == Len(recs)
<1>2. l \in Nat /\ Count = l /\ Listed = [k \in 1 .. l |-> address[recs[k]]]
  BY <1>1, ChainIsList, LenProperties
<1>3. \A k \in 0 .. l - 1 : Nth[k] = recs[k + 1]
  BY <1>1, ChainIsList
<1>4. \A k \in 1 .. l : role[recs[k]] = "record" /\ address[recs[k]] \in Chunks
  BY <1>1 DEF Chain
<1>5. ~wrapped => \A k \in 1 .. l : role[address[recs[k]]] = "block"
  BY <1>1 DEF Addresses
<1> HIDE DEF l
<1>6. ToSet(Listed) = {address[recs[k]] : k \in 1 .. l}
  BY <1>2 DEF ToSet
<1>7. ToSet(inUse) = {inUse[k] : k \in 1 .. Len(inUse)}
  BY LenProperties DEF IInv, TypeOK, ToSet
<1>8. ASSUME ~wrapped, NEW k \in 1 .. l
      PROVE  address[recs[k]] \in ToSet(inUse)
  <2>1. \E j \in 1 .. Len(inUse) : inUse[j] = address[recs[k]]
    BY <1>4, <1>5, <1>8 DEF IInv, BlocksInv
  <2> QED
    BY <1>7, <2>1
<1>9. \A k \in 0 .. l - 1 : k + 1 \in 1 .. l
  BY <1>2
<1> QED
  BY <1>2, <1>3, <1>4, <1>6, <1>8, <1>9

LEMMA ReportStep ==
  ASSUME IInv, ReportMemLeak
  PROVE  IInv'
<1>1. /\ ~ended /\ ended' = TRUE /\ reported' = ToSet(Listed)
      /\ role' = [m \in Chunks |-> IF \E k \in 0 .. Count - 1 : Nth[k] = m
                                 THEN "free" ELSE role[m]]
      /\ UNCHANGED <<listVars, inUse, tailErased, wrapped, overwritten>>
  BY DEF ReportMemLeak
<1>2. TypeOK'
  BY <1>1, ListedInUse DEF IInv, TypeOK, listVars
<1>3. BlocksInv'
  <2>1. \A x \in Chunks : role'[x] = "block" <=> role[x] = "block"
    <3> SUFFICES ASSUME NEW x \in Chunks PROVE role'[x] = "block" <=> role[x] = "block"
      OBVIOUS
    <3>1. CASE \E k \in 0 .. Count - 1 : Nth[k] = x
      <4>1. role[x] = "record"
        BY <1>1, <3>1, ListedInUse
      <4> QED
        BY <1>1, <3>1, <4>1
    <3>2. CASE ~ \E k \in 0 .. Count - 1 : Nth[k] = x
      BY <1>1, <3>2
    <3> QED
      BY <3>1, <3>2
  <2> QED
    BY <1>1, <2>1 DEF IInv, BlocksInv
<1>4. ReportInv'
  BY <1>1, ListedInUse DEF ReportInv
<1>5. ListInv' /\ OwnMemoryOnly'
  BY <1>1 DEF IInv, ListInv, OwnMemoryOnly
<1> QED
  BY <1>2, <1>3, <1>4, <1>5 DEF IInv

\* The invariant holds at the start, for the empty list.
LEMMA Initially == Init => IInv
<1> SUFFICES ASSUME Init PROVE IInv
  OBVIOUS
<1>1. <<>> \in Seq(Chunks) /\ Len(<<>>) = 0
  OBVIOUS
<1>2. TypeOK
  BY <1>1, Zenon DEF Init, TypeOK
<1>3. BlocksInv
  BY DEF Init, BlocksInv
<1>4. ListInv
  <2>1. Chain(<<>>) /\ LastInv(<<>>)
    BY DEF Init, Chain, LastInv
  <2>2. Addresses(<<>>)
    <3>1. inUse = [k \in 1 .. 0 |-> address[<<>>[k]]]
      <4>1. inUse = <<>>
        BY DEF Init
      <4> QED
        BY <4>1
    <3> QED
      BY <3>1 DEF Addresses
  <2> QED
    BY <1>1, <2>1, <2>2 DEF ListInv
<1>5. ReportInv /\ OwnMemoryOnly
  BY DEF Init, ReportInv, OwnMemoryOnly
<1> QED
  BY <1>2, <1>3, <1>4, <1>5 DEF IInv

\* Every step preserves it.
LEMMA Inductive == IInv /\ [Next]_vars => IInv'
<1> SUFFICES ASSUME IInv, [Next]_vars PROVE IInv'
  OBVIOUS
<1>1. CASE Xmalloc
  BY <1>1, XmallocStep
<1>2. CASE PlainMalloc
  BY <1>2, PlainMallocStep
<1>3. CASE Xfree
  BY <1>3, XfreeStep
<1>4. CASE ReportMemLeak
  BY <1>4, ReportStep
<1>5. CASE UNCHANGED vars
  <2>1. TypeOK' /\ BlocksInv' /\ ReportInv' /\ OwnMemoryOnly'
    BY <1>5 DEF IInv, TypeOK, BlocksInv, ReportInv, OwnMemoryOnly, vars, listVars
  <2>2. ListInv'
    BY <1>5 DEF IInv, ListInv, Chain, LastInv, Addresses, vars, listVars
  <2> QED
    BY <2>1, <2>2 DEF IInv
<1> QED
  BY <1>1, <1>2, <1>3, <1>4, <1>5 DEF Next

LEMMA Invariant == Spec => []IInv
BY Initially, Inductive, PTL DEF Spec

-----------------------------------------------------------------------------

\* The types are right: the report names pieces of memory, and every pointer is
\* NULL or to one (myleak_detector_c.c).
THEOREM TypeCorrect == Spec => []TypeOK
<1>1. IInv => TypeOK
  BY DEF IInv
<1> QED
  BY Invariant, <1>1, PTL

\* add and erase keep the list exact, the blocks in use in order of allocation,
\* until a last record is erased from behind another or index wraps.
THEOREM ListIsExact == Spec => []ListExact
<1>1. IInv => ListExact
  <2> SUFFICES ASSUME IInv, ~ended, ~tailErased, ~wrapped
               PROVE  /\ Listed = inUse
                      /\ Count > 0 => ptr_next = Nth[Count - 1]
    BY DEF ListExact
  <2>1. PICK recs \in Seq(Chunks) : Chain(recs) /\ LastInv(recs) /\ Addresses(recs)
    BY DEF IInv, ListInv
  <2> DEFINE l == Len(recs)
  <2>2. /\ l \in Nat /\ Count = l /\ Listed = [k \in 1 .. l |-> address[recs[k]]]
        /\ \A k \in 0 .. l - 1 : Nth[k] = recs[k + 1]
    BY <2>1, ChainIsList, LenProperties
  <2>3. Listed = inUse
    BY <2>1, <2>2 DEF Addresses
  <2>4. l # 0 => ptr_next = recs[l]
    BY <2>1 DEF LastInv
  <2> HIDE DEF l
  <2>5. l > 0 => l # 0 /\ l - 1 \in 0 .. l - 1 /\ (l - 1) + 1 = l
    BY <2>2
  <2> QED
    BY <2>2, <2>3, <2>4, <2>5
<1> QED
  BY Invariant, <1>1, PTL

\* add writes into no block of the program until a last record has been erased
\* from behind another: ptr_next then points to freed memory.
THEOREM WritesOwnMemory == Spec => []OwnMemoryOnly
<1>1. IInv => OwnMemoryOnly
  BY DEF IInv
<1> QED
  BY Invariant, <1>1, PTL

\* The list and report_mem_leak name only blocks in use, whatever is allocated,
\* freed and lost, until a position is too great for index.
THEOREM ListsBlocksInUse == Spec => []OnlyBlocksInUse
<1>1. IInv => OnlyBlocksInUse
  BY ListedInUse DEF IInv, ReportInv, OnlyBlocksInUse
<1> QED
  BY Invariant, <1>1, PTL

-----------------------------------------------------------------------------
(* The ubus callers and their semaphore. *)

HoldersInv ==
  \A p \in holders : /\ value = 0
                     /\ initialised
                     /\ key # NoSem
                     /\ \A q \in holders : p = q

SetvalInv ==
  /\ value = 1 => initialised
  /\ \A p \in Procs : pc[p] = "setval" =>
       /\ Alive(semid[p])
       /\ ~initialised
       /\ \A q \in Procs : pc[q] = "setval" => p = q

InsideInv ==
  \A p \in Procs :
    /\ pc[p] \in {"idle", "create", "open"} => semid[p] = NoSem
    /\ Alive(semid[p]) => /\ Inside(p) => p \in holders
                          /\ pc[p] = "remove" => initialised

ReliedInv ==
  undermined \/ \A p \in Procs :
    /\ pc[p] = "open" => key # NoSem
    /\ pc[p] = "semop" \/ Inside(p) => Alive(semid[p])

UbusInv == UbusTypeOK /\ HoldersInv /\ SetvalInv /\ InsideInv /\ ReliedInv

\* The invariant of the semaphore holds at the start.
LEMMA UbusInitially == UbusInit => UbusInv
<1> SUFFICES ASSUME UbusInit PROVE UbusInv
  OBVIOUS
<1>1. UbusTypeOK
  BY DEF UbusInit, UbusTypeOK, Labels
<1>2. HoldersInv
  BY DEF UbusInit, HoldersInv
<1>3. SetvalInv
  BY DEF UbusInit, SetvalInv
<1>4. InsideInv
  BY DEF UbusInit, InsideInv, Inside, Alive
<1>5. ReliedInv
  BY DEF UbusInit, ReliedInv, Inside
<1> QED
  BY <1>1, <1>2, <1>3, <1>4, <1>5 DEF UbusInv

\* Every step of a process preserves it, action by action.
LEMMA UbusInductive == UbusInv /\ [UbusNext]_ubusVars => UbusInv'
<1> SUFFICES ASSUME UbusInv, [UbusNext]_ubusVars PROVE UbusInv'
  OBVIOUS
<1> USE UbusAssumption DEF UbusInv, UbusTypeOK, HoldersInv, SetvalInv, InsideInv,
          ReliedInv, Labels, Inside, Alive, Goto, Return, semVars, callVars
<1>1. ASSUME NEW p \in Procs, Call(p) PROVE UbusInv'
  BY <1>1 DEF Call
<1>2. ASSUME NEW p \in Procs, Create(p) PROVE UbusInv'
  <2>1. UbusTypeOK'
    BY <1>2 DEF Create
  <2>2. HoldersInv'
    BY <1>2 DEF Create
  <2>3. SetvalInv'
    BY <1>2 DEF Create
  <2>4. InsideInv'
    BY <1>2 DEF Create
  <2>5. ReliedInv'
    BY <1>2 DEF Create
  <2> QED
    BY <2>1, <2>2, <2>3, <2>4, <2>5
<1>3. ASSUME NEW p \in Procs, Exists(p) PROVE UbusInv'
  BY <1>3 DEF Exists
<1>4. ASSUME NEW p \in Procs, Open(p) PROVE UbusInv'
  BY <1>4 DEF Open
<1>5. ASSUME NEW p \in Procs, SetVal(p) PROVE UbusInv'
  BY <1>5 DEF SetVal
<1>6. ASSUME NEW p \in Procs, Semop(p) PROVE UbusInv'
  BY <1>6 DEF Semop
<1>7. ASSUME NEW p \in Procs, Connect(p) PROVE UbusInv'
  BY <1>7 DEF Connect
<1>8. ASSUME NEW p \in Procs, ConnectFail(p) PROVE UbusInv'
  BY <1>8 DEF ConnectFail
<1>9. ASSUME NEW p \in Procs, Invoke(p) PROVE UbusInv'
  BY <1>9 DEF Invoke
<1>10. ASSUME NEW p \in Procs, Await(p) PROVE UbusInv'
  BY <1>10 DEF Await
<1>11. ASSUME NEW p \in Procs, NothingToRelease(p) PROVE UbusInv'
  BY <1>11 DEF NothingToRelease
<1>12. ASSUME NEW p \in Procs, Release(p) PROVE UbusInv'
  BY <1>12 DEF Release
<1>13. ASSUME NEW p \in Procs, RemoveSem(p) PROVE UbusInv'
  BY <1>13 DEF RemoveSem, Relies, Undermining
<1>14. ASSUME NEW p \in Procs, Exit(p) PROVE UbusInv'
  BY <1>14 DEF Exit
<1>15. CASE UNCHANGED ubusVars
  BY <1>15 DEF ubusVars
<1> QED
  BY <1>1, <1>2, <1>3, <1>4, <1>5, <1>6, <1>7, <1>8, <1>9, <1>10, <1>11, <1>12, <1>13, <1>14, <1>15
  DEF UbusNext, Proceed, LockSemaphore, UnlockSemaphore

\* The types are right, and the value of the semaphore is 0 or 1, whoever creates,
\* takes, releases and removes it (mysemaphore.c), and whenever a process ends.
THEOREM UbusTypeCorrect == UbusSpec => []UbusTypeOK
<1>1. UbusInv => UbusTypeOK
  BY DEF UbusInv
<1> QED
  BY UbusInitially, UbusInductive, <1>1, PTL DEF UbusSpec

\* No two processes hold the semaphore.
THEOREM HeldByOne == UbusSpec => []OneHolder
<1>1. UbusInv => OneHolder
  BY DEF UbusInv, HoldersInv, OneHolder
<1> QED
  BY UbusInitially, UbusInductive, <1>1, PTL DEF UbusSpec

\* Two processes are never on the bus with the semaphore the key names.
THEOREM OverlapHasCause == UbusSpec => []CauseOfOverlap
<1>1. UbusInv => CauseOfOverlap
  BY DEF UbusInv, HoldersInv, InsideInv, CauseOfOverlap
<1> QED
  BY UbusInitially, UbusInductive, <1>1, PTL DEF UbusSpec

\* lockSemaphore and unlockSemaphore exclude until a release removes the
\* semaphore under somebody else.
THEOREM ExclusiveUntilUndermined == UbusSpec => []Exclusion
<1>1. UbusInv => Exclusion
  BY DEF UbusInv, HoldersInv, InsideInv, ReliedInv, Exclusion, Alive
<1> QED
  BY UbusInitially, UbusInductive, <1>1, PTL DEF UbusSpec
=============================================================================
