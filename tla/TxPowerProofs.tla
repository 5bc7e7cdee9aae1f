---------------------------- MODULE TxPowerProofs ----------------------------
(***************************************************************************)
(* Proofs about TxPower for every list of levels, every operator and both  *)
(* kinds of boards, with and without faults.  The inductive invariant      *)
(* says, beyond the types:                                                 *)
(*   StartInv    the threads wait for main;                                *)
(*   WindowInv   while the AI loop raises or lowers the power, all samples *)
(*               of the window point there;                                *)
(*   SinceInv    the samples taken before the loop's last write still      *)
(*               point where it wrote;                                     *)
(*   TargetInv   what the loop is about to set is next to the power, or a  *)
(*               command was written meanwhile.                            *)
(***************************************************************************)
EXTENDS TxPower, TLAPS, WellFoundedInduction, FiniteSetTheorems

Bit(d) == IF d = 1 THEN 1 ELSE 0

StartInv == ~Started => pc["ai"] = "sample" /\ pc["cmd"] = "wait"

WindowInv ==
  pc["ai"] \in {"read", "board", "iw"} =>
    Len(q) = 3 /\ \A k \in 1 .. 3 : q[k] = Bit(dir)

SinceInv ==
  lastDir # 0 =>
    Len(q) = 3 /\ \A k \in 1 .. 3 : since < k => q[k] = Bit(lastDir)

TargetInv ==
  pc["ai"] \in {"board", "iw"} /\ ~interfered => target["ai"] = power + dir

IInv == TypeOK /\ StartInv /\ WindowInv /\ SinceInv /\ TargetInv

-----------------------------------------------------------------------------
(* Least and greatest elements *)

\* A set of naturals has a least element.
LEMMA LeastExists ==
  ASSUME NEW S \in SUBSET Nat, S # {}
  PROVE  Min(S) \in S /\ \A y \in S : Min(S) <= y
<1> DEFINE R == {ss \in Nat \X Nat : ss[1] < ss[2]}
<1>1. IsWellFoundedOn(R, Nat)
  BY NatLessThanWellFounded, Zenon DEF OpToRel
<1>2. PICK x \in S : \A y \in S : ~ (<<y, x>> \in R)
  BY <1>1, WFMin, Zenon
<1>3. \A y \in S : x <= y
  <2>1. SUFFICES ASSUME NEW y \in S, y < x PROVE FALSE
    OBVIOUS
  <2>2. <<y, x>> \in R
    BY <2>1
  <2> QED
    BY <1>2, <2>2, Zenon
<1> QED
  BY <1>3 DEF Min

\* A bounded one has a greatest.
LEMMA GreatestExists ==
  ASSUME NEW S \in SUBSET Nat, S # {}, NEW b \in Nat, \A s \in S : s <= b
  PROVE  Max(S) \in S /\ \A y \in S : Max(S) >= y
<1> DEFINE T == {b - s : s \in S}
<1>1. T \in SUBSET Nat /\ T # {}
  <2>1. \A s \in S : b - s \in Nat
    OBVIOUS
  <2> QED
    BY <2>1
<1>2. Min(T) \in T /\ \A t \in T : Min(T) <= t
  <2> HIDE DEF T
  <2> QED
    BY <1>1, LeastExists
<1>3. PICK s \in S : Min(T) = b - s
  BY <1>2
<1>4. \A y \in S : s >= y
  <2> TAKE y \in S
  <2>1. Min(T) <= b - y
    BY <1>2
  <2>2. Min(T) = b - s /\ s \in Nat /\ y \in Nat
    BY <1>3
  <2> HIDE DEF T
  <2> QED
    BY <2>1, <2>2
<1> QED
  BY <1>4 DEF Max

\* A finite one is bounded: there is no least size of a set that is not.
LEMMA Bounded ==
  ASSUME NEW S \in SUBSET Nat, IsFiniteSet(S)
  PROVE  \E b \in Nat : \A s \in S : s <= b
<1> DEFINE IsBounded(T) == \E b \in Nat : \A s \in T : s <= b
           Sizes == {n \in Nat : \E T \in SUBSET S : Cardinality(T) = n /\ ~IsBounded(T)}
<1>1. SUFFICES ASSUME ~IsBounded(S) PROVE FALSE
  OBVIOUS
<1>2. Cardinality(S) \in Sizes
  BY <1>1, FS_CardinalityType
<1>3. Min(Sizes) \in Sizes /\ \A n \in Sizes : Min(Sizes) <= n
  <2>1. Sizes \in SUBSET Nat /\ Sizes # {}
    BY <1>2
  <2> HIDE DEF Sizes
  <2> QED
    BY <2>1, LeastExists
<1>4. PICK T \in SUBSET S : Cardinality(T) = Min(Sizes) /\ ~IsBounded(T)
  BY <1>3
<1>5. T # {}
  BY <1>4
<1>6. PICK x \in T : TRUE
  BY <1>5
<1>7. IsFiniteSet(T) /\ IsFiniteSet(T \ {x}) /\ Cardinality(T \ {x}) = Cardinality(T) - 1
      /\ Cardinality(T) \in Nat /\ Cardinality(T \ {x}) \in Nat
  BY FS_Subset, FS_RemoveElement, FS_CardinalityType
<1>8. ~IsBounded(T \ {x})
  <2>1. SUFFICES ASSUME NEW b \in Nat, \A s \in T \ {x} : s <= b PROVE FALSE
    OBVIOUS
  <2>2. b + x \in Nat /\ \A s \in T : s <= b + x
    BY <2>1
  <2> QED
    BY <1>4, <2>2
<1>9. Cardinality(T \ {x}) \in Sizes
  BY <1>7, <1>8
<1> HIDE DEF Sizes
<1> QED
  BY <1>3, <1>4, <1>7, <1>9

LEMMA Signs ==
  ASSUME NEW a \in Int, NEW b \in Int
  PROVE  /\ b <= a => (a - b) * 1 >= 0
         /\ a <= b => (a - b) * (-1) >= 0
OBVIOUS

-----------------------------------------------------------------------------
(* The operators of the model *)

\* The driver takes the highest level that is not above what it is given, the
\* lowest of all if there is none.
LEMMA DriverTakes ==
  ASSUME NEW v \in Int
  PROVE  /\ Driver(v) \in Levels
         /\ \A l \in Levels : l * Unit <= v => l <= Driver(v) /\ Driver(v) * Unit <= v
         /\ (\A l \in Levels : ~(l * Unit <= v)) => \A l \in Levels : Driver(v) <= l
<1> DEFINE fit == {l \in Levels : l * Unit <= v}
<1>1. Levels \in SUBSET Nat /\ IsFiniteSet(Levels) /\ Levels # {}
  BY TxPowerAssumption
<1>2. CASE fit = {}
  <2>1. Driver(v) = Min(Levels)
    BY <1>2 DEF Driver
  <2> QED
    BY <1>1, <1>2, <2>1, LeastExists
<1>3. CASE fit # {}
  <2>1. fit \in SUBSET Nat
    BY <1>1
  <2>2. PICK b \in Nat : \A l \in fit : l <= b
    BY <1>1, Bounded
  <2>3. Max(fit) \in fit /\ \A l \in fit : Max(fit) >= l
    <3> HIDE DEF fit
    <3> QED
      BY <1>3, <2>1, <2>2, GreatestExists
  <2>4. Driver(v) = Max(fit)
    BY <1>3 DEF Driver
  <2> HIDE DEF fit
  <2>5. /\ Driver(v) \in Levels /\ Driver(v) * Unit <= v
        /\ \A l \in Levels : l * Unit <= v => l <= Driver(v)
    BY <1>1, <2>3, <2>4 DEF fit
  <2> QED
    BY <2>5
<1> QED
  BY <1>2, <1>3

\* The window keeps three samples and lets the others move on.
LEMMA PushedIs ==
  ASSUME NEW b \in {0, 1}, q \in Seq({0, 1}), Len(q) <= 3
  PROVE  /\ Pushed(b) \in Seq({0, 1}) /\ Len(Pushed(b)) <= 3
         /\ Len(q) = 3 => /\ Len(Pushed(b)) = 3
                          /\ Pushed(b)[2] = q[1]
                          /\ Pushed(b)[3] = q[2]
<1> DEFINE s == <<b>> \o q
           n == IF Len(q) = 3 THEN 3 ELSE Len(q) + 1
<1>1. s \in Seq({0, 1}) /\ Len(s) = Len(q) + 1 /\ \A k \in 1 .. Len(q) : s[k + 1] = q[k]
  OBVIOUS
<1>2. n \in 1 .. 3 /\ n <= Len(s)
  <2> DEFINE m == Len(q)
  <2>1. m \in Nat /\ m <= 3 /\ Len(s) = m + 1 /\ n = IF m = 3 THEN 3 ELSE m + 1
    BY <1>1
  <2> HIDE DEF s, m, n
  <2> QED
    BY <2>1
<1> HIDE DEF s, n
<1>3. /\ SubSeq(s, 1, n) \in Seq({0, 1}) /\ Len(SubSeq(s, 1, n)) = n
      /\ \A k \in 1 .. n : SubSeq(s, 1, n)[k] = s[k]
  BY <1>1, <1>2
<1>4. Pushed(b) = SubSeq(s, 1, n)
  BY DEF Pushed, s, n
<1>5. Len(q) = 3 => n = 3
  BY DEF n
<1> QED
  BY <1>1, <1>2, <1>3, <1>4, <1>5

-----------------------------------------------------------------------------
(* The invariant *)

\* The invariant holds at the start.
LEMMA Initially == Init => IInv
<1> SUFFICES ASSUME Init PROVE IInv
  OBVIOUS
<1>1. TypeOK
  <2>1. pc \in [Callers -> Labels]
    <3>1. pc = [main |-> "load", ai |-> "sample", cmd |-> "wait"]
      BY DEF Init
    <3>2. pc = [a \in {"main", "ai", "cmd"} |-> pc[a]]
      BY <3>1
    <3> QED
      BY <3>1, <3>2 DEF Callers, Labels
  <2>2. pc["main"] = "load" /\ pc["ai"] = "sample" /\ pc["cmd"] = "wait"
    BY DEF Init
  <2>3. /\ power \in Levels /\ txpower_list \subseteq Levels
        /\ load \in {0, 1}
        /\ target \in [Callers -> Int] /\ scale \in [Callers -> {1, 100}]
    BY DEF Init
  <2>4. q \in Seq({0, 1}) /\ Len(q) <= 3
    BY DEF Init
  <2>5. /\ dir \in {-1, 1} /\ cmds \in 0 .. MaxCmds /\ lastDir \in {-1, 0, 1}
        /\ since \in 0 .. 3
    BY TxPowerAssumption DEF Init
  <2>6. interfered \in BOOLEAN
    BY DEF Init
  <2>7. modelOk \in BOOLEAN
    BY DEF Init
  <2> QED
    BY <2>1, <2>2, <2>3, <2>4, <2>5, <2>6, <2>7 DEF TypeOK
<1>2. StartInv /\ WindowInv /\ SinceInv /\ TargetInv
  BY DEF Init, StartInv, WindowInv, SinceInv, TargetInv, Started
<1> QED
  BY <1>1, <1>2 DEF IInv

\* Main's steps preserve it: the others still wait.
LEMMA MainStep == IInv /\ (LoadList \/ Board("main") \/ Iw("main")) => IInv'
<1> SUFFICES ASSUME IInv, LoadList \/ Board("main") \/ Iw("main") PROVE IInv'
  OBVIOUS
<1> USE DEF IInv, Callers, Labels
<1>1. pc["main"] # "done" /\ pc["ai"] = "sample" /\ pc["cmd"] = "wait"
  BY DEF LoadList, Board, Iw, TypeOK, StartInv, Started
<1>2. TypeOK'
  <2>1. CASE LoadList
    <3>1. PICK ls \in SUBSET Levels : /\ txpower_list' = ls
                                     /\ target' = [target EXCEPT !["main"] = Max(ls \cup {0})]
      BY <2>1 DEF LoadList
    <3>2. Max(ls \cup {0}) \in Int
      <4>1. PICK b \in Nat : \A l \in Levels : l <= b
        BY TxPowerAssumption, Bounded
      <4>2. ls \cup {0} \in SUBSET Nat /\ \A l \in ls \cup {0} : l <= b
        BY <4>1, TxPowerAssumption
      <4> QED
        BY <4>2, GreatestExists
    <3> QED
      BY <2>1, <3>1, <3>2 DEF LoadList, TypeOK, Goto
  <2>2. CASE Board("main")
    BY <2>2 DEF Board, TypeOK, Goto, Unit
  <2>3. CASE Iw("main")
    <3>1. power' \in Levels
      BY <2>3, DriverTakes DEF Iw, TypeOK
    <3> QED
      BY <2>3, <3>1 DEF Iw, TypeOK, Goto, Return
  <2> QED
    BY <2>1, <2>2, <2>3
<1>3. UNCHANGED <<q, dir, lastDir, since>> /\ pc'["ai"] = pc["ai"] /\ pc'["cmd"] = pc["cmd"]
  BY DEF LoadList, Board, Iw, Goto, TypeOK
<1> QED
  BY <1>1, <1>2, <1>3 DEF StartInv, WindowInv, SinceInv, TargetInv, Started

\* A sample moves the window on.
LEMMA SampleStep == IInv /\ Sample => IInv'
<1> SUFFICES ASSUME IInv, Sample PROVE IInv'
  OBVIOUS
<1> USE DEF IInv, Callers, Labels
<1>1. PICK b \in {0, 1} : q' = Pushed(b)
  BY DEF Sample, TypeOK
<1>2. /\ q' \in Seq({0, 1}) /\ Len(q') <= 3
      /\ Len(q) = 3 => Len(q') = 3 /\ q'[2] = q[1] /\ q'[3] = q[2]
  BY <1>1, PushedIs DEF TypeOK
<1>3. dir' \in {-1, 1} /\ pc' \in [Callers -> Labels] /\ pc'["main"] = pc["main"]
      /\ pc'["cmd"] = pc["cmd"] /\ pc'["ai"] \in {"read", "sleep"}
  BY DEF Sample, Goto, TypeOK
<1>4. TypeOK'
  BY <1>2, <1>3 DEF Sample, TypeOK
<1>5. WindowInv'
  BY <1>3 DEF Sample, Goto, TypeOK, WindowInv, AllAre, Bit
<1>6. SinceInv'
  <2>0. lastDir # 0 => Len(q') = 3
    BY <1>2 DEF SinceInv
  <2>1. SUFFICES ASSUME lastDir # 0, NEW k \in 1 .. 3, since' < k
                 PROVE  q'[k] = Bit(lastDir)
    BY <2>0 DEF Sample, SinceInv
  <2>2. since' = since + 1 /\ since \in Nat
    BY <2>1 DEF Sample, TypeOK
  <2>3. Len(q) = 3 /\ k - 1 \in 1 .. 2 /\ q[k - 1] = Bit(lastDir)
    BY <2>1, <2>2 DEF SinceInv
  <2> QED
    BY <1>2, <2>3
<1>7. StartInv' /\ TargetInv'
  BY <1>3 DEF Sample, StartInv, TargetInv, Started
<1> QED
  BY <1>4, <1>5, <1>6, <1>7

\* The other steps of the AI loop preserve it.
LEMMA AiStep ==
  IInv /\ (NoSample \/ ReadCurrent \/ Board("ai") \/ Iw("ai") \/ Wake) => IInv'
<1> SUFFICES ASSUME IInv, NoSample \/ ReadCurrent \/ Board("ai") \/ Iw("ai") \/ Wake
             PROVE  IInv'
  OBVIOUS
<1> USE DEF IInv, Callers, Labels
<1>1. CASE NoSample \/ Wake
  <2>1. TypeOK'
    BY <1>1 DEF NoSample, Wake, Goto, TypeOK
  <2>2. Started /\ UNCHANGED <<q, dir, lastDir, since>>
        /\ pc'["main"] = pc["main"] /\ pc'["ai"] \in {"sample", "sleep"}
    BY <1>1 DEF NoSample, Wake, Goto, TypeOK, StartInv
  <2> QED
    BY <2>1, <2>2 DEF StartInv, WindowInv, SinceInv, TargetInv, Started
<1>2. CASE ReadCurrent
  <2>1. PICK current \in {power, -1} :
          IF MayStep(current)
          THEN target' = [target EXCEPT !["ai"] = current + dir] /\ Goto("ai", "board")
          ELSE UNCHANGED target /\ Goto("ai", "sleep")
    BY <1>2 DEF ReadCurrent
  <2>2. Started /\ UNCHANGED <<power, q, dir, lastDir, since>> /\ pc["ai"] = "read"
    BY <1>2 DEF ReadCurrent, StartInv
  <2>3. power \in Int
    BY TxPowerAssumption DEF TypeOK
  <2>4. TypeOK'
    <3>1. target' \in [Callers -> Int]
      BY <2>1, <2>3 DEF TypeOK
    <3>2. /\ pc' \in [Callers -> Labels] /\ pc'["ai"] \in {"board", "sleep"}
          /\ pc'["main"] = pc["main"] /\ pc'["cmd"] = pc["cmd"]
      BY <2>1 DEF TypeOK, Goto
    <3> QED
      BY <1>2, <3>1, <3>2 DEF ReadCurrent, TypeOK
  <2>5. pc'["ai"] \in {"board", "iw"} => target'["ai"] = power + dir
    BY <2>1 DEF MayStep, Goto, TypeOK
  <2>6. pc'["main"] = pc["main"]
    BY <2>1 DEF Goto, TypeOK
  <2> QED
    BY <2>2, <2>4, <2>5, <2>6 DEF StartInv, WindowInv, SinceInv, TargetInv, Started
<1>3. CASE Board("ai")
  <2>1. TypeOK'
    BY <1>3 DEF Board, Goto, TypeOK, Unit
  <2>2. /\ Started /\ UNCHANGED <<power, target, q, dir, lastDir, since, interfered>>
        /\ pc["ai"] = "board" /\ pc'["main"] = pc["main"]
    BY <1>3 DEF Board, Goto, TypeOK, StartInv
  <2> QED
    BY <2>1, <2>2 DEF StartInv, WindowInv, SinceInv, TargetInv, Started
<1>4. CASE Iw("ai")
  <2>1. power' \in Levels
    BY <1>4, DriverTakes DEF Iw, TypeOK
  <2>2. TypeOK'
    BY <1>4, <2>1 DEF Iw, Goto, Return, TypeOK
  <2>3. /\ Started /\ UNCHANGED <<q, dir>> /\ lastDir' = dir /\ since' = 0
        /\ pc["ai"] = "iw" /\ pc'["ai"] = "sleep" /\ pc'["main"] = pc["main"]
    BY <1>4 DEF Iw, Goto, Return, TypeOK, StartInv
  <2> QED
    BY <2>2, <2>3 DEF StartInv, WindowInv, SinceInv, TargetInv, Started
<1> QED
  BY <1>1, <1>2, <1>3, <1>4

\* So do the operator's commands, and traffic that changes.
LEMMA CommandStep ==
  IInv /\ (Board("cmd") \/ Iw("cmd") \/ Command \/ Traffic) => IInv'
<1> SUFFICES ASSUME IInv, Board("cmd") \/ Iw("cmd") \/ Command \/ Traffic PROVE IInv'
  OBVIOUS
<1> USE DEF IInv, Callers, Labels
<1>1. TypeOK'
  <2>1. CASE Board("cmd")
    BY <2>1 DEF Board, Goto, TypeOK, Unit
  <2>2. CASE Iw("cmd")
    <3>1. power' \in Levels
      BY <2>2, DriverTakes DEF Iw, TypeOK
    <3> QED
      BY <2>2, <3>1 DEF Iw, Goto, Return, TypeOK
  <2>3. CASE Command
    <3>1. PICK p \in Int : target' = [target EXCEPT !["cmd"] = p]
      BY <2>3, TxPowerAssumption DEF Command
    <3>2. cmds' \in 0 .. MaxCmds
      BY <2>3, TxPowerAssumption DEF Command, TypeOK
    <3> QED
      BY <2>3, <3>1, <3>2 DEF Command, Goto, TypeOK
  <2>4. CASE Traffic
    BY <2>4 DEF Traffic, TypeOK
  <2> QED
    BY <2>1, <2>2, <2>3, <2>4
<1>2. /\ UNCHANGED <<q, dir, lastDir, since>>
      /\ pc'["main"] = pc["main"] /\ pc'["ai"] = pc["ai"]
      /\ target'["ai"] = target["ai"] /\ (~interfered' => UNCHANGED <<power, interfered>>)
  BY DEF Board, Iw, Command, Traffic, Goto, TypeOK
<1>3. StartInv'
  BY <1>2 DEF StartInv, Started, Board, Iw, Command, Traffic
<1> QED
  BY <1>1, <1>2, <1>3 DEF WindowInv, SinceInv, TargetInv

LEMMA Inductive == IInv /\ [Next]_vars => IInv'
<1>1. IInv /\ UNCHANGED vars => IInv'
  BY DEF vars, IInv, TypeOK, StartInv, WindowInv, SinceInv, TargetInv, Started
<1> QED
  BY <1>1, MainStep, SampleStep, AiStep, CommandStep
  DEF Next, Main, Ai, SetFromCommand

-----------------------------------------------------------------------------

\* Main, the AI loop, the operators and the driver preserve the invariant.
THEOREM Invariant == Spec => []IInv
BY Initially, Inductive, PTL DEF Spec

\* TYPES.  The window never grows beyond three samples, and the radio uses a
\* level it has.
THEOREM TypeCorrect == Spec => []TypeOK
<1>1. IInv => TypeOK
  BY DEF IInv
<1> QED
  BY <1>1, Invariant, PTL

\* Only Iw("ai") ends a write of the AI loop.
LEMMA WriteIsIw == IInv /\ [Next]_vars /\ AiWrites => Iw("ai")
<1> SUFFICES ASSUME IInv, [Next]_vars, AiWrites PROVE Iw("ai")
  OBVIOUS
<1> QED
  BY DEF Next, Main, Ai, SetFromCommand, vars, AiWrites, LoadList, Board, Iw, Sample,
         NoSample, ReadCurrent, Wake, Command, Traffic, Goto, Return, IInv, TypeOK, Callers, Labels

\* ACTION.  The AI loop moves the power by one level at most, whatever levels
\* the driver has.
THEOREM LevelByLevel == Spec => OneLevel
<1>1. ASSUME IInv, [Next]_vars PROVE ByOneLevel
  <2>1. SUFFICES ASSUME AiWrites, ~interfered, scale["ai"] = Unit
                 PROVE  /\ (power' - power) * dir >= 0
                        /\ \A l \in Levels : ~(power < l /\ l < power')
                                           /\ ~(power' < l /\ l < power)
    BY DEF ByOneLevel
  <2>2. Iw("ai") /\ target["ai"] = power + dir
    BY <1>1, <2>1, WriteIsIw DEF IInv, TargetInv, AiWrites
  <2>3. power \in Levels /\ power \in Int /\ dir \in {-1, 1} /\ Levels \subseteq Int
    BY <1>1, TxPowerAssumption DEF IInv, TypeOK
  <2>4. CASE UNCHANGED power
    BY <2>3, <2>4
  <2>5. CASE power' = Driver((power + dir) * Unit)
    <3> DEFINE v == (power + dir) * Unit
    <3>1. Unit \in {1, 100} /\ v \in Int
      BY <2>3 DEF Unit
    <3>2. /\ power' \in Levels
          /\ \A l \in Levels : l * Unit <= v => l <= power' /\ power' * Unit <= v
          /\ (\A l \in Levels : ~(l * Unit <= v)) => \A l \in Levels : power' <= l
      BY <2>5, <3>1, DriverTakes
    <3>3. \A l \in Levels : l * Unit <= v <=> l <= power + dir
      BY <2>3, <3>1
    <3>4. /\ \A l \in Levels : l <= power + dir => l <= power' /\ power' <= power + dir
          /\ (\A l \in Levels : ~(l <= power + dir)) => \A l \in Levels : power' <= l
      <4> HIDE DEF v
      <4> QED
        BY <3>2, <3>3
    <3> HIDE DEF v
    <3>7. power' \in Int
      BY <2>3, <3>2
    <3>5. CASE dir = 1
      <4>1. power <= power' /\ power' <= power + 1
        BY <2>3, <3>4, <3>5
      <4>2. (power' - power) * dir >= 0
        BY <2>3, <3>7, <3>5, <4>1, Signs
      <4>3. \A l \in Levels : /\ ~(power < l /\ l < power')
                             /\ ~(power' < l /\ l < power)
        BY <2>3, <3>7, <4>1
      <4> QED
        BY <4>2, <4>3, Zenon
    <3>6. CASE dir = -1
      <4>1. power' <= power
        <5>1. CASE \E l \in Levels : l <= power + dir
          BY <2>3, <3>2, <3>4, <3>6, <5>1
        <5>2. CASE \A l \in Levels : ~(l <= power + dir)
          BY <2>3, <3>4, <5>2
        <5> QED
          BY <5>1, <5>2
      <4>2. \A l \in Levels : l < power => l <= power'
        BY <2>3, <3>4, <3>6
      <4>3. (power' - power) * dir >= 0
        BY <2>3, <3>7, <3>6, <4>1, Signs
      <4>4. \A l \in Levels : /\ ~(power < l /\ l < power')
                             /\ ~(power' < l /\ l < power)
        BY <2>3, <3>7, <4>1, <4>2
      <4> QED
        BY <4>3, <4>4, Zenon
    <3> QED
      BY <2>3, <3>5, <3>6
  <2> QED
    BY <2>1, <2>2, <2>4, <2>5 DEF Iw
<1> QED
  BY <1>1, Invariant, PTL DEF Spec, OneLevel

\* ACTION.  Between two writes of the AI loop in opposite directions there are
\* three samples.
THEOREM NeverFlaps == Spec => NoFlapping
<1>1. ASSUME IInv, [Next]_vars PROVE TurnsSlowly
  <2>1. SUFFICES ASSUME AiWrites, lastDir = -dir, since # 3 PROVE FALSE
    BY DEF TurnsSlowly
  <2>2. dir \in {-1, 1} /\ since < 3
    BY <1>1, <2>1 DEF IInv, TypeOK
  <2>3. q[3] = Bit(dir) /\ q[3] = Bit(lastDir)
    BY <1>1, <2>1, <2>2 DEF IInv, WindowInv, SinceInv, AiWrites
  <2> QED
    BY <2>1, <2>2, <2>3 DEF Bit
<1> QED
  BY <1>1, Invariant, PTL DEF Spec, NoFlapping
=============================================================================
