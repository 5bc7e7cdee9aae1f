-------------------------- MODULE TrafficInputProofs --------------------------
(***************************************************************************)
(* Proofs about TrafficInput for any number of stations, any traffic and   *)
(* answers of any size.  The inductive invariant says, beyond the types:   *)
(*   BufferInv   the stack still holds the answer of the round before;     *)
(*   CountInv    what is counted, and what a station that is in both       *)
(*               answers would add now, has been sent;                     *)
(*   StayInv     after a true answer, a station that stays is in prevData, *)
(*               and its counter is as far from there as its traffic is.   *)
(***************************************************************************)
EXTENDS TrafficInput, TLAPS

BufferInv == buffer = prevData

CountInv ==
  \A m \in Stations :
    /\ counted[m] <= sent[m]
    /\ m \in DOMAIN counter => counter[m] <= sent[m]
    /\ m \in DOMAIN counter \cap DOMAIN prevData =>
         counted[m] + (counter[m] - prevData[m]) <= sent[m]

StayInv ==
  /\ stayed \subseteq DOMAIN counter
  /\ ~misled => /\ stayed \subseteq DOMAIN prevData
                /\ \A m \in stayed :
                     counter[m] - prevData[m] = sent[m] - sentBefore[m]

IInv == TypeOK /\ BufferInv /\ CountInv /\ StayInv

-----------------------------------------------------------------------------

\* Membership in the set of partial functions.
LEMMA PartialIs ==
  ASSUME NEW S, NEW T, NEW f
  PROVE  f \in PartialFunctions(S, T)
           <=> DOMAIN f \subseteq S /\ f \in [DOMAIN f -> T]
BY DEF PartialFunctions

\* The answer that holds nothing.
LEMMA NoneIs == DOMAIN None = {} /\ \A S, T : None \in PartialFunctions(S, T)
<1>1. DOMAIN None = {}
  BY DEF None
<1>2. \A T : None \in [{} -> T]
  BY DEF None
<1> QED
  BY <1>1, <1>2, PartialIs

\* The invariant holds at the start.
LEMMA Initially == Init => IInv
<1> SUFFICES ASSUME Init PROVE IInv
  OBVIOUS
<1>1. TypeOK
  <2>1. /\ sent \in [Stations -> 0 .. MaxSent]
        /\ sentBefore \in [Stations -> 0 .. MaxSent]
        /\ counted \in [Stations -> Int]
    BY TrafficAssumption DEF Init
  <2>2. /\ counter \in PartialFunctions(Stations, 0 .. MaxSent)
        /\ prevData \in PartialFunctions(Stations, 0 .. MaxSent)
        /\ buffer \in PartialFunctions(Stations, 0 .. MaxSent)
        /\ deltas \in PartialFunctions(Stations, -MaxSent .. MaxSent)
    BY NoneIs DEF Init
  <2> QED
    BY <2>1, <2>2 DEF Init, TypeOK
<1>2. BufferInv /\ CountInv /\ StayInv
  BY NoneIs DEF Init, BufferInv, CountInv, StayInv
<1> QED
  BY <1>1, <1>2 DEF IInv

\* Stations that come start from 0, which counts for less than before.
LEMMA AssociateStep ==
  ASSUME IInv, NEW m \in Stations, Associate(m)
  PROVE  IInv'
<1> USE DEF IInv
<1>1. /\ DOMAIN counter' = DOMAIN counter \cup {m}
      /\ m \notin DOMAIN counter
      /\ \A x \in DOMAIN counter' : counter'[x] = IF x = m THEN 0 ELSE counter[x]
      /\ UNCHANGED <<prevData, buffer, deltas, terminated, sent, sentBefore,
                     counted, stayed, misled>>
  BY DEF Associate
<1>2. /\ DOMAIN counter \subseteq Stations /\ counter \in [DOMAIN counter -> 0 .. MaxSent]
      /\ DOMAIN prevData \subseteq Stations /\ prevData \in [DOMAIN prevData -> 0 .. MaxSent]
  BY PartialIs DEF TypeOK
<1>3. counter' \in PartialFunctions(Stations, 0 .. MaxSent)
  <2>1. DOMAIN counter' \subseteq Stations
    BY <1>1, <1>2
  <2>2. \A x \in DOMAIN counter' : counter'[x] \in 0 .. MaxSent
    BY <1>1, <1>2, TrafficAssumption
  <2>3. counter' = [x \in DOMAIN counter' |-> counter'[x]]
    BY <1>1 DEF Associate
  <2> QED
    BY <2>1, <2>2, <2>3, PartialIs
<1>4. TypeOK'
  BY <1>1, <1>3 DEF TypeOK
<1>5. CountInv'
  <2> SUFFICES ASSUME NEW x \in Stations
               PROVE  /\ counted[x] <= sent[x]
                      /\ x \in DOMAIN counter' => counter'[x] <= sent[x]
                      /\ x \in DOMAIN counter' \cap DOMAIN prevData =>
                           counted[x] + (counter'[x] - prevData[x]) <= sent[x]
    BY <1>1 DEF CountInv
  <2>1. CASE x = m
    BY <1>1, <1>2, <2>1, TrafficAssumption DEF CountInv, TypeOK
  <2>2. CASE x # m
    BY <1>1, <2>2 DEF CountInv
  <2> QED
    BY <2>1, <2>2
<1>6. StayInv'
  BY <1>1 DEF StayInv
<1> QED
  BY <1>1, <1>4, <1>5, <1>6 DEF BufferInv

\* Stations that leave have not stayed.
LEMMA LeaveStep ==
  ASSUME IInv, NEW m \in Stations, Leave(m)
  PROVE  IInv'
<1> USE DEF IInv
<1>1. /\ DOMAIN counter' = DOMAIN counter \ {m}
      /\ \A x \in DOMAIN counter' : counter'[x] = counter[x]
      /\ stayed' = stayed \ {m}
      /\ UNCHANGED <<prevData, buffer, deltas, terminated, sent, sentBefore,
                     counted, misled>>
  BY DEF Leave, Restrict
<1>2. counter' \in PartialFunctions(Stations, 0 .. MaxSent)
  <2>1. DOMAIN counter \subseteq Stations /\ counter \in [DOMAIN counter -> 0 .. MaxSent]
    BY PartialIs DEF TypeOK
  <2>2. counter' = [x \in DOMAIN counter' |-> counter'[x]]
    BY <1>1 DEF Leave, Restrict
  <2> QED
    BY <1>1, <2>1, <2>2, PartialIs
<1>3. TypeOK'
  BY <1>1, <1>2 DEF TypeOK
<1>4. CountInv'
  BY <1>1 DEF CountInv
<1>5. StayInv'
  BY <1>1 DEF StayInv
<1> QED
  BY <1>1, <1>3, <1>4, <1>5 DEF BufferInv

\* The driver counts what is sent.
LEMMA TransmitStep ==
  ASSUME IInv, NEW m \in Stations, Transmit(m)
  PROVE  IInv'
<1> USE DEF IInv
<1>1. /\ DOMAIN counter' = DOMAIN counter
      /\ counter' = [counter EXCEPT ![m] = @ + 1]
      /\ sent' = [sent EXCEPT ![m] = @ + 1]
      /\ sent[m] < MaxSent
      /\ m \in DOMAIN counter
      /\ UNCHANGED <<prevData, buffer, deltas, terminated, sentBefore, counted,
                     stayed, misled>>
  BY DEF Transmit
<1>2. /\ DOMAIN counter \subseteq Stations /\ counter \in [DOMAIN counter -> 0 .. MaxSent]
      /\ DOMAIN prevData \subseteq Stations /\ prevData \in [DOMAIN prevData -> 0 .. MaxSent]
      /\ sent \in [Stations -> 0 .. MaxSent] /\ sentBefore \in [Stations -> 0 .. MaxSent]
      /\ counted \in [Stations -> Int]
  BY PartialIs DEF TypeOK
<1>3. counter[m] <= sent[m]
  BY <1>1 DEF CountInv
<1>4. sent' \in [Stations -> 0 .. MaxSent]
  BY <1>1, <1>2, TrafficAssumption
<1>5. counter' \in PartialFunctions(Stations, 0 .. MaxSent)
  <2>1. counter' \in [DOMAIN counter' -> 0 .. MaxSent]
    BY <1>1, <1>2, <1>3, TrafficAssumption
  <2> QED
    BY <1>1, <1>2, <2>1, PartialIs
<1>6. TypeOK'
  BY <1>1, <1>4, <1>5 DEF TypeOK
<1>7. \A x \in Stations :
        /\ sent'[x] = IF x = m THEN sent[x] + 1 ELSE sent[x]
        /\ x \in DOMAIN counter => counter'[x] = IF x = m THEN counter[x] + 1 ELSE counter[x]
  BY <1>1, <1>2
<1>8. CountInv'
  BY <1>1, <1>2, <1>7, TrafficAssumption DEF CountInv
<1>9. StayInv'
  <2> SUFFICES ASSUME ~misled, NEW x \in stayed
               PROVE  counter'[x] - prevData[x] = sent'[x] - sentBefore[x]
    BY <1>1 DEF StayInv
  <2>1. x \in DOMAIN counter /\ x \in DOMAIN prevData /\ x \in Stations
        /\ counter[x] - prevData[x] = sent[x] - sentBefore[x]
    BY <1>2 DEF StayInv
  <2> QED
    BY <1>2, <1>7, <2>1, TrafficAssumption
<1> QED
  BY <1>1, <1>6, <1>8, <1>9 DEF BufferInv

\* A round counts what the two answers differ by.
LEMMA RoundStep == IInv /\ MakeInputData => IInv'
<1> SUFFICES ASSUME IInv, MakeInputData PROVE IInv'
  OBVIOUS
<1> USE DEF IInv
<1>1. PICK map \in Answers : /\ Remember(map) \/ Compare(map)
                             /\ buffer' = map
                             /\ misled' = (map # counter)
  BY DEF MakeInputData
<1>2. UNCHANGED <<counter, sent>> /\ sentBefore' = sent /\ stayed' = DOMAIN counter
  BY DEF MakeInputData, driverVars
<1>3. prevData' = map
  BY <1>1 DEF Remember, Compare
<1>4. map = counter \/ map = prevData \/ map = None
  BY DEF Answers, BufferInv
<1>5. /\ DOMAIN counter \subseteq Stations /\ counter \in [DOMAIN counter -> 0 .. MaxSent]
      /\ DOMAIN prevData \subseteq Stations /\ prevData \in [DOMAIN prevData -> 0 .. MaxSent]
      /\ sent \in [Stations -> 0 .. MaxSent] /\ counted \in [Stations -> Int]
      /\ DOMAIN map \subseteq Stations /\ map \in [DOMAIN map -> 0 .. MaxSent]
      /\ map \in PartialFunctions(Stations, 0 .. MaxSent)
  <2>1. map \in PartialFunctions(Stations, 0 .. MaxSent)
    BY <1>4, NoneIs DEF TypeOK
  <2> QED
    BY <2>1, PartialIs DEF TypeOK
<1>6. /\ deltas' \in PartialFunctions(Stations, -MaxSent .. MaxSent)
      /\ counted' \in [Stations -> Int]
      /\ \A m \in Stations :
           \/ counted'[m] = counted[m]
           \/ /\ m \in DOMAIN map \cap DOMAIN prevData
              /\ counted'[m] = counted[m] + (map[m] - prevData[m])
  <2>1. CASE Remember(map)
    BY <2>1 DEF Remember, TypeOK
  <2>2. CASE Compare(map)
    <3> DEFINE D == DOMAIN map \cap DOMAIN prevData
    <3>1. deltas' = [m \in D |-> map[m] - prevData[m]]
      BY <2>2 DEF Compare, Deltas
    <3>2. counted' = [m \in Stations |-> IF m \in D THEN counted[m] + (map[m] - prevData[m])
                                         ELSE counted[m]]
      BY <2>2, <3>1 DEF Compare, Counted
    <3>3. \A m \in D : map[m] - prevData[m] \in -MaxSent .. MaxSent
      BY <1>5, TrafficAssumption
    <3>4. deltas' \in PartialFunctions(Stations, -MaxSent .. MaxSent)
      <4>1. DOMAIN deltas' = D /\ D \subseteq Stations
        BY <1>5, <3>1
      <4>2. deltas' \in [D -> -MaxSent .. MaxSent]
        BY <3>1, <3>3
      <4> QED
        BY <4>1, <4>2, PartialIs
    <3>5. counted' \in [Stations -> Int]
      BY <1>5, <3>2, <3>3, TrafficAssumption
    <3>6. \A m \in Stations :
            \/ counted'[m] = counted[m]
            \/ /\ m \in D
               /\ counted'[m] = counted[m] + (map[m] - prevData[m])
      BY <3>2
    <3> QED
      BY <3>4, <3>5, <3>6
  <2> QED
    BY <1>1, <2>1, <2>2
<1>7. TypeOK'
  <2>1. misled' \in BOOLEAN /\ terminated' \in BOOLEAN
    BY <1>1, Zenon DEF Remember, Compare, TypeOK
  <2> QED
    BY <1>1, <1>2, <1>3, <1>5, <1>6, <2>1 DEF TypeOK
<1>8. CountInv'
  <2> SUFFICES ASSUME NEW m \in Stations
               PROVE  /\ counted'[m] <= sent[m]
                      /\ m \in DOMAIN counter => counter[m] <= sent[m]
                      /\ m \in DOMAIN counter \cap DOMAIN map =>
                           counted'[m] + (counter[m] - map[m]) <= sent[m]
    BY <1>2, <1>3 DEF CountInv
  <2>1. /\ counted[m] <= sent[m]
        /\ m \in DOMAIN counter => counter[m] <= sent[m]
        /\ m \in DOMAIN counter \cap DOMAIN prevData =>
             counted[m] + (counter[m] - prevData[m]) <= sent[m]
        /\ counted[m] \in Int /\ sent[m] \in Int
        /\ m \in DOMAIN counter => counter[m] \in Int
        /\ m \in DOMAIN prevData => prevData[m] \in Int
    BY <1>5, TrafficAssumption DEF CountInv
  <2>2. CASE map = counter
    BY <1>6, <2>1, <2>2
  <2>3. CASE map = prevData
    BY <1>6, <2>1, <2>3
  <2>4. CASE map = None
    BY <1>6, <2>1, <2>4, NoneIs
  <2> QED
    BY <1>4, <2>2, <2>3, <2>4
<1>9. StayInv'
  <2>1. ~misled' => map = counter
    BY <1>1
  <2>2. \A m \in DOMAIN counter : counter[m] - counter[m] = sent[m] - sent[m]
    BY <1>5, TrafficAssumption
  <2> QED
    BY <1>2, <1>3, <2>1, <2>2 DEF StayInv
<1> QED
  BY <1>1, <1>3, <1>7, <1>8, <1>9 DEF BufferInv

LEMMA Inductive == IInv /\ [Next]_vars => IInv'
<1>1. IInv /\ UNCHANGED vars => IInv'
  BY DEF vars, driverVars, IInv, TypeOK, BufferInv, CountInv, StayInv
<1> QED
  BY <1>1, AssociateStep, LeaveStep, TransmitStep, RoundStep DEF Next

-----------------------------------------------------------------------------

\* Stations, driver and rounds preserve the invariant.
THEOREM Invariant == Spec => []IInv
BY Initially, Inductive, PTL DEF Spec

\* TYPES.  A difference is never greater than what a station has sent at all.
THEOREM TypeCorrect == Spec => []TypeOK
<1>1. IInv => TypeOK
  BY DEF IInv
<1> QED
  BY <1>1, Invariant, PTL

\* SAFETY.  No traffic is counted twice.
THEOREM CountedOnce == Spec => []NothingTwice
<1>1. IInv => NothingTwice
  BY DEF IInv, CountInv, NothingTwice
<1> QED
  BY <1>1, Invariant, PTL

\* ACTION.  The difference of a station that stayed is its traffic, between
\* true answers.
THEOREM DifferencesAreTraffic == Spec => DeltaIsTraffic
<1>1. ASSUME IInv, [Next]_vars PROVE DeltasAreTraffic
  <2> SUFFICES ASSUME NEW m \in DOMAIN deltas' \cap stayed,
                      MakeInputData, prevData # None, ~misled, ~misled'
               PROVE  deltas'[m] = sent[m] - sentBefore[m]
    BY DEF DeltasAreTraffic
  <2>1. Compare(counter)
    BY DEF MakeInputData, Remember
  <2>2. m \in DOMAIN counter \cap DOMAIN prevData
        /\ deltas'[m] = counter[m] - prevData[m]
    BY <2>1 DEF Compare, Deltas
  <2> QED
    BY <1>1, <2>2 DEF IInv, StayInv
<1> QED
  BY <1>1, Invariant, PTL DEF Spec, DeltaIsTraffic

\* ACTION.  Between true answers the process dies only of a round over which no
\* station has stayed.
THEOREM DeathHasCause == Spec => CauseOfDeath
<1>1. ASSUME IInv, [Next]_vars PROVE DiesOfNothing
  <2> SUFFICES ASSUME terminated', ~terminated, ~misled, ~misled' PROVE stayed = {}
    BY DEF DiesOfNothing
  <2>1. MakeInputData
    BY <1>1 DEF Next, vars, Associate, Leave, Transmit
  <2>2. Compare(counter)
    BY <2>1 DEF MakeInputData, Remember
  <2>3. DOMAIN counter \cap DOMAIN prevData = {}
    <3>1. DOMAIN Deltas(counter) = DOMAIN counter \cap DOMAIN prevData
      BY DEF Deltas
    <3>2. Deltas(counter) = None
      BY <2>2 DEF Compare
    <3> QED
      BY <3>1, <3>2, NoneIs
  <2> QED
    BY <1>1, <2>3 DEF IInv, StayInv
<1> QED
  BY <1>1, Invariant, PTL DEF Spec, CauseOfDeath
=============================================================================
