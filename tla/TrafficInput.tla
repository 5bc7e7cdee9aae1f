---------------------------- MODULE TrafficInput ----------------------------
(***************************************************************************)
(* What the AI loop knows of the stations' traffic: in every round         *)
(* makeInputData asks for the associated stations and their counters and   *)
(* subtracts the answer of the round before.  Stations come, go and send   *)
(* between the rounds.                                                     *)
(*                                                                         *)
(* One counter stands for the two the code subtracts (bytes and packets).  *)
(* The driver is external: it counts from 0 at every association.          *)
(***************************************************************************)
EXTENDS Integers, Functions, FiniteSets

CONSTANTS
  Stations,     \* stations, by MAC address
  MaxHosts,     \* stations whose answer fits into MAX_JSON_SIZE - 2 bytes
  Faults,       \* the query may fail
  MaxSent       \* bound: units of traffic of a station in a behaviour

ASSUME TrafficAssumption ==
  /\ IsFiniteSet(Stations)
  /\ MaxHosts \in Nat \ {0}
  /\ Faults \in BOOLEAN
  /\ MaxSent \in Nat

VARIABLES
  counter,      \* of the associated stations, in the driver
  prevData,     \* the answer of the round before, by station
  buffer,       \* the stack memory that collectRawData does not initialise
  deltas,       \* tx_bytes: the last round's differences, by station
  terminated,   \* the process is dead
  sent,         \* history: what each station has sent in all
  sentBefore,   \* history: what it had sent at the last round
  counted,      \* history: the sum of its deltas
  stayed,       \* history: stations associated since the last round
  misled        \* history: the last round did not get the true answer

driverVars == <<counter, sent>>
vars == <<driverVars, prevData, buffer, deltas, terminated, sentBefore, counted,
          stayed, misled>>

None == [m \in {} |-> 0]

Init ==
  /\ counter = None
  /\ prevData = None
  /\ buffer = None
  /\ deltas = None
  /\ terminated = FALSE
  /\ sent = [m \in Stations |-> 0]
  /\ sentBefore = [m \in Stations |-> 0]
  /\ counted = [m \in Stations |-> 0]
  /\ stayed = {}
  /\ misled = FALSE

-----------------------------------------------------------------------------
(* The stations and the driver. *)

Associate(m) ==
  /\ ~terminated
  /\ m \notin DOMAIN counter
  /\ counter' = [x \in DOMAIN counter \cup {m} |-> IF x = m THEN 0 ELSE counter[x]]
  /\ UNCHANGED <<prevData, buffer, deltas, terminated, sent, sentBefore, counted,
                 stayed, misled>>

Leave(m) ==
  /\ ~terminated
  /\ m \in DOMAIN counter
  /\ counter' = Restrict(counter, DOMAIN counter \ {m})
  /\ stayed' = stayed \ {m}
  /\ UNCHANGED <<prevData, buffer, deltas, terminated, sent, sentBefore, counted,
                 misled>>

Transmit(m) ==
  /\ ~terminated
  /\ m \in DOMAIN counter
  /\ sent[m] < MaxSent
  /\ counter' = [counter EXCEPT ![m] = @ + 1]
  /\ sent' = [sent EXCEPT ![m] = @ + 1]
  /\ UNCHANGED <<prevData, buffer, deltas, terminated, sentBefore, counted, stayed,
                 misled>>

-----------------------------------------------------------------------------
(* A round of the AI loop. *)

\* systemEx_oneline leaves the last line it read in the buffer, and a line that
\* does not fit is read in pieces, of which the last does not parse.  A query
\* without output leaves the buffer as it was.
Answers ==
  {IF Cardinality(DOMAIN counter) <= MaxHosts THEN counter ELSE None}
  \cup (IF Faults THEN {buffer, None} ELSE {})

\* Mutant of Deltas: the operands are swapped.
Deltas_Reversed(map) ==
  [m \in DOMAIN map \cap DOMAIN prevData |-> prevData[m] - map[m]]

\* The two loops over map and prevData.
Deltas(map) ==
  [m \in DOMAIN map \cap DOMAIN prevData |-> map[m] - prevData[m]]

Counted(ds) == [m \in Stations |->
                  IF m \in DOMAIN ds THEN counted[m] + ds[m] ELSE counted[m]]

\* The first answer with stations in it is only remembered.
Remember(map) ==
  /\ prevData = None
  /\ prevData' = map
  /\ UNCHANGED <<deltas, terminated, counted>>

\* Mutant of Compare: without clear(); insert() keeps what is there.
Compare_NotCleared(map) ==
  /\ prevData # None
  /\ prevData' = [m \in DOMAIN map \cup DOMAIN prevData |->
                    IF m \in DOMAIN prevData THEN prevData[m] ELSE map[m]]
  /\ deltas' = Deltas(map)
  /\ counted' = Counted(deltas')
  /\ terminated' = (deltas' = None)

\* Mutant of Compare: prevData.at() throws for a station that is new.
Compare_Throws(map) ==
  /\ prevData # None
  /\ prevData' = map
  /\ deltas' = Deltas(map)
  /\ counted' = Counted(deltas')
  /\ terminated' = (DOMAIN deltas' # DOMAIN map)

\* With no station in both answers the greatest element of an empty vector is
\* read, through a null pointer.
Compare(map) ==
  /\ prevData # None
  /\ prevData' = map
  /\ deltas' = Deltas(map)
  /\ counted' = Counted(deltas')
  /\ terminated' = (deltas' = None)

MakeInputData ==
  /\ ~terminated
  /\ \E map \in Answers :
       /\ Remember(map) \/ Compare(map)
       /\ buffer' = map
       /\ misled' = (map # counter)
  /\ sentBefore' = sent
  /\ stayed' = DOMAIN counter
  /\ UNCHANGED driverVars

-----------------------------------------------------------------------------

Next == MakeInputData \/ \E m \in Stations : Associate(m) \/ Leave(m) \/ Transmit(m)

Spec == Init /\ [][Next]_vars

-----------------------------------------------------------------------------
(* Properties. *)

PartialFunctions(S, T) == UNION {[D -> T] : D \in SUBSET S}

TypeOK ==
  /\ counter \in PartialFunctions(Stations, 0 .. MaxSent)
  /\ prevData \in PartialFunctions(Stations, 0 .. MaxSent)
  /\ buffer \in PartialFunctions(Stations, 0 .. MaxSent)
  /\ deltas \in PartialFunctions(Stations, -MaxSent .. MaxSent)
  /\ terminated \in BOOLEAN
  /\ sent \in [Stations -> 0 .. MaxSent]
  /\ sentBefore \in [Stations -> 0 .. MaxSent]
  /\ counted \in [Stations -> Int]
  /\ stayed \subseteq Stations
  /\ misled \in BOOLEAN

\* SAFETY.  No traffic is counted twice, though stations go and come back with
\* a counter of 0 and answers are late or missing.
NothingTwice == \A m \in Stations : counted[m] <= sent[m]

DeltasAreTraffic ==
  \A m \in DOMAIN deltas' \cap stayed :
    MakeInputData /\ prevData # None /\ ~misled /\ ~misled' =>
      deltas'[m] = sent[m] - sentBefore[m]

\* ACTION.  The difference of a station that stayed is what it has sent since
\* the last round, if both rounds got the true answer.
DeltaIsTraffic == [][DeltasAreTraffic]_vars

DiesOfNothing == terminated' /\ ~terminated => stayed = {} \/ misled \/ misled'

\* ACTION.  The process dies of a round only if no station has stayed since the
\* last one, or if one of the two did not get the true answer: that all have
\* left is enough.
CauseOfDeath == [][DiesOfNothing]_vars
=============================================================================
