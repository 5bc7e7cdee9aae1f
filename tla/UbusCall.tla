------------------------------ MODULE UbusCall ------------------------------
(***************************************************************************)
(* Processes that call ubus one at a time: ubus_cmd_call and               *)
(* ubus_cmd_just_call take the System V semaphore of mysemaphore.c before  *)
(* they connect.  lockSemaphore creates the semaphore when there is none,  *)
(* and unlockSemaphore REMOVES it, whoever waits for it or has just taken  *)
(* it.  Nobody looks at whether the semaphore was obtained.                *)
(*                                                                         *)
(* The kernel and the bus are external: a semaphore is created with value  *)
(* 0, its identifier is not given to another while a caller still has it,  *)
(* SETVAL cancels what SEM_UNDO has noted, and a process that ends gives   *)
(* back what is noted for it.  There is one key, so that at most one       *)
(* semaphore exists: the others are identifiers of removed ones.           *)
(*                                                                         *)
(* UbusInit, UbusNext, UbusSpec: the names without a prefix are those of   *)
(* LeakDetector in ToolsProofs, which extends both.                        *)
(***************************************************************************)
EXTENDS Naturals, FiniteSets

CONSTANTS
  Procs,        \* processes that use the bus
  Sems,         \* identifiers the kernel can give to semaphores
  NoSem         \* no semaphore; -1 for the callers

ASSUME UbusAssumption == NoSem \notin Sems

VARIABLES
  key,          \* the semaphore UBUS_SEMANUM names, or NoSem
  value,        \* its value
  holders,      \* processes SEM_UNDO has noted as having taken it
  pc,           \* pc[p]: how far p's call has got
  semid,        \* semid[p]: the identifier lockSemaphore() returned
  waits,        \* waits[p]: the call is ubus_cmd_call, which waits for data
  result,       \* result[p]: the global buffer of p holds an answer
  initialised,  \* history: the semaphore has been set to 1
  undermined    \* history: a caller has lost the semaphore it went for

semVars == <<key, value, holders, initialised>>
callVars == <<waits, result>>
ubusVars == <<semVars, pc, semid, callVars, undermined>>

UbusInit ==
  /\ key = NoSem
  /\ value = 0
  /\ holders = {}
  /\ pc = [p \in Procs |-> "idle"]
  /\ semid = [p \in Procs |-> NoSem]
  /\ waits = [p \in Procs |-> FALSE]
  /\ result = [p \in Procs |-> FALSE]
  /\ initialised = FALSE
  /\ undermined = FALSE

Goto(p, label) == pc' = [pc EXCEPT ![p] = label]
Alive(s) == s # NoSem /\ s = key
Inside(p) == pc[p] \in {"connect", "invoke", "await", "release"}

\* The call is over, and its local variable with it.
Return(p) == Goto(p, "idle") /\ semid' = [semid EXCEPT ![p] = NoSem]

-----------------------------------------------------------------------------

\* ubus_cmd_call() or ubus_cmd_just_call() is called.
Call(p) ==
  /\ pc[p] = "idle"
  /\ waits' \in {[waits EXCEPT ![p] = b] : b \in BOOLEAN}
  /\ Goto(p, "create")
  /\ UNCHANGED <<semVars, semid, result, undermined>>

\* semget(IPC_CREAT | IPC_EXCL) makes a semaphore
Create(p) ==
  /\ pc[p] = "create"
  /\ key = NoSem
  /\ \E s \in Sems :
       /\ \A q \in Procs : semid[q] # s
       /\ key' = s
       /\ semid' = [semid EXCEPT ![p] = s]
  /\ value' = 0
  /\ holders' = {}
  /\ initialised' = FALSE
  /\ Goto(p, "setval")
  /\ UNCHANGED <<callVars, undermined>>

\* ... or reports that there is one.
Exists(p) ==
  /\ pc[p] = "create"
  /\ key # NoSem
  /\ Goto(p, "open")
  /\ UNCHANGED <<semVars, semid, callVars, undermined>>

\* Mutant of Open: who finds the semaphore sets its value as well.
Open_SetsValue(p) ==
  /\ pc[p] = "open"
  /\ semid' = [semid EXCEPT ![p] = key]
  /\ value' = 1
  /\ Goto(p, "semop")
  /\ UNCHANGED <<key, holders, initialised, callVars, undermined>>

\* semget() of the semaphore that exists; -1 if it has gone by now
Open(p) ==
  /\ pc[p] = "open"
  /\ semid' = [semid EXCEPT ![p] = key]
  /\ Goto(p, "semop")
  /\ UNCHANGED <<semVars, callVars, undermined>>

\* semctl(SETVAL, 1); its status is not looked at
SetVal(p) ==
  /\ pc[p] = "setval"
  /\ IF Alive(semid[p])
     THEN value' = 1 /\ holders' = {} /\ initialised' = TRUE
     ELSE UNCHANGED <<value, holders, initialised>>
  /\ Goto(p, "semop")
  /\ UNCHANGED <<key, semid, callVars, undermined>>

\* Mutant of Semop: with IPC_NOWAIT.
Semop_NoWait(p) ==
  /\ pc[p] = "semop"
  /\ IF Alive(semid[p]) /\ value > 0
     THEN value' = value - 1 /\ holders' = holders \cup {p}
     ELSE UNCHANGED <<value, holders>>
  /\ Goto(p, "connect")
  /\ UNCHANGED <<key, semid, initialised, callVars, undermined>>

\* semop(-1, SEM_UNDO) blocks while the value is 0.  Of a semaphore that is
\* not there, or is removed meanwhile, it fails: that is logged, and the call
\* goes on.
Semop(p) ==
  /\ pc[p] = "semop"
  /\ \/ /\ Alive(semid[p])
        /\ value > 0
        /\ value' = value - 1
        /\ holders' = holders \cup {p}
     \/ /\ ~Alive(semid[p])
        /\ UNCHANGED <<value, holders>>
  /\ Goto(p, "connect")
  /\ UNCHANGED <<key, semid, initialised, callVars, undermined>>

\* ubus_connect()
Connect(p) ==
  /\ pc[p] = "connect"
  /\ Goto(p, "invoke")
  /\ UNCHANGED <<semVars, semid, callVars, undermined>>

\* It fails, and the call returns without releasing the semaphore.
ConnectFail(p) ==
  /\ pc[p] = "connect"
  /\ Return(p)
  /\ UNCHANGED <<semVars, callVars, undermined>>

\* ubus_invoke() returns, with data or without any; only ubus_cmd_call waits.
Invoke(p) ==
  /\ pc[p] = "invoke"
  /\ result' \in {result, [result EXCEPT ![p] = TRUE]}
  /\ Goto(p, IF waits[p] THEN "await" ELSE "release")
  /\ UNCHANGED <<semVars, semid, waits, undermined>>

\* The wait is for a buffer that is not empty, and nothing ever empties it:
\* without data of its own a call takes the answer of an earlier one, or waits
\* for good.
Await(p) ==
  /\ pc[p] = "await"
  /\ result[p]
  /\ Goto(p, "release")
  /\ UNCHANGED <<semVars, semid, callVars, undermined>>

\* unlockSemaphore of -1 returns at once.
NothingToRelease(p) ==
  /\ pc[p] = "release"
  /\ semid[p] = NoSem
  /\ Return(p)
  /\ UNCHANGED <<semVars, callVars, undermined>>

\* unlockSemaphore: semop(+1, SEM_UNDO), which fails of a removed semaphore
Release(p) ==
  /\ pc[p] = "release"
  /\ semid[p] # NoSem
  /\ IF Alive(semid[p])
     THEN value' = value + 1 /\ holders' = holders \ {p}
     ELSE UNCHANGED <<value, holders>>
  /\ Goto(p, "remove")
  /\ UNCHANGED <<key, initialised, semid, callVars, undermined>>

\* Is q about to open the semaphore, waiting for it, or inside with it?
Relies(q) == \/ pc[q] = "open"
             \/ semid[q] = key /\ (pc[q] = "semop" \/ Inside(q))

Undermining(p) == undermined \/ \E q \in Procs \ {p} : Relies(q)

\* Mutant of RemoveSem: whatever the key names is removed.
RemoveSem_ByKey(p) ==
  /\ pc[p] = "remove"
  /\ key' = NoSem
  /\ holders' = {}
  /\ undermined' = IF Alive(semid[p]) THEN Undermining(p) ELSE undermined
  /\ Return(p)
  /\ UNCHANGED <<value, initialised, callVars>>

\* Mutant of RemoveSem: unlockSemaphore ends before semctl.
RemoveSem_Kept(p) ==
  /\ pc[p] = "remove"
  /\ Return(p)
  /\ UNCHANGED <<semVars, callVars, undermined>>

\* unlockSemaphore: semctl(IPC_RMID), which frees the key and wakes who waits
RemoveSem(p) ==
  /\ pc[p] = "remove"
  /\ IF Alive(semid[p])
     THEN key' = NoSem /\ holders' = {} /\ undermined' = Undermining(p)
     ELSE UNCHANGED <<key, holders, undermined>>
  /\ Return(p)
  /\ UNCHANGED <<value, initialised, callVars>>

\* The process ends, at any point.
Exit(p) ==
  /\ pc[p] # "dead"
  /\ value' = IF p \in holders THEN value + 1 ELSE value
  /\ holders' = holders \ {p}
  /\ pc' = [pc EXCEPT ![p] = "dead"]
  /\ semid' = [semid EXCEPT ![p] = NoSem]
  /\ UNCHANGED <<key, initialised, callVars, undermined>>

-----------------------------------------------------------------------------

LockSemaphore(p) == Create(p) \/ Exists(p) \/ Open(p) \/ SetVal(p) \/ Semop(p)
UnlockSemaphore(p) == NothingToRelease(p) \/ Release(p) \/ RemoveSem(p)
Proceed(p) == LockSemaphore(p) \/ Connect(p) \/ ConnectFail(p) \/ Invoke(p)
              \/ Await(p) \/ UnlockSemaphore(p)

UbusNext == \E p \in Procs : Call(p) \/ Proceed(p) \/ Exit(p)

UbusSpec == UbusInit /\ [][UbusNext]_ubusVars

\* A process that has begun a call is scheduled.  Nobody has to begin one.
UbusFairSpec == UbusSpec /\ \A p \in Procs : WF_ubusVars(Proceed(p))

-----------------------------------------------------------------------------
(* Properties. *)

Labels == {"idle", "create", "open", "setval", "semop", "connect", "invoke",
           "await", "release", "remove", "dead"}

\* The value of the semaphore never exceeds 1.
UbusTypeOK ==
  /\ key \in Sems \cup {NoSem}
  /\ value \in {0, 1}
  /\ holders \subseteq Procs
  /\ pc \in [Procs -> Labels]
  /\ semid \in [Procs -> Sems \cup {NoSem}]
  /\ waits \in [Procs -> BOOLEAN]
  /\ result \in [Procs -> BOOLEAN]
  /\ initialised \in BOOLEAN
  /\ undermined \in BOOLEAN

\* SAFETY.  Processes create and remove the semaphore as they like, and end at
\* any point, but never do two hold the same one, nor is it free while held.
OneHolder == \A p, q \in holders : value = 0 /\ p = q

\* SAFETY.  Two processes use the bus at the same time only after a release has
\* removed the semaphore under somebody who was waiting for it, was about to
\* open it, or had just taken it.
Exclusion ==
  undermined \/ \A p, q \in Procs : Inside(p) /\ Inside(q) => p = q

\* SAFETY.  Whatever has happened, of two processes on the bus at the same time
\* one is there without the semaphore the key names.
CauseOfOverlap ==
  \A p, q \in Procs :
    Inside(p) /\ Inside(q) /\ Alive(semid[p]) /\ Alive(semid[q]) => p = q

\* The semaphore will not be released: its creator ended before it set the
\* value, or its holder returned without releasing it, or waits for good.
Abandoned ==
  \/ ~initialised /\ \A p \in Procs : pc[p] # "setval"
  \/ \E p \in holders : ~Inside(p) \/ (pc[p] = "await" /\ ~result[p])

\* LIVENESS.  A process that waits for the semaphore gets on, unless the
\* semaphore is abandoned: the removal wakes all that wait, so that no caller
\* is overtaken again and again.
GetsOn ==
  \A p \in Procs : (pc[p] = "semop") ~> (pc[p] # "semop" \/ Abandoned)
=============================================================================
