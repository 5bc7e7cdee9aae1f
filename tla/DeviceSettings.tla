--------------------------- MODULE DeviceSettings ---------------------------
(***************************************************************************)
(* A setting on its way from the library to the radio: setWirelessUcis and *)
(* setSSID send every setting over a connection of its own, the daemon has *)
(* a thread for each, the threads push into one queue, and the command     *)
(* thread acts upon what it takes out, and commits and reloads when it     *)
(* finds the queue empty.  The queue is taken by its promise, CommandLog,  *)
(* with one writer for each setting; how the deque keeps it is             *)
(* CommandQueue's matter, how the threads get their connections            *)
(* CommandServer's.  Where the promise is void, or the process dies, the   *)
(* model stops.  The empty strings the queue is created with have been     *)
(* handled.                                                                *)
(*                                                                         *)
(* A setting is a pair <<c, k>>, the k-th of call c; options hold the      *)
(* setting that wrote them last.                                           *)
(***************************************************************************)
EXTENDS Naturals, Sequences, FiniteSets

CONSTANTS
  Calls,        \* calls of setWirelessUcis and setSSID
  Ssid,         \* those of setSSID
  Target,       \* Target[c][k]: the option the k-th setting of call c sets
  Kind,         \* Kind[c][k]: what cmd_poll_func takes it for
  Package,      \* Package[o]: the configuration package option o is in
  Nobody        \* no setting has been made

Settings == UNION {{<<c, k>> : k \in 1 .. Len(Target[c])} : c \in Calls}
Option(m) == Target[m[1]][m[2]]
KindOf(m) == Kind[m[1]][m[2]]

\* Settings of options, staged by "uci set"; those of the power go to the radio.
Uci == {m \in Settings : KindOf(m) = "uci"}
TxPower == {m \in Settings : KindOf(m) = "txpower"}
Options == {Option(m) : m \in Uci}

ASSUME SettingsAssumption ==
  /\ \A c \in Calls : Len(Target[c]) \in Nat
  /\ \A m \in Settings : KindOf(m) \in {"other", "uci", "txpower"}
  /\ Ssid \subseteq Calls
  /\ \A c \in Ssid : Len(Target[c]) = 1 /\ Kind[c][1] # "other"
  /\ Nobody \notin Settings

VARIABLES
  sent,         \* sent[c]: settings of c sent so far
  conn,         \* conn[m]: m's connection and thread
  left, pushing, pending, handled, void,        \* the queue, see CommandLog
  ppc,          \* program counter of cmd_poll_func
  isDequeued,
  terminated,   \* the daemon has been killed
  staged,       \* staged[o], Nobody if uncommitted changes do not touch o
  committed,    \* committed[o]
  active,       \* active[o]: what the network was reloaded with
  power,        \* the setting whose power was given to the radio last
  lost,         \* history: settings of which a connection, thread or command failed
  missed,       \* history: packages a commit has failed for
  reloadFailed, \* history: the last reload failed
  before        \* history: pairs sent one after the other was in the queue

queueVars == <<left, pushing, pending, handled, void>>
sendVars == <<sent, conn>>
configVars == <<staged, committed, active, power, missed, reloadFailed>>
pollVars == <<ppc, isDequeued, terminated>>
vars == <<sendVars, queueVars, pollVars, configVars, lost, before>>

Queue == INSTANCE CommandLog WITH
           Writers <- Settings, Script <- [m \in Settings |-> <<m>>], Initial <- <<>>

Init ==
  /\ sent = [c \in Calls |-> 0]
  /\ conn = [m \in Settings |-> "none"]
  /\ Queue!Init
  /\ ppc = "check"
  /\ isDequeued = FALSE
  /\ terminated = FALSE
  /\ staged = [o \in Options |-> Nobody]
  /\ committed = staged
  /\ active = staged
  /\ power = Nobody
  /\ lost = {}
  /\ missed = {}
  /\ reloadFailed = FALSE
  /\ before = {}

-----------------------------------------------------------------------------
(* The caller *)

\* setSSID gives up: the name is not available, or getBaseUci finds no section.
SetSsidRefused(c) ==
  /\ c \in Ssid
  /\ sent[c] = 0
  /\ sent' = [sent EXCEPT ![c] = 1]
  /\ lost' = lost \cup {<<c, 1>>}
  /\ UNCHANGED <<conn, queueVars, pollVars, configVars, before>>

\* Mutant of Send: what strtok returns after the last setting is sent as well.
Send_OneTooMany(c) ==
  LET m == <<c, sent[c] + 1>> IN
  /\ sent[c] <= Len(Target[c])
  /\ sent' = [sent EXCEPT ![c] = @ + 1]
  /\ \/ conn' = [conn EXCEPT ![m] = "sent"] /\ UNCHANGED lost
     \/ lost' = lost \cup {m} /\ UNCHANGED conn
  /\ before' = before \cup {<<n, m>> : n \in {s \in Settings : conn[s] = "queued"}}
  /\ UNCHANGED <<queueVars, pollVars, configVars>>

\* send_unix_msg_onetime with the next setting.  Neither function looks at
\* whether that works; setWirelessUcis goes on.  A setting is lost as well when
\* the server gets no thread for its connection.
Send(c) ==
  LET m == <<c, sent[c] + 1>> IN
  /\ sent[c] < Len(Target[c])
  /\ sent' = [sent EXCEPT ![c] = @ + 1]
  /\ \/ conn' = [conn EXCEPT ![m] = "sent"] /\ UNCHANGED lost
     \/ lost' = lost \cup {m} /\ UNCHANGED conn
  /\ before' = before \cup {<<n, m>> : n \in {s \in Settings : conn[s] = "queued"}}
  /\ UNCHANGED <<queueVars, pollVars, configVars>>

-----------------------------------------------------------------------------
(* The connection threads *)

\* The thread of the connection has read the setting and begins to push it.
Read(m) ==
  /\ conn[m] = "sent"
  /\ Queue!Begin(m)
  /\ conn' = [conn EXCEPT ![m] = "push"]
  /\ UNCHANGED <<sent, pollVars, configVars, lost, before>>

\* Mutant of Push: push_back, from where the command thread takes.
Push_Back(m) ==
  /\ conn[m] = "push"
  /\ left' = [left EXCEPT ![m] = <<>>]
  /\ pushing' = pushing \ {m}
  /\ pending' = <<m>> \o pending
  /\ conn' = [conn EXCEPT ![m] = "queued"]
  /\ UNCHANGED <<handled, void, sent, pollVars, configVars, lost, before>>

\* push_front has done its work.
Push(m) ==
  /\ conn[m] = "push"
  /\ Queue!Accept(m)
  /\ conn' = [conn EXCEPT ![m] = "queued"]
  /\ UNCHANGED <<sent, pollVars, configVars, lost, before>>

\* The push under way, which may be the only one, collides with another or
\* with the command thread.
Collide ==
  /\ UNCHANGED <<left, pushing, pending, handled, sendVars, pollVars, configVars,
                 lost, before>>
  /\ Queue!Void

-----------------------------------------------------------------------------
(* The command thread *)

\* while (!cmd_queue.empty()), and what follows the loop: an empty queue and
\* nothing to commit is where the thread sleeps.
Check ==
  /\ ppc = "check"
  /\ pending # <<>> \/ isDequeued
  /\ ppc' = IF pending # <<>> THEN "run" ELSE "commit"
  /\ UNCHANGED <<sendVars, queueVars, isDequeued, terminated, configVars, lost, before>>

\* The shell command for m, "uci set ..." or "iw ... set txpower ...", works.
Works(m) ==
  /\ staged' = IF m \in Uci THEN [staged EXCEPT ![Option(m)] = m] ELSE staged
  /\ power' = IF m \in TxPower THEN m ELSE power
  /\ UNCHANGED <<lost, terminated>>

\* It fails, which goes unnoticed.
Fails(m) ==
  /\ m \in Uci \cup TxPower
  /\ lost' = lost \cup {m}
  /\ UNCHANGED <<staged, power, terminated>>

\* stoi cannot parse the power and throws, which nothing catches.
Throws(m) ==
  /\ m \in TxPower
  /\ terminated' = TRUE
  /\ lost' = lost \cup {m}
  /\ UNCHANGED <<staged, power>>

\* Mutant of Run: only a power sets isDequeued.
Run_FlagForPower ==
  /\ ppc = "run"
  /\ Queue!Handle
  /\ LET m == Head(pending) IN
     /\ isDequeued' = (isDequeued \/ m \in TxPower)
     /\ Works(m) \/ Fails(m) \/ Throws(m)
  /\ ppc' = "check"
  /\ UNCHANGED <<sendVars, committed, active, missed, reloadFailed, before>>

\* The next setting is taken out and acted upon: by uci, by iw, or, if its text
\* does not contain "uci", not at all.
Run ==
  /\ ppc = "run"
  /\ Queue!Handle
  /\ LET m == Head(pending) IN
     /\ isDequeued' = (isDequeued \/ m \in Uci \cup TxPower)
     /\ Works(m) \/ Fails(m) \/ Throws(m)
  /\ ppc' = "check"
  /\ UNCHANGED <<sendVars, committed, active, missed, reloadFailed, before>>

\* Mutant of Commit: "uci commit <package>", the changes of others stay behind.
Commit_OnePackage ==
  /\ ppc = "commit"
  /\ \E g \in {Package[o] : o \in Options} :
       /\ committed' = [o \in Options |-> IF Package[o] # g \/ staged[o] = Nobody
                                          THEN committed[o] ELSE staged[o]]
       /\ staged' = [o \in Options |-> IF Package[o] # g THEN staged[o] ELSE Nobody]
  /\ ppc' = "reload"
  /\ UNCHANGED <<sendVars, queueVars, isDequeued, terminated, active, power, missed,
                 reloadFailed, lost, before>>

\* system("uci commit") commits package by package, each of which may fail.
Commit ==
  /\ ppc = "commit"
  /\ \E failed \in SUBSET {Package[o] : o \in {p \in Options : staged[p] # Nobody}} :
       /\ committed' = [o \in Options |-> IF Package[o] \in failed \/ staged[o] = Nobody
                                          THEN committed[o] ELSE staged[o]]
       /\ staged' = [o \in Options |-> IF Package[o] \in failed THEN staged[o] ELSE Nobody]
       /\ missed' = missed \cup failed
  /\ ppc' = "reload"
  /\ UNCHANGED <<sendVars, queueVars, isDequeued, terminated, active, power,
                 reloadFailed, lost, before>>

\* system("ubus call network reload"), which may fail too; with that, and a
\* sleep, the round is over and the flag a new one.
Reload ==
  /\ ppc = "reload"
  /\ \/ active' = committed /\ reloadFailed' = FALSE
     \/ reloadFailed' = TRUE /\ UNCHANGED active
  /\ isDequeued' = FALSE
  /\ ppc' = "check"
  /\ UNCHANGED <<sendVars, queueVars, terminated, staged, committed, power, missed,
                 lost, before>>

-----------------------------------------------------------------------------

Running == ~terminated /\ ~void

Caller(c) == Running /\ (Send(c) \/ SetSsidRefused(c))
Thread(m) == Running /\ (Read(m) \/ Push(m))
Poll == Running /\ (Check \/ Run \/ Commit \/ Reload)

Next ==
  \/ \E c \in Calls : Caller(c)
  \/ \E m \in Settings : Thread(m)
  \/ Running /\ Collide
  \/ Poll

Spec == Init /\ [][Next]_vars

\* The daemon's threads are scheduled.  Nobody has to call.
FairSpec == Spec /\ WF_vars(Poll) /\ \A m \in Settings : WF_vars(Thread(m))

-----------------------------------------------------------------------------
(* Properties. *)

Overrides == Settings \cup {Nobody}

TypeOK ==
  /\ sent \in [Calls -> Nat]
  /\ conn \in [Settings -> {"none", "sent", "push", "queued"}]
  /\ ppc \in {"check", "run", "commit", "reload"}
  /\ isDequeued \in BOOLEAN
  /\ terminated \in BOOLEAN
  /\ staged \in [Options -> Overrides]
  /\ committed \in [Options -> Overrides]
  /\ active \in [Options -> Overrides]
  /\ power \in Overrides
  /\ lost \subseteq Settings
  /\ missed \subseteq {Package[o] : o \in Options}
  /\ reloadFailed \in BOOLEAN
  /\ before \subseteq Settings \X Settings

Position(m) == CHOOSE k \in 1 .. Len(handled) : handled[k] = m
IsHandled(m) == \E k \in 1 .. Len(handled) : handled[k] = m
\* n has been handled after m, or is m.
NoEarlier(n, m) == IsHandled(m) /\ IsHandled(n) /\ Position(n) >= Position(m)

\* What uci shows of m's option, or the command thread's last power.
Shown(m) ==
  IF m \in TxPower THEN power
  ELSE IF staged[Option(m)] # Nobody THEN staged[Option(m)] ELSE committed[Option(m)]

InForce(m) == IF m \in TxPower THEN power ELSE active[Option(m)]
Applied(m) == NoEarlier(InForce(m), m)

PackageOf(m) == Package[Option(m)]
SameTarget(m, n) == \/ m \in TxPower /\ n \in TxPower
                    \/ m \in Uci /\ n \in Uci /\ Option(m) = Option(n)

\* SAFETY.  A setting that was sent when another one was already in the queue
\* overrides it: in what uci shows, and in the power, the older one never stands
\* once the younger one has been run.  Two settings of one call that are sent in
\* a row have no such order: their threads may overtake each other.  Nothing is
\* said of what follows a collision in the queue, where the model stops.
YoungerWins ==
  \A m, n \in Settings :
    <<m, n>> \in before /\ SameTarget(m, n) /\ IsHandled(n) /\ n \notin lost
    => m # Shown(n)

\* SAFETY.  No reload shows a setting without those that were in the queue when
\* it was sent, unless their commands failed: of a package, what is applied is
\* always a beginning, whatever commits and reloads fail; across packages only
\* a commit that failed for the older setting's package can part the two.  The
\* power does not wait for commit and reload, so it is never behind either.
InOrder ==
  \A m \in Uci \cup TxPower, n \in Uci :
    /\ <<m, n>> \in before /\ active[Option(n)] = n /\ m \notin lost
    /\ m \in Uci => PackageOf(m) = PackageOf(n) \/ PackageOf(m) \notin missed
    => Applied(m)

\* LIVENESS.  When the callers have nothing more to send, every setting that has
\* reached the daemon becomes and stays active, or one that was handled after it
\* does: unless its command failed, or, for an option, a commit of its package or
\* the last reload; or the process died or the queue was broken before.
TakesEffect ==
  <>[](\A m \in Uci \cup TxPower :
         conn[m] # "none" =>
           \/ Applied(m)
           \/ m \in lost \/ terminated \/ void
           \/ m \in Uci /\ (PackageOf(m) \in missed \/ reloadFailed))
=============================================================================
