------------------------------ MODULE TxPower ------------------------------
(***************************************************************************)
(* The transmit power of the radio and its writers: main() at start, the   *)
(* AI loop (wireless_poll_func) and the command thread (cmd_poll_func).    *)
(* All go through wireless_controller::set_txpower, which first asks which *)
(* board it runs on and then calls iw; the AI loop before that reads the   *)
(* current power.  No lock spans these steps.                              *)
(*                                                                         *)
(* The driver is external: it is given a power in its own unit, and takes  *)
(* the highest level it has that is not above it.                          *)
(***************************************************************************)
EXTENDS Integers, Sequences, FiniteSets, FiniteSetsExt

CONSTANTS
  Levels,       \* powers the driver has, in dBm
  Broadcom,     \* the driver counts in hundredths of a dBm
  AiControl,    \* AI_CONTROLL, FALSE with --nocontrol
  Faults,       \* queries and shell commands may fail
  CmdPowers,    \* powers an operator asks for
  MaxCmds       \* bound: operator commands in a behaviour

ASSUME TxPowerAssumption ==
  /\ IsFiniteSet(Levels) /\ Levels # {} /\ Levels \subseteq Nat
  /\ {Broadcom, AiControl, Faults} \subseteq BOOLEAN
  /\ CmdPowers \subseteq Int
  /\ MaxCmds \in Nat

Callers == {"main", "ai", "cmd"}

VARIABLES
  power,        \* the power the radio uses
  txpower_list, \* the levels read at start
  modelOk,      \* initAIModel succeeded
  load,         \* whether users cause traffic; 1 and 0, as the samples
  q,            \* the last samples, newest first
  pc,           \* pc[a]: program counter of a's thread
  dir,          \* 1 or -1: whether the AI loop raises or lowers the power
  target,       \* target[a]: argument of a's call of set_txpower
  scale,        \* scale[a]: the factor it applies
  cmds,         \* operator commands so far
  lastDir,      \* history: direction of the AI loop's last write, 0 before it
  since,        \* history: samples since that write, up to 3
  interfered    \* history: a command was written after the AI loop read power

vars == <<power, txpower_list, modelOk, load, q, pc, dir, target, scale, cmds,
          lastDir, since, interfered>>

Unit == IF Broadcom THEN 100 ELSE 1

\* The driver's answer to "set txpower fixed v".
Driver(v) == LET fit == {l \in Levels : l * Unit <= v}
             IN IF fit = {} THEN Min(Levels) ELSE Max(fit)

Goto(a, label) == pc' = [pc EXCEPT ![a] = label]
Started == pc["main"] = "done"

Init ==
  /\ power \in Levels
  /\ txpower_list = {}
  /\ modelOk \in IF Faults THEN BOOLEAN ELSE {TRUE}
  /\ load \in {0, 1}
  /\ q = <<>>
  /\ pc = [main |-> "load", ai |-> "sample", cmd |-> "wait"]
  /\ dir = 1
  /\ target = [a \in Callers |-> 0]
  /\ scale = [a \in Callers |-> 1]
  /\ cmds = 0
  /\ lastDir = 0
  /\ since = 0
  /\ interfered = FALSE

-----------------------------------------------------------------------------
(* wireless_controller::set_txpower *)

\* is_broadcom_chipset: an answer that is no JSON counts as "yes" (the -1 is
\* converted to true), one without a release as "no".
Board(a) ==
  /\ pc[a] = "board"
  /\ \E s \in IF Faults THEN {Unit, 1, 100} ELSE {Unit} :
       scale' = [scale EXCEPT ![a] = s]
  /\ Goto(a, "iw")
  /\ UNCHANGED <<power, txpower_list, modelOk, load, q, dir, target, cmds,
                 lastDir, since, interfered>>

Return(a) == CASE a = "main" -> "done" [] a = "ai" -> "sleep" [] a = "cmd" -> "wait"

\* system("iw dev ... set txpower fixed ..."), which may fail unnoticed
Iw(a) ==
  /\ pc[a] = "iw"
  /\ \/ power' = Driver(target[a] * scale[a])
     \/ Faults /\ UNCHANGED power
  /\ Goto(a, Return(a))
  /\ IF a = "ai" THEN lastDir' = dir /\ since' = 0 ELSE UNCHANGED <<lastDir, since>>
  /\ interfered' = (interfered \/ a = "cmd")
  /\ UNCHANGED <<txpower_list, modelOk, load, q, dir, target, scale, cmds>>

-----------------------------------------------------------------------------
(* main: init_controller, before the threads are started *)

\* update_txpower_list and the search for the maximum in set_max_txpower.  A
\* bad answer leaves the list empty, a bad element ends it early.
LoadList ==
  /\ pc["main"] = "load"
  /\ \E ls \in IF Faults THEN {{l \in Levels : l < k} : k \in Levels} \cup {Levels}
               ELSE {Levels} :
       /\ txpower_list' = ls
       /\ target' = [target EXCEPT !["main"] = Max(ls \cup {0})]
  /\ Goto("main", "board")
  /\ UNCHANGED <<power, modelOk, load, q, dir, scale, cmds, lastDir, since,
                 interfered>>

-----------------------------------------------------------------------------
(* The AI loop, wireless_poll_func *)

Traffic ==
  /\ load' = 1 - load
  /\ UNCHANGED <<power, txpower_list, modelOk, q, pc, dir, target, scale, cmds,
                 lastDir, since, interfered>>

\* Mutant of Pushed: the window is cut at the wrong end.
Pushed_DropsNewest(b) == IF Len(q) = 3 THEN q ELSE <<b>> \o q

\* push_front, and pop_back when that makes four
Pushed(b) == SubSeq(<<b>> \o q, 1, IF Len(q) = 3 THEN 3 ELSE Len(q) + 1)

\* Mutant of AllAre: one sample decides.
AllAre_Newest(s, b) == s[1] = b

AllAre(s, b) == Len(s) = 3 /\ \A k \in 1 .. 3 : s[k] = b

\* One sample.  Without an interpreter the output is -1, which counts as idle.
Sample ==
  /\ Started
  /\ pc["ai"] = "sample"
  /\ q' = Pushed(IF modelOk THEN load ELSE 0)
  /\ since' = IF since = 3 THEN 3 ELSE since + 1
  /\ IF AiControl /\ (AllAre(q', 1) \/ AllAre(q', 0))
     THEN dir' = (IF AllAre(q', 1) THEN 1 ELSE -1) /\ Goto("ai", "read")
     ELSE UNCHANGED dir /\ Goto("ai", "sleep")
  /\ UNCHANGED <<power, txpower_list, modelOk, load, target, scale, cmds,
                 lastDir, interfered>>

\* makeInputData has nothing to compare with yet and returns -1.
NoSample ==
  /\ Started
  /\ Faults
  /\ pc["ai"] = "sample"
  /\ Goto("ai", "sleep")
  /\ UNCHANGED <<power, txpower_list, modelOk, load, q, dir, target, scale,
                 cmds, lastDir, since, interfered>>

\* Mutant of MayStep: > for >=.
MayStep_StopsAtOne(current) ==
  /\ current # -1
  /\ IF dir = 1 THEN current + 1 \in txpower_list ELSE current - 1 > 0

\* May the loop go on from the current power?  Upwards only to a listed power,
\* downwards to any that is not negative.
MayStep(current) ==
  /\ current # -1
  /\ IF dir = 1 THEN current + 1 \in txpower_list ELSE current - 1 >= 0

\* Mutant of ReadCurrent: counts on from the loop's own last power.
ReadCurrent_Cached ==
  /\ pc["ai"] = "read"
  /\ IF MayStep(target["ai"])
     THEN target' = [target EXCEPT !["ai"] = @ + dir] /\ Goto("ai", "board")
     ELSE UNCHANGED target /\ Goto("ai", "sleep")
  /\ interfered' = FALSE
  /\ UNCHANGED <<power, txpower_list, modelOk, load, q, dir, scale, cmds,
                 lastDir, since>>

\* up_txpower and down_txpower up to their call of set_txpower;
\* get_current_txpower returns -1 when it fails.
ReadCurrent ==
  /\ pc["ai"] = "read"
  /\ \E current \in IF Faults THEN {power, -1} ELSE {power} :
       IF MayStep(current)
       THEN target' = [target EXCEPT !["ai"] = current + dir] /\ Goto("ai", "board")
       ELSE UNCHANGED target /\ Goto("ai", "sleep")
  /\ interfered' = FALSE
  /\ UNCHANGED <<power, txpower_list, modelOk, load, q, dir, scale, cmds,
                 lastDir, since>>

Wake ==
  /\ pc["ai"] = "sleep"
  /\ Goto("ai", "sample")
  /\ UNCHANGED <<power, txpower_list, modelOk, load, q, dir, target, scale,
                 cmds, lastDir, since, interfered>>

-----------------------------------------------------------------------------
(* The command thread, at a command with "txpower=..." in it *)

Command ==
  /\ Started
  /\ pc["cmd"] = "wait"
  /\ cmds < MaxCmds
  /\ cmds' = cmds + 1
  /\ \E p \in CmdPowers : target' = [target EXCEPT !["cmd"] = p]
  /\ Goto("cmd", "board")
  /\ UNCHANGED <<power, txpower_list, modelOk, load, q, dir, scale, lastDir,
                 since, interfered>>

-----------------------------------------------------------------------------

Main == LoadList \/ Board("main") \/ Iw("main")
Ai == Sample \/ NoSample \/ ReadCurrent \/ Board("ai") \/ Iw("ai") \/ Wake
SetFromCommand == Board("cmd") \/ Iw("cmd")

Next == Main \/ Ai \/ SetFromCommand \/ Command \/ Traffic

Spec == Init /\ [][Next]_vars

\* The threads are scheduled; nobody has to send a command.
FairSpec == Spec /\ WF_vars(Main) /\ WF_vars(Ai) /\ WF_vars(SetFromCommand)

-----------------------------------------------------------------------------
(* Properties. *)

Labels == {"load", "done", "sample", "read", "sleep", "wait", "board", "iw"}

TypeOK ==
  /\ power \in Levels
  /\ txpower_list \subseteq Levels
  /\ modelOk \in BOOLEAN
  /\ load \in {0, 1}
  /\ q \in Seq({0, 1}) /\ Len(q) <= 3
  /\ pc \in [Callers -> Labels]
  /\ pc["main"] \in {"load", "board", "iw", "done"}
  /\ pc["ai"] \in {"sample", "read", "board", "iw", "sleep"}
  /\ pc["cmd"] \in {"wait", "board", "iw"}
  /\ dir \in {-1, 1}
  /\ target \in [Callers -> Int]
  /\ scale \in [Callers -> {1, 100}]
  /\ cmds \in 0 .. MaxCmds
  /\ lastDir \in {-1, 0, 1}
  /\ since \in 0 .. 3
  /\ interfered \in BOOLEAN

AiWrites == pc["ai"] = "iw" /\ pc'["ai"] = "sleep"

ByOneLevel ==
  AiWrites /\ ~interfered /\ scale["ai"] = Unit =>
    /\ (power' - power) * dir >= 0
    /\ ~\E l \in Levels : \/ power < l /\ l < power'
                          \/ power' < l /\ l < power

\* ACTION.  The AI loop moves the power by one level at most, and in the
\* direction the samples point; it can do more harm only if a command was
\* written between its read and its write (which then undoes the command) or
\* if the board was mistaken.
OneLevel == [][ByOneLevel]_vars

TurnsSlowly == AiWrites /\ lastDir = -dir => since = 3

\* ACTION.  The loop does not flap: between two writes in opposite directions
\* there are three samples.
NoFlapping == [][TurnsSlowly]_vars

\* LIVENESS.  Under lasting traffic the power rises until the next power is not
\* listed, which is the highest level only if the list has no gap; without
\* traffic it falls to the lowest level, and no command keeps it from either.
FollowsTraffic ==
  /\ <>[](load = 1) => <>[](power + 1 \notin txpower_list)
  /\ <>[](load = 0) => <>[](power = Min(Levels))
=============================================================================
