---------------------------- MODULE WirelessUcis ----------------------------
(***************************************************************************)
(* getWirelessUcis: the settings of a radio and of its interface, as uci   *)
(* prints them, put together in the caller's buffer.  The lines of a       *)
(* command are collected in an array of strings (systemEx), appended one   *)
(* by one (strcat_safe) and freed (freeStrings), first for the radio, then *)
(* for the interface, if there is one (getBaseUci).                        *)
(*                                                                         *)
(* A line is known by the query it answers and its number; of its text     *)
(* only the length matters.  The buffer is what has been appended to it;   *)
(* blocks of memory are counted.                                           *)
(***************************************************************************)
EXTENDS Integers, Sequences, SequencesExt, FiniteSetsExt

CONSTANTS
  Lengths,      \* lengths lines can have, "\n" included
  MaxOutput,    \* bound: lines a command prints
  MaxLine,      \* MAX_LINE: strings the array can hold
  BufLen,       \* buf_len: the size of the caller's buffer
  TmpLen,       \* the size of tmp, in which a line is quoted
  StartLen, EndLen      \* lengths of what goes before and after the lines

ASSUME UcisAssumption ==
  /\ Lengths \subseteq Nat \ {0}
  /\ {MaxOutput, MaxLine, BufLen, TmpLen, StartLen, EndLen} \subseteq Nat
  /\ StartLen < BufLen

Queries == {"radio", "iface"}

VARIABLES
  pc,
  query,        \* the query that is being answered
  printed,      \* printed[q]: lengths of the lines the command printed
  result,       \* the array: the lines it holds; lines are <<query, number>>
  i,            \* the loop's index
  buf,          \* what has been put in the buffer, in order
  blocks,       \* blocks of memory that are allocated
  outside,      \* a byte outside of a buffer was written
  ret           \* what getWirelessUcis returns

vars == <<pc, query, printed, result, i, buf, blocks, outside, ret>>

Start == <<"start", 0>>
End == <<"end", 0>>
Items == {Start, End} \cup (Queries \X (1 .. MaxOutput))

\* copyString_m cuts off the line feed, and the last character with it.
Cut(n) == n - 2
\* Of a line that is only a line feed it overwrites the byte in front of it.
HasEmptyLine(s) == \E k \in DOMAIN s : k <= MaxLine /\ s[k] = 1
\* A line comes with quotes and a comma.
Quoted(m) == Cut(printed[m[1]][m[2]]) + 3
Size(m) == IF m = Start THEN StartLen ELSE IF m = End THEN EndLen ELSE Quoted(m)
Length(s) ==
  LET upTo[k \in 0 .. Len(s)] == IF k = 0 THEN 0 ELSE upTo[k - 1] + Size(s[k])
  IN  upTo[Len(s)]

\* start is copied into the buffer with copyString_a, which finds room for it.
Init ==
  /\ pc = "query"
  /\ query = "radio"
  /\ printed = [q \in Queries |-> <<>>]
  /\ result = <<>>
  /\ i = 1
  /\ buf = <<Start>>
  /\ blocks = 1
  /\ outside = FALSE
  /\ ret = 0

-----------------------------------------------------------------------------

Collected(q, n) == [k \in 1 .. Min({n, MaxLine}) |-> <<q, k>>]

\* Mutant of SystemEx: the limit is tested too late.
SystemEx_OneTooMany ==
  /\ pc = "query"
  /\ \E n \in 0 .. MaxOutput : \E s \in [1 .. n -> Lengths] :
       /\ printed' = [printed EXCEPT ![query] = s]
       /\ result' = [k \in 1 .. Min({n, MaxLine + 1}) |-> <<query, k>>]
       /\ blocks' = blocks + Len(result')
       /\ outside' = HasEmptyLine(s)
  /\ i' = 1
  /\ pc' = "append"
  /\ UNCHANGED <<query, buf, ret>>

\* systemEx: the command prints what it likes, nothing if it fails.  With more
\* lines than the array can hold systemEx gives up; its result is not looked at.
SystemEx ==
  /\ pc = "query"
  /\ \E n \in 0 .. MaxOutput : \E s \in [1 .. n -> Lengths] :
       /\ printed' = [printed EXCEPT ![query] = s]
       /\ result' = Collected(query, n)
       /\ blocks' = blocks + Len(result')
       /\ outside' = HasEmptyLine(s)
  /\ i' = 1
  /\ pc' = "append"
  /\ UNCHANGED <<query, buf, ret>>

\* strcat_safe compares the buffer with the piece, not with the room left in it.
Fits(m) == Size(m) <= BufLen

\* Mutant of AppendLine: the loop does not get on.
AppendLine_Again ==
  /\ pc = "append"
  /\ i <= Len(result)
  /\ IF Fits(result[i])
     THEN /\ buf' = Append(buf, result[i])
          /\ outside' = (Length(buf') >= BufLen \/ Size(result[i]) >= TmpLen)
          /\ UNCHANGED pc
     ELSE pc' = "fail" /\ UNCHANGED <<buf, outside>>
  /\ UNCHANGED <<query, printed, result, i, blocks, ret>>

\* A line is quoted in tmp, by sprintf, and appended.
AppendLine ==
  /\ pc = "append"
  /\ i <= Len(result)
  /\ IF Fits(result[i])
     THEN /\ buf' = Append(buf, result[i])
          /\ outside' = (Length(buf') >= BufLen \/ Size(result[i]) >= TmpLen)
          /\ UNCHANGED pc
     ELSE /\ pc' = "fail"
          /\ outside' = (Size(result[i]) >= TmpLen)
          /\ UNCHANGED buf
  /\ i' = i + 1
  /\ UNCHANGED <<query, printed, result, blocks, ret>>

\* Mutant of FreeStrings: the strings are freed, the array is not.
FreeStrings_KeepsArray == blocks - Len(result)

\* The blocks freeStrings leaves: the strings and their array are freed.
FreeStrings == blocks - (Len(result) + 1)

\* getBaseUci finds the section of the interface, which is queried next, or not:
\* the device's name has no digit at its end, or the answer no two dots.
GetBaseUci == pc' \in {"query", "append"}

\* The radio's lines are in the buffer; the interface's get a new array.
Interface ==
  /\ pc = "append"
  /\ query = "radio"
  /\ i > Len(result)
  /\ blocks' = FreeStrings + 1
  /\ result' = <<>>
  /\ query' = "iface"
  /\ GetBaseUci
  /\ i' = 1
  /\ UNCHANGED <<printed, buf, outside, ret>>

Finish ==
  /\ pc = "append"
  /\ query = "iface"
  /\ i > Len(result)
  /\ IF Fits(End)
     THEN /\ buf' = Append(buf, End)
          /\ outside' = (Length(buf') >= BufLen)
          /\ pc' = "done"
          /\ blocks' = FreeStrings
          /\ result' = <<>>
     ELSE pc' = "fail" /\ UNCHANGED <<buf, outside, blocks, result>>
  /\ UNCHANGED <<query, printed, i, ret>>

\* Mutant of Fail: the buffer is not cleared.
Fail_KeepsBuffer ==
  /\ pc = "fail"
  /\ blocks' = FreeStrings
  /\ result' = <<>>
  /\ ret' = -1
  /\ pc' = "done"
  /\ UNCHANGED <<query, printed, i, buf, outside>>

\* fail: everything is freed and the buffer cleared.
Fail ==
  /\ pc = "fail"
  /\ blocks' = FreeStrings
  /\ result' = <<>>
  /\ buf' = <<>>
  /\ ret' = -1
  /\ pc' = "done"
  /\ UNCHANGED <<query, printed, i, outside>>

\* What the program does after it has written outside of a buffer is anything,
\* and not modelled.
Next ==
  /\ ~outside
  /\ (SystemEx \/ AppendLine \/ Interface \/ Finish \/ Fail)

Spec == Init /\ [][Next]_vars

-----------------------------------------------------------------------------
(* Properties. *)

\* TYPES.  The array never holds more than it has room for.
TypeOK ==
  /\ pc \in {"query", "append", "fail", "done"}
  /\ query \in Queries
  /\ printed \in [Queries -> Seq(Lengths)]
  /\ result \in Seq(Items) /\ Len(result) <= MaxLine
  /\ i \in 1 .. MaxLine + 1
  /\ buf \in Seq(Items)
  /\ blocks \in Nat
  /\ outside \in BOOLEAN
  /\ ret \in {0, -1}

\* The answer to what has been printed
Answer == LET lines(q) == Collected(q, Len(printed[q])) IN
          <<Start>> \o lines("radio") \o lines("iface") \o <<End>>

\* SAFETY.  getWirelessUcis returns 0 with every line in place, those behind the
\* limit of the array apart, or -1 with an empty buffer.
AnswerIsWhole ==
  pc = "done" => buf = IF ret = 0 THEN Answer ELSE <<>>

\* SAFETY.  On every path what has been allocated is freed, once.
NothingLeaks == pc = "done" => blocks = 0

\* SAFETY.  Nothing is written outside of a buffer unless the answer as a whole
\* is too long for buf, or a line for tmp, or a line is empty.
OutsideOnlyIfUnfit ==
  outside => \/ Length(Answer) >= BufLen
             \/ \E q \in Queries : \E n \in ToSet(printed[q]) : Cut(n) + 3 >= TmpLen
             \/ \E q \in Queries : HasEmptyLine(printed[q])
=============================================================================
