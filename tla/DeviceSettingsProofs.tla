------------------------ MODULE DeviceSettingsProofs ------------------------
(***************************************************************************)
(* Proofs about DeviceSettings for every number of calls and settings.     *)
(*                                                                         *)
(* All that has ever been in the queue is Log, of which handled is a       *)
(* beginning.  What uci shows of an option is no earlier than any setting  *)
(* of it whose command has worked, Total.  A commit copies that package by *)
(* package, so that what is committed, and after a reload active, is       *)
(* Complete: a setting in it has those in front of it beside it, within    *)
(* its package at least.  As a setting stands in Log behind those that     *)
(* were in the queue when it was sent, OrderInv, these are among them.     *)
(***************************************************************************)
EXTENDS DeviceSettings, TLAPS, SequenceTheorems

\* All that has been in the queue, in order.
Log == handled \o pending

\* What uci shows: a change that is staged hides what is committed.
Current == [o \in Options |-> IF staged[o] # Nobody THEN staged[o] ELSE committed[o]]

Shapes ==
  /\ TypeOK
  /\ handled \in Seq(Settings) /\ pending \in Seq(Settings)
  /\ left \in [Settings -> Seq(Settings)]
  /\ void \in BOOLEAN

\* Settings are sent in turn; conn of the others is "none".
UnsentInv == \A m \in Settings : m[2] > sent[m[1]] => conn[m] = "none"

\* Of every option f holds a setting that has been handled, if any.
Known(f) == \A o \in Options : f[o] = Nobody \/ IsHandled(f[o])

\* v is the k-th setting handled or a later one.
Since(k, v) == \E j \in k .. Len(handled) : handled[j] = v

\* What uci shows of an option is no earlier than any setting of it that was not
\* lost; the power likewise.
Total ==
  \A k \in 1 .. Len(handled) :
    /\ handled[k] \in Uci \ lost => Since(k, Current[Option(handled[k])])
    /\ handled[k] \in TxPower \ lost => Since(k, power)

\* Where f holds a setting, it holds nothing earlier than the settings in front of
\* that one: those of its package, and of packages no commit has failed for.
Complete(f) ==
  \A k, l \in 1 .. Len(handled) :
    /\ k < l
    /\ handled[l] \in Uci /\ f[Option(handled[l])] = handled[l]
    /\ handled[k] \in Uci \ lost
    /\ PackageOf(handled[k]) = PackageOf(handled[l]) \/ PackageOf(handled[k]) \notin missed
    => Since(k, f[Option(handled[k])])

ConfigInv ==
  /\ Known(Current) /\ Known(committed) /\ Known(active)
  /\ Total
  /\ Complete(committed) /\ Complete(active)

\* A setting comes into the queue once, by its own thread.
OnceInv ==
  /\ \A k, l \in 1 .. Len(Log) : Log[k] = Log[l] => k = l
  /\ \A m \in Settings : conn[m] = "queued" <=> \E k \in 1 .. Len(Log) : Log[k] = m
  /\ \A m \in Settings : conn[m] # "queued" => left[m] = <<m>>

\* What was in the queue when a setting was sent is in front of it.
OrderInv ==
  \A p \in before :
    /\ conn[p[1]] = "queued"
    /\ \A k \in 1 .. Len(Log) : Log[k] = p[2] => \E j \in 1 .. k - 1 : Log[j] = p[1]

QueueInv == OnceInv /\ OrderInv

IInv == Shapes /\ UnsentInv /\ ConfigInv /\ QueueInv

-----------------------------------------------------------------------------
(* Settings and sequences. *)

LEMMA SettingShape ==
  ASSUME NEW m \in Settings
  PROVE  /\ m[1] \in Calls /\ m[2] \in 1 .. Len(Target[m[1]])
         /\ m = <<m[1], m[2]>>
BY DEF Settings

LEMMA UciShape ==
  /\ Uci \subseteq Settings /\ TxPower \subseteq Settings /\ Uci \cap TxPower = {}
  /\ \A m \in Uci : Option(m) \in Options
BY DEF Uci, TxPower, Options

LEMMA SettingOf ==
  ASSUME NEW c \in Calls, NEW k \in Nat, k > 0, k <= Len(Target[c])
  PROVE  <<c, k>> \in Settings
<1>1. Len(Target[c]) \in Nat
  BY SettingsAssumption
<1>2. k \in 1 .. Len(Target[c])
  BY <1>1
<1> QED
  BY <1>2 DEF Settings

LEMMA NobodyElse == Nobody \notin Settings
BY SettingsAssumption

LEMMA LogShape ==
  ASSUME Shapes
  PROVE  /\ Log \in Seq(Settings)
         /\ Len(Log) \in Nat /\ Len(handled) \in Nat /\ Len(handled) <= Len(Log)
         /\ \A k \in 1 .. Len(handled) : handled[k] \in Settings /\ Log[k] = handled[k]
         /\ \A k \in 1 .. Len(Log) : Log[k] \in Settings
<1>1. handled \in Seq(Settings) /\ pending \in Seq(Settings)
  BY DEF Shapes
<1>2. Len(handled) \in Nat /\ Len(pending) \in Nat
  BY <1>1, LenProperties
<1>3. /\ Log \in Seq(Settings) /\ Len(Log) = Len(handled) + Len(pending)
      /\ \A k \in 1 .. Len(handled) + Len(pending) :
           Log[k] = IF k <= Len(handled) THEN handled[k] ELSE pending[k - Len(handled)]
  BY <1>1, ConcatProperties DEF Log
<1>4. \A k \in 1 .. Len(handled) : Log[k] = handled[k]
  BY <1>2, <1>3
<1>5. \A k \in 1 .. Len(handled) : handled[k] \in Settings
  BY <1>1, ElementOfSeq
<1>6. \A k \in 1 .. Len(Log) : Log[k] \in Settings
  BY <1>3, ElementOfSeq
<1> QED
  BY <1>2, <1>3, <1>4, <1>5, <1>6

\* An accepted setting comes to the end of the log.
LEMMA AcceptLog ==
  ASSUME Shapes, NEW m \in Settings, pending' = Append(pending, m), handled' = handled
  PROVE  Log' = Append(Log, m) /\ pending' \in Seq(Settings)
<1>1. handled \in Seq(Settings) /\ pending \in Seq(Settings)
  BY DEF Shapes
<1>2. /\ Append(pending, m) = pending \o <<m>> /\ <<m>> \in Seq(Settings)
      /\ pending' \in Seq(Settings)
  BY <1>1, AppendIsConcat, AppendProperties
<1>3. Log \in Seq(Settings) /\ Append(Log, m) = Log \o <<m>>
  BY LogShape, AppendIsConcat
<1>4. (handled \o pending) \o <<m>> = handled \o (pending \o <<m>>)
  <2> DEFINE last == <<m>>
  <2>1. last \in Seq(Settings)
    BY <1>2
  <2> HIDE DEF last
  <2>2. (handled \o pending) \o last = handled \o (pending \o last)
    BY <1>1, <2>1, ConcatAssociative
  <2> QED
    BY <2>2 DEF last
<1> QED
  BY <1>2, <1>3, <1>4 DEF Log

\* A setting that is handled stays where it is in the log.
LEMMA HandleLog ==
  ASSUME Shapes, pending # <<>>, pending' = Tail(pending),
         handled' = Append(handled, Head(pending))
  PROVE  /\ Log' = Log
         /\ Head(pending) \in Settings
         /\ pending' \in Seq(Settings) /\ handled' \in Seq(Settings)
         /\ Len(handled') = Len(handled) + 1
         /\ handled'[Len(handled')] = Head(pending)
         /\ \A k \in 1 .. Len(handled) : handled'[k] = handled[k]
<1> DEFINE h == Head(pending)
           p == Tail(pending)
<1>1. handled \in Seq(Settings) /\ pending \in Seq(Settings) /\ Len(handled) \in Nat
  BY LogShape DEF Shapes
<1>2. h \in Settings /\ p \in Seq(Settings) /\ pending = <<h>> \o p
  BY <1>1, HeadTailProperties
<1> HIDE DEF h, p
<1>3. /\ handled' \in Seq(Settings) /\ Len(handled') = Len(handled) + 1
      /\ handled'[Len(handled')] = h
      /\ \A k \in 1 .. Len(handled) : handled'[k] = handled[k]
  BY <1>1, <1>2, AppendProperties DEF h
<1>4. <<h>> \in Seq(Settings) /\ handled' = handled \o <<h>>
  BY <1>1, <1>2, AppendIsConcat DEF h
<1>5. handled' \o p = handled \o pending
  <2> DEFINE first == <<h>>
  <2>1. first \in Seq(Settings) /\ handled' = handled \o first /\ pending = first \o p
    BY <1>2, <1>4
  <2> HIDE DEF first
  <2>2. (handled \o first) \o p = handled \o (first \o p)
    BY <1>1, <1>2, <2>1, ConcatAssociative
  <2> QED
    BY <2>1, <2>2
<1> QED
  BY <1>2, <1>3, <1>5 DEF Log, h, p

-----------------------------------------------------------------------------
(* What steps leave alone. *)

\* Nothing happens to the configuration, the power and what is handled.
LEMMA ConfigStays ==
  ASSUME Shapes, ConfigInv, handled' = handled, lost \subseteq lost',
         UNCHANGED <<staged, committed, active, power, missed>>
  PROVE  ConfigInv'
<1>1. Current' = Current
  BY DEF Current
<1> HIDE DEF Current
<1>2. Known(Current)' /\ Known(committed)' /\ Known(active)'
  BY <1>1 DEF ConfigInv, Known, IsHandled
<1>3. Total'
  BY <1>1 DEF ConfigInv, Total, Since
<1>4. Complete(committed)' /\ Complete(active)'
  BY DEF ConfigInv, Complete, Since
<1> QED
  BY <1>2, <1>3, <1>4 DEF ConfigInv

\* Nothing happens in the queue.
LEMMA QueueStays ==
  ASSUME Shapes, QueueInv, UNCHANGED <<left, pending, handled, before>>,
         \A m \in Settings : conn'[m] = "queued" <=> conn[m] = "queued"
  PROVE  QueueInv'
<1>1. Log' = Log
  BY DEF Log
<1>2. before \subseteq Settings \X Settings
  BY DEF Shapes, TypeOK
<1>3. OnceInv'
  BY <1>1 DEF QueueInv, OnceInv
<1>4. OrderInv'
  BY <1>1, <1>2 DEF QueueInv, OrderInv
<1> QED
  BY <1>3, <1>4 DEF QueueInv

-----------------------------------------------------------------------------
(* The steps of the caller. *)

LEMMA SetSsidRefusedStep ==
  ASSUME IInv, NEW c \in Calls, SetSsidRefused(c)
  PROVE  IInv'
<1> USE DEF IInv
<1>1. /\ c \in Ssid /\ sent[c] = 0 /\ sent' = [sent EXCEPT ![c] = 1]
      /\ lost' = lost \cup {<<c, 1>>}
      /\ UNCHANGED <<conn, queueVars, pollVars, configVars, before>>
  BY DEF SetSsidRefused
<1>2. <<c, 1>> \in Settings
  BY <1>1, SettingsAssumption, SettingOf
<1>3. TypeOK'
  BY <1>1, <1>2 DEF Shapes, TypeOK, pollVars, configVars
<1>4. Shapes'
  BY <1>1, <1>3 DEF Shapes, queueVars
<1>5. UnsentInv'
  <2> SUFFICES ASSUME NEW m \in Settings, m[2] > sent'[m[1]] PROVE conn[m] = "none"
    BY <1>1 DEF UnsentInv
  <2>1. m[1] \in Calls /\ m[2] \in Nat
    BY SettingShape, SettingsAssumption
  <2>2. m[2] > sent[m[1]]
    BY <1>1, <2>1 DEF Shapes, TypeOK
  <2> QED
    BY <2>2 DEF UnsentInv
<1>6. ConfigInv'
  BY <1>1, ConfigStays DEF queueVars, configVars
<1>7. QueueInv'
  BY <1>1, QueueStays DEF queueVars
<1> QED
  BY <1>4, <1>5, <1>6, <1>7

LEMMA SendStep ==
  ASSUME IInv, NEW c \in Calls, Send(c)
  PROVE  IInv'
<1> USE DEF IInv
<1> DEFINE m == <<c, sent[c] + 1>>
           queued == {s \in Settings : conn[s] = "queued"}
<1>1. /\ sent[c] < Len(Target[c])
      /\ sent' = [sent EXCEPT ![c] = @ + 1]
      /\ \/ conn' = [conn EXCEPT ![m] = "sent"] /\ UNCHANGED lost
         \/ lost' = lost \cup {m} /\ UNCHANGED conn
      /\ before' = before \cup {<<n, m>> : n \in queued}
      /\ UNCHANGED <<queueVars, pollVars, configVars>>
  BY DEF Send
<1>2. sent[c] \in Nat /\ Len(Target[c]) \in Nat
  BY SettingsAssumption DEF Shapes, TypeOK
<1>3. m \in Settings /\ m[1] = c /\ m[2] = sent[c] + 1
  BY <1>1, <1>2, SettingOf
<1>4. conn[m] = "none"
  BY <1>2, <1>3 DEF UnsentInv
<1> HIDE DEF m, queued
<1>5. conn' \in [Settings -> {"none", "sent", "push", "queued"}]
  BY <1>1, <1>3 DEF Shapes, TypeOK
<1>6. \A n \in Settings \ {m} : conn'[n] = conn[n]
  BY <1>1, <1>3 DEF Shapes, TypeOK
<1>7. conn'[m] # "queued"
  BY <1>1, <1>3, <1>4 DEF Shapes, TypeOK
<1>8. sent' \in [Calls -> Nat] /\ sent'[c] = sent[c] + 1
      /\ \A d \in Calls \ {c} : sent'[d] = sent[d]
  BY <1>1, <1>2 DEF Shapes, TypeOK
<1>9. lost \subseteq lost' /\ lost' \subseteq Settings
  BY <1>1, <1>3 DEF Shapes, TypeOK
<1>10. before' \subseteq Settings \X Settings
  BY <1>1, <1>3 DEF Shapes, TypeOK, queued
<1>11. Shapes'
  <2>1. TypeOK'
    BY <1>1, <1>5, <1>8, <1>9, <1>10 DEF Shapes, TypeOK, pollVars, configVars
  <2> QED
    BY <1>1, <2>1 DEF Shapes, queueVars
<1>12. UnsentInv'
  <2> SUFFICES ASSUME NEW n \in Settings, n[2] > sent'[n[1]] PROVE conn'[n] = "none"
    BY DEF UnsentInv
  <2>1. n[1] \in Calls /\ n[2] \in Nat
    BY SettingShape, SettingsAssumption
  <2>2. sent[n[1]] \in Nat
    BY <2>1 DEF Shapes, TypeOK
  <2>3. n[2] > sent[n[1]] /\ n # m
    BY <1>2, <1>3, <1>8, <2>1, <2>2
  <2> QED
    BY <1>6, <2>3 DEF UnsentInv
<1>13. ConfigInv'
  BY <1>1, <1>9, ConfigStays DEF queueVars, configVars
<1>14. QueueInv'
  <2>1. Log' = Log /\ left' = left
    BY <1>1 DEF queueVars, Log
  <2>2. OnceInv /\ OrderInv
    BY DEF QueueInv
  <2>3. \A n \in Settings : conn'[n] = "queued" <=> conn[n] = "queued"
    BY <1>4, <1>6, <1>7
  <2>4. OnceInv'
    BY <2>1, <2>2, <2>3 DEF OnceInv
  <2>5. ASSUME NEW p \in before'
        PROVE  /\ conn'[p[1]] = "queued"
               /\ \A k \in 1 .. Len(Log) : Log[k] = p[2] =>
                     \E j \in 1 .. k - 1 : Log[j] = p[1]
    <3>1. CASE p \in before
      <4>1. p[1] \in Settings
        BY <3>1 DEF Shapes, TypeOK
      <4> QED
        BY <2>2, <2>3, <3>1, <4>1 DEF OrderInv
    <3>2. CASE p \in {<<n, m>> : n \in queued}
      <4>1. p[1] \in Settings /\ conn[p[1]] = "queued" /\ p[2] = m
        BY <3>2 DEF queued
      <4>2. \A k \in 1 .. Len(Log) : Log[k] # m
        BY <1>3, <1>4, <2>2 DEF OnceInv
      <4> QED
        BY <2>3, <4>1, <4>2
    <3> QED
      BY <1>1, <3>1, <3>2
  <2>6. OrderInv'
    BY <2>1, <2>5 DEF OrderInv
  <2> QED
    BY <2>4, <2>6 DEF QueueInv
<1> QED
  BY <1>11, <1>12, <1>13, <1>14

-----------------------------------------------------------------------------
(* The steps of the threads. *)

LEMMA ReadStep ==
  ASSUME IInv, NEW m \in Settings, Read(m)
  PROVE  IInv'
<1> USE DEF IInv
<1>1. /\ conn[m] = "sent" /\ conn' = [conn EXCEPT ![m] = "push"]
      /\ UNCHANGED <<sent, left, pending, handled, void>>
      /\ UNCHANGED <<pollVars, configVars, lost, before>>
  BY DEF Read, Queue!Begin
<1>2. conn'[m] = "push" /\ \A n \in Settings \ {m} : conn'[n] = conn[n]
  BY <1>1 DEF Shapes, TypeOK
<1>3. Shapes'
  BY <1>1 DEF Shapes, TypeOK, pollVars, configVars
<1>4. UnsentInv'
  BY <1>1, <1>2 DEF UnsentInv
<1>5. ConfigInv'
  BY <1>1, ConfigStays DEF configVars
<1>6. QueueInv'
  BY <1>1, <1>2, QueueStays
<1> QED
  BY <1>3, <1>4, <1>5, <1>6

LEMMA PushStep ==
  ASSUME IInv, NEW m \in Settings, Push(m)
  PROVE  IInv'
<1> USE DEF IInv
<1>1. /\ conn[m] = "push" /\ conn' = [conn EXCEPT ![m] = "queued"]
      /\ UNCHANGED <<sent, pollVars, configVars, lost, before>>
  BY DEF Push
<1>2. conn'[m] = "queued" /\ \A n \in Settings \ {m} : conn'[n] = conn[n]
  BY <1>1 DEF Shapes, TypeOK
<1>3. TypeOK'
  BY <1>1 DEF Shapes, TypeOK, pollVars, configVars
<1>4. UnsentInv'
  BY <1>1, <1>2 DEF UnsentInv
<1>5. OnceInv /\ OrderInv
  BY DEF QueueInv
<1>6. Head(left[m]) = m /\ Tail(left[m]) = <<>>
  <2>1. left[m] = <<m>>
    BY <1>1, <1>5 DEF OnceInv
  <2> QED
    BY <2>1
<1>7. /\ left' = [left EXCEPT ![m] = <<>>] /\ pending' = Append(pending, m)
      /\ handled' = handled /\ void' = void
  BY <1>6 DEF Push, Queue!Accept
<1>8. Log' = Append(Log, m) /\ pending' \in Seq(Settings)
  BY <1>7, AcceptLog
<1>9. Shapes'
  <2>1. left' \in [Settings -> Seq(Settings)]
    BY <1>7, EmptySeq DEF Shapes
  <2> QED
    BY <1>3, <1>7, <1>8, <2>1 DEF Shapes
<1>10. ConfigInv'
  BY <1>1, <1>7, ConfigStays DEF configVars
<1> DEFINE e == Len(Log) + 1
<1>11. /\ Len(Log) \in Nat /\ Len(Log') = e /\ Log'[e] = m
       /\ \A k \in 1 .. Len(Log) : Log'[k] = Log[k]
  BY <1>8, LogShape, AppendProperties
<1>12. \A k \in 1 .. Len(Log) : Log[k] # m /\ Log[k] \in Settings
  BY <1>1, <1>5, LogShape DEF OnceInv
<1>13. \A k \in 1 .. e : k \in 1 .. Len(Log) \/ k = e
  BY <1>11
<1>14. e \in 1 .. e /\ \A k \in 1 .. Len(Log) : k \in 1 .. e
  BY <1>11
<1>15. OnceInv'
  <2>1. \A k, l \in 1 .. Len(Log)' : Log'[k] = Log'[l] => k = l
    <3> SUFFICES ASSUME NEW k \in 1 .. e, NEW l \in 1 .. e, Log'[k] = Log'[l]
                 PROVE  k = l
      BY <1>11
    <3> HIDE DEF e
    <3> QED
      BY <1>5, <1>11, <1>12, <1>13 DEF OnceInv
  <2>2. ASSUME NEW n \in Settings
        PROVE  conn'[n] = "queued" <=> \E k \in 1 .. Len(Log)' : Log'[k] = n
    <3>1. CASE n = m
      BY <1>2, <1>11, <1>14, <3>1
    <3>2. CASE n # m
      <4>1. conn'[n] = "queued" <=> \E k \in 1 .. Len(Log) : Log[k] = n
        BY <1>2, <1>5, <3>2 DEF OnceInv
      <4> HIDE DEF e
      <4>2. (\E k \in 1 .. Len(Log) : Log[k] = n) <=> \E k \in 1 .. e : Log'[k] = n
        BY <1>11, <1>13, <1>14, <3>2
      <4> QED
        BY <1>11, <4>1, <4>2
    <3> QED
      BY <3>1, <3>2
  <2>3. \A n \in Settings : conn'[n] # "queued" => left'[n] = <<n>>
    BY <1>2, <1>5, <1>7 DEF OnceInv, Shapes
  <2> QED
    BY <2>1, <2>2, <2>3 DEF OnceInv
<1>16. OrderInv'
  <2> SUFFICES ASSUME NEW p \in before
               PROVE  /\ conn'[p[1]] = "queued"
                      /\ \A k \in 1 .. e : Log'[k] = p[2] =>
                           \E j \in 1 .. k - 1 : Log'[j] = p[1]
    BY <1>1, <1>11 DEF OrderInv
  <2>1. p[1] \in Settings /\ conn[p[1]] = "queued" /\ p[1] # m
    BY <1>1, <1>5 DEF OrderInv, Shapes, TypeOK
  <2>2. PICK i \in 1 .. Len(Log) : Log[i] = p[1]
    BY <1>5, <2>1 DEF OnceInv
  <2>3. ASSUME NEW k \in 1 .. e, Log'[k] = p[2]
        PROVE  \E j \in 1 .. k - 1 : Log'[j] = p[1]
    <3>1. CASE k \in 1 .. Len(Log)
      <4>1. Log[k] = p[2]
        BY <1>11, <2>3, <3>1
      <4>2. PICK j \in 1 .. k - 1 : Log[j] = p[1]
        BY <1>5, <3>1, <4>1 DEF OrderInv
      <4>3. j \in 1 .. Len(Log)
        BY <1>11, <3>1
      <4> QED
        BY <1>11, <4>2, <4>3
    <3>2. CASE k = e
      <4>1. i \in 1 .. k - 1
        BY <1>11, <3>2
      <4> QED
        BY <1>11, <2>2, <4>1
    <3> QED
      BY <1>13, <3>1, <3>2
  <2> QED
    BY <1>2, <2>1, <2>3
<1> QED
  BY <1>4, <1>9, <1>10, <1>15, <1>16 DEF QueueInv

LEMMA CollideStep ==
  ASSUME IInv, Collide
  PROVE  IInv'
<1> USE DEF IInv
<1>1. /\ void' = TRUE
      /\ UNCHANGED <<left, pending, handled, sendVars, pollVars, configVars, lost, before>>
  BY DEF Collide, Queue!Void
<1>2. Shapes' /\ UnsentInv'
  BY <1>1 DEF Shapes, TypeOK, UnsentInv, sendVars, pollVars, configVars
<1>3. ConfigInv'
  BY <1>1, ConfigStays DEF configVars
<1>4. QueueInv'
  BY <1>1, QueueStays DEF sendVars
<1> QED
  BY <1>2, <1>3, <1>4

-----------------------------------------------------------------------------
(* The steps of the command thread. *)

LEMMA CheckStep ==
  ASSUME IInv, Check
  PROVE  IInv'
<1> USE DEF IInv
<1>1. /\ ppc' \in {"run", "commit"}
      /\ UNCHANGED <<sendVars, queueVars, isDequeued, terminated, configVars, lost, before>>
  BY DEF Check
<1>2. Shapes' /\ UnsentInv'
  BY <1>1 DEF Shapes, TypeOK, UnsentInv, sendVars, queueVars, configVars
<1>3. ConfigInv'
  BY <1>1, ConfigStays DEF queueVars, configVars
<1>4. QueueInv'
  BY <1>1, QueueStays DEF queueVars, sendVars
<1> QED
  BY <1>2, <1>3, <1>4

\* What the setting taken out does to what is shown, to the power and to lost.
LEMMA RunShows ==
  ASSUME IInv, Run, NEW h \in Settings, h = Head(pending)
  PROVE  /\ \A o \in Options : Current'[o] = Current[o] \/ Current'[o] = h
         /\ h \in Uci => Current'[Option(h)] = h \/ h \in lost'
         /\ power' = power \/ power' = h
         /\ h \in TxPower => power' = h \/ h \in lost'
         /\ lost \subseteq lost' /\ lost' \subseteq Settings
         /\ staged' \in [Options -> Overrides] /\ power' \in Overrides
         /\ terminated' \in BOOLEAN
<1>1. committed' = committed /\ (Works(h) \/ Fails(h) \/ Throws(h))
  BY DEF Run
<1>2. /\ staged \in [Options -> Overrides] /\ power \in Overrides
      /\ lost \subseteq Settings /\ terminated \in BOOLEAN
  BY DEF IInv, Shapes, TypeOK
<1>3. CASE Works(h) /\ h \in Uci
  <2>1. /\ staged' = [staged EXCEPT ![Option(h)] = h] /\ power' = power
        /\ lost' = lost /\ terminated' = terminated
    BY <1>3, UciShape DEF Works
  <2>2. Option(h) \in Options
    BY <1>3, UciShape
  <2>3. staged'[Option(h)] = h /\ \A o \in Options \ {Option(h)} : staged'[o] = staged[o]
    BY <1>2, <2>1, <2>2
  <2>4. h # Nobody
    BY NobodyElse
  <2>5. Current'[Option(h)] = h /\ \A o \in Options \ {Option(h)} : Current'[o] = Current[o]
    BY <1>1, <2>2, <2>3, <2>4 DEF Current
  <2>6. staged' \in [Options -> Overrides]
    BY <1>2, <2>1, <2>2 DEF Overrides
  <2>7. \A o \in Options : Current'[o] = Current[o] \/ Current'[o] = h
    BY <2>5
  <2> QED
    BY <1>2, <1>3, <2>1, <2>5, <2>6, <2>7, UciShape
<1>4. CASE Works(h) /\ h \notin Uci
  <2>1. staged' = staged /\ lost' = lost /\ terminated' = terminated
    BY <1>4 DEF Works
  <2>2. power' = IF h \in TxPower THEN h ELSE power
    BY <1>4 DEF Works
  <2>3. power' \in Overrides
    BY <1>2, <2>2 DEF Overrides
  <2>4. Current' = Current
    BY <1>1, <2>1 DEF Current
  <2> QED
    BY <1>2, <1>4, <2>1, <2>2, <2>3, <2>4
<1>5. CASE Fails(h) \/ Throws(h)
  <2>1. /\ staged' = staged /\ power' = power /\ lost' = lost \cup {h}
        /\ (terminated' = terminated \/ terminated' = TRUE)
    BY <1>5 DEF Fails, Throws
  <2>2. Current' = Current
    BY <1>1, <2>1 DEF Current
  <2>3. terminated' \in BOOLEAN
    BY <1>2, <2>1
  <2> QED
    BY <1>2, <2>1, <2>2, <2>3
<1> QED
  BY <1>1, <1>3, <1>4, <1>5

\* What is committed, or active, stays complete when one more is handled.
LEMMA CompleteStays ==
  ASSUME Shapes, QueueInv, NEW f, Known(f), Complete(f),
         NEW h \in Settings, h = Head(pending), pending # <<>>,
         pending' = Tail(pending), handled' = Append(handled, h),
         lost \subseteq lost', missed' = missed
  PROVE  /\ \A o \in Options : f[o] = Nobody \/ \E k \in 1 .. Len(handled') : handled'[k] = f[o]
         /\ \A k, l \in 1 .. Len(handled') :
              /\ k < l
              /\ handled'[l] \in Uci /\ f[Option(handled'[l])] = handled'[l]
              /\ handled'[k] \in Uci \ lost'
              /\ \/ PackageOf(handled'[k]) = PackageOf(handled'[l])
                 \/ PackageOf(handled'[k]) \notin missed'
              => \E j \in k .. Len(handled') : handled'[j] = f[Option(handled'[k])]
<1> DEFINE N == Len(handled)
<1>1. /\ Log' = Log /\ handled' \in Seq(Settings) /\ Len(handled') = N + 1
      /\ handled'[N + 1] = h /\ \A k \in 1 .. N : handled'[k] = handled[k]
  BY HandleLog
<1>2. N \in Nat /\ Len(Log) \in Nat /\ \A k \in 1 .. N : handled[k] \in Settings /\ Log[k] = handled[k]
  BY LogShape
<1>3. /\ N + 1 <= Len(Log) /\ Log[N + 1] = h
      /\ \A k \in 1 .. N : k \in 1 .. Len(Log)
  <2>1. pending' \in Seq(Settings) /\ handled' \in Seq(Settings)
    BY HandleLog
  <2>2. /\ Len(handled' \o pending') = Len(handled') + Len(pending')
        /\ \A k \in 1 .. Len(handled') + Len(pending') :
             (handled' \o pending')[k] = IF k <= Len(handled') THEN handled'[k]
                                         ELSE pending'[k - Len(handled')]
    BY <2>1, ConcatProperties
  <2>3. Len(pending') \in Nat
    BY <2>1, LenProperties
  <2>4. Log = handled' \o pending'
    BY <1>1 DEF Log
  <2> HIDE DEF N
  <2> QED
    BY <1>1, <1>2, <2>2, <2>3, <2>4
<1> HIDE DEF N
<1>4. \A i \in 1 .. N : handled[i] # h
  <2> SUFFICES ASSUME NEW i \in 1 .. N, handled[i] = h PROVE FALSE
    OBVIOUS
  <2>1. i \in 1 .. Len(Log) /\ N + 1 \in 1 .. Len(Log) /\ Log[i] = Log[N + 1] /\ i # N + 1
    BY <1>2, <1>3
  <2> QED
    BY <2>1 DEF QueueInv, OnceInv
<1>5. ASSUME NEW o \in Options, f[o] # Nobody
      PROVE  \E k \in 1 .. Len(handled') : handled'[k] = f[o]
  <2>1. PICK k \in 1 .. N : handled[k] = f[o]
    BY <1>5 DEF Known, IsHandled, N
  <2>2. k \in 1 .. Len(handled')
    BY <1>1, <1>2
  <2> QED
    BY <1>1, <2>1, <2>2
<1>6. ASSUME NEW k \in 1 .. Len(handled'), NEW l \in 1 .. Len(handled'), k < l,
             handled'[l] \in Uci, f[Option(handled'[l])] = handled'[l],
             handled'[k] \in Uci \ lost',
             \/ PackageOf(handled'[k]) = PackageOf(handled'[l])
             \/ PackageOf(handled'[k]) \notin missed'
      PROVE  \E j \in k .. Len(handled') : handled'[j] = f[Option(handled'[k])]
  <2>1. handled'[l] # Nobody /\ Option(handled'[l]) \in Options
    BY <1>6, NobodyElse, UciShape
  <2>2. PICK i \in 1 .. N : handled[i] = handled'[l]
    BY <1>6, <2>1 DEF Known, IsHandled, N
  <2>3. l # N + 1
    BY <1>1, <1>4, <2>2
  <2>4. k \in 1 .. N /\ l \in 1 .. N
    BY <1>1, <1>2, <1>6, <2>3
  <2>5. handled'[k] = handled[k] /\ handled'[l] = handled[l]
    BY <1>1, <2>4
  <2>6. Since(k, f[Option(handled[k])])
    <3>1. handled[k] \in Uci \ lost
      BY <1>6, <2>5
    <3>2. \/ PackageOf(handled[k]) = PackageOf(handled[l])
          \/ PackageOf(handled[k]) \notin missed
      BY <1>6, <2>5
    <3> QED
      BY <1>6, <2>4, <2>5, <3>1, <3>2 DEF Complete, N
  <2>7. PICK j \in k .. N : handled[j] = f[Option(handled[k])]
    BY <2>6 DEF Since, N
  <2>8. j \in 1 .. N /\ j \in k .. Len(handled')
    BY <1>1, <1>2, <2>4
  <2> QED
    BY <1>1, <2>5, <2>7, <2>8
<1> QED
  BY <1>5, <1>6

LEMMA RunStep ==
  ASSUME IInv, Run
  PROVE  IInv'
<1> USE DEF IInv
<1> DEFINE h == Head(pending)
           N == Len(handled)
<1>1. /\ ppc' = "check" /\ isDequeued' = (isDequeued \/ h \in Uci \cup TxPower)
      /\ pending # <<>> /\ pending' = Tail(pending) /\ handled' = Append(handled, h)
      /\ UNCHANGED <<left, void, sendVars, committed, active, missed, reloadFailed, before>>
  BY DEF Run, Queue!Handle
<1>2. /\ Log' = Log /\ h \in Settings
      /\ pending' \in Seq(Settings) /\ handled' \in Seq(Settings)
      /\ Len(handled') = N + 1 /\ handled'[N + 1] = h
      /\ \A k \in 1 .. N : handled'[k] = handled[k]
  BY <1>1, HandleLog
<1>3. N \in Nat
  BY LogShape
<1>4. /\ \A o \in Options : Current'[o] = Current[o] \/ Current'[o] = h
      /\ h \in Uci => Current'[Option(h)] = h \/ h \in lost'
      /\ power' = power \/ power' = h
      /\ h \in TxPower => power' = h \/ h \in lost'
      /\ lost \subseteq lost' /\ lost' \subseteq Settings
      /\ staged' \in [Options -> Overrides] /\ power' \in Overrides
      /\ terminated' \in BOOLEAN
  BY <1>2, RunShows
<1>5. Shapes'
  <2>1. isDequeued' \in BOOLEAN
    BY <1>1, Zenon
  <2>2. TypeOK'
    BY <1>1, <1>4, <2>1 DEF Shapes, TypeOK, sendVars
  <2> QED
    BY <1>1, <1>2, <2>2 DEF Shapes
<1>6. UnsentInv'
  BY <1>1 DEF UnsentInv, sendVars
<1>7. QueueInv'
  BY <1>1, <1>2 DEF QueueInv, OnceInv, OrderInv, sendVars
<1>8. Known(committed)' /\ Complete(committed)'
  <2>1. /\ \A o \in Options : \/ committed[o] = Nobody
                              \/ \E k \in 1 .. Len(handled') : handled'[k] = committed[o]
        /\ \A k, l \in 1 .. Len(handled') :
              /\ k < l
              /\ handled'[l] \in Uci /\ committed[Option(handled'[l])] = handled'[l]
              /\ handled'[k] \in Uci \ lost'
              /\ \/ PackageOf(handled'[k]) = PackageOf(handled'[l])
                 \/ PackageOf(handled'[k]) \notin missed'
              => \E j \in k .. Len(handled') : handled'[j] = committed[Option(handled'[k])]
    <3>1. Known(committed) /\ Complete(committed)
      BY DEF ConfigInv
    <3>2. h = Head(pending) /\ h \in Settings
      BY <1>2
    <3>3. /\ pending # <<>> /\ pending' = Tail(pending) /\ handled' = Append(handled, h)
          /\ lost \subseteq lost' /\ missed' = missed
      BY <1>1, <1>4
    <3> HIDE DEF h
    <3> QED
      BY <3>1, <3>2, <3>3, CompleteStays
  <2> QED
    BY <1>1, <2>1 DEF Known, IsHandled, Complete, Since
<1>9. Known(active)' /\ Complete(active)'
  <2>1. /\ \A o \in Options : \/ active[o] = Nobody
                              \/ \E k \in 1 .. Len(handled') : handled'[k] = active[o]
        /\ \A k, l \in 1 .. Len(handled') :
              /\ k < l
              /\ handled'[l] \in Uci /\ active[Option(handled'[l])] = handled'[l]
              /\ handled'[k] \in Uci \ lost'
              /\ \/ PackageOf(handled'[k]) = PackageOf(handled'[l])
                 \/ PackageOf(handled'[k]) \notin missed'
              => \E j \in k .. Len(handled') : handled'[j] = active[Option(handled'[k])]
    <3>1. Known(active) /\ Complete(active)
      BY DEF ConfigInv
    <3>2. h = Head(pending) /\ h \in Settings
      BY <1>2
    <3>3. /\ pending # <<>> /\ pending' = Tail(pending) /\ handled' = Append(handled, h)
          /\ lost \subseteq lost' /\ missed' = missed
      BY <1>1, <1>4
    <3> HIDE DEF h
    <3> QED
      BY <3>1, <3>2, <3>3, CompleteStays
  <2> QED
    BY <1>1, <2>1 DEF Known, IsHandled, Complete, Since
<1> HIDE DEF h, N, Current
<1>10. Known(Current)'
  <2> SUFFICES ASSUME NEW o \in Options, Current'[o] # Nobody
               PROVE  \E k \in 1 .. Len(handled') : handled'[k] = Current'[o]
    BY DEF Known, IsHandled
  <2>1. CASE Current'[o] = h
    <3>1. N + 1 \in 1 .. Len(handled')
      BY <1>2, <1>3
    <3> QED
      BY <1>2, <2>1, <3>1
  <2>2. CASE Current'[o] = Current[o]
    <3>1. PICK k \in 1 .. N : handled[k] = Current[o]
      BY <2>2 DEF ConfigInv, Known, IsHandled, N
    <3>2. k \in 1 .. Len(handled')
      BY <1>2, <1>3
    <3> QED
      BY <1>2, <2>2, <3>1, <3>2
  <2> QED
    BY <1>4, <2>1, <2>2
<1>11. ASSUME NEW k \in 1 .. N + 1
       PROVE  /\ N + 1 \in k .. N + 1
              /\ k \in 1 .. N \/ (k = N + 1 /\ handled'[k] = h)
  BY <1>2, <1>3
<1>12. ASSUME NEW k \in 1 .. N, NEW v, Since(k, v)
       PROVE  \E j \in k .. N + 1 : handled'[j] = v
  <2>1. PICK j \in k .. N : handled[j] = v
    BY <1>12 DEF Since, N
  <2>2. j \in 1 .. N /\ j \in k .. N + 1
    BY <1>3
  <2> QED
    BY <1>2, <2>1, <2>2
<1>13. Total'
  <2>1. ASSUME NEW k \in 1 .. N + 1, handled'[k] \in Uci \ lost'
        PROVE  \E j \in k .. N + 1 : handled'[j] = Current'[Option(handled'[k])]
    <3>1. Option(handled'[k]) \in Options
      BY <2>1, UciShape
    <3>2. CASE Current'[Option(handled'[k])] = h
      BY <1>2, <1>11, <3>2
    <3>3. CASE Current'[Option(handled'[k])] # h
      <4>1. Current'[Option(handled'[k])] = Current[Option(handled'[k])]
        BY <1>4, <3>1, <3>3
      <4>2. k \in 1 .. N
        BY <1>4, <1>11, <2>1, <3>3
      <4>3. handled'[k] = handled[k] /\ handled[k] \in Uci \ lost
        BY <1>2, <1>4, <2>1, <4>2
      <4>4. Since(k, Current[Option(handled[k])])
        BY <4>2, <4>3 DEF ConfigInv, Total, N
      <4> QED
        BY <1>12, <4>1, <4>2, <4>3, <4>4
    <3> QED
      BY <3>2, <3>3
  <2>2. ASSUME NEW k \in 1 .. N + 1, handled'[k] \in TxPower \ lost'
        PROVE  \E j \in k .. N + 1 : handled'[j] = power'
    <3>1. CASE power' = h
      BY <1>2, <1>11, <3>1
    <3>2. CASE power' # h
      <4>1. power' = power
        BY <1>4, <3>2
      <4>2. k \in 1 .. N
        BY <1>4, <1>11, <2>2, <3>2
      <4>3. handled'[k] = handled[k] /\ handled[k] \in TxPower \ lost
        BY <1>2, <1>4, <2>2, <4>2
      <4>4. Since(k, power)
        BY <4>2, <4>3 DEF ConfigInv, Total, N
      <4> QED
        BY <1>12, <4>1, <4>2, <4>4
    <3> QED
      BY <3>1, <3>2
  <2> QED
    BY <1>2, <2>1, <2>2 DEF Total, Since
<1>14. ConfigInv'
  BY <1>8, <1>9, <1>10, <1>13 DEF ConfigInv
<1> QED
  BY <1>5, <1>6, <1>7, <1>14

\* A package is committed as it is shown, or not at all.
LEMMA CommitStep ==
  ASSUME IInv, Commit
  PROVE  IInv'
<1> USE DEF IInv
<1>1. PICK failed \in SUBSET {Package[o] : o \in {p \in Options : staged[p] # Nobody}} :
        /\ committed' = [o \in Options |-> IF Package[o] \in failed \/ staged[o] = Nobody
                                           THEN committed[o] ELSE staged[o]]
        /\ staged' = [o \in Options |-> IF Package[o] \in failed THEN staged[o] ELSE Nobody]
        /\ missed' = missed \cup failed
  BY DEF Commit
<1>2. /\ ppc' = "reload"
      /\ UNCHANGED <<sendVars, queueVars, isDequeued, terminated, active, power,
                     reloadFailed, lost, before>>
  BY DEF Commit
<1>3. handled' = handled
  BY <1>2 DEF queueVars
<1>4. /\ \A o \in Options : Current'[o] = Current[o]
      /\ \A o \in Options : Package[o] \notin failed => committed'[o] = Current[o]
      /\ \A o \in Options : Package[o] \in failed => committed'[o] = committed[o]
  BY <1>1 DEF Current
<1>5. Shapes' /\ UnsentInv'
  <2>1. staged' \in [Options -> Overrides] /\ committed' \in [Options -> Overrides]
    BY <1>1 DEF Shapes, TypeOK, Overrides
  <2>2. missed' \subseteq {Package[o] : o \in Options}
    BY <1>1 DEF Shapes, TypeOK
  <2> QED
    BY <1>2, <2>1, <2>2 DEF Shapes, TypeOK, UnsentInv, sendVars, queueVars
<1>6. QueueInv'
  BY <1>2, QueueStays DEF sendVars, queueVars
<1> HIDE DEF Current
<1>7. Known(Current)' /\ Known(committed)' /\ Known(active)'
  BY <1>2, <1>3, <1>4 DEF ConfigInv, Known, IsHandled
<1>8. Total'
  <2> SUFFICES ASSUME NEW k \in 1 .. Len(handled)
               PROVE  /\ handled[k] \in Uci \ lost => Since(k, Current'[Option(handled[k])])
                      /\ handled[k] \in TxPower \ lost => Since(k, power)
    BY <1>2, <1>3 DEF Total, Since
  <2>1. handled[k] \in Uci => Current'[Option(handled[k])] = Current[Option(handled[k])]
    BY <1>4, UciShape
  <2> QED
    BY <2>1 DEF ConfigInv, Total
<1>9. Complete(active)'
  BY <1>1, <1>2, <1>3 DEF ConfigInv, Complete, Since
<1>10. Complete(committed)'
  <2> SUFFICES ASSUME NEW k \in 1 .. Len(handled), NEW l \in 1 .. Len(handled), k < l,
                      handled[l] \in Uci,
                      committed'[Option(handled[l])] = handled[l],
                      handled[k] \in Uci \ lost,
                      \/ PackageOf(handled[k]) = PackageOf(handled[l])
                      \/ PackageOf(handled[k]) \notin missed'
               PROVE  Since(k, committed'[Option(handled[k])])
    BY <1>2, <1>3 DEF Complete, Since
  <2> DEFINE a == Option(handled[k])
             b == Option(handled[l])
  <2>1. /\ a \in Options /\ b \in Options
        /\ PackageOf(handled[k]) = Package[a] /\ PackageOf(handled[l]) = Package[b]
    BY UciShape DEF PackageOf
  <2>2. CASE Package[a] \notin failed
    <3>1. Since(k, Current[a])
      BY DEF ConfigInv, Total
    <3> QED
      BY <1>4, <2>1, <2>2, <3>1
  <2>3. CASE Package[a] \in failed
    <3>1. Package[a] = Package[b]
      BY <1>1, <2>1, <2>3
    <3>2. committed'[a] = committed[a] /\ committed[b] = handled[l]
      BY <1>4, <2>1, <2>3, <3>1
    <3>3. Since(k, committed[a])
      BY <2>1, <3>1, <3>2 DEF ConfigInv, Complete
    <3> QED
      BY <3>2, <3>3
  <2> QED
    BY <2>2, <2>3
<1>11. ConfigInv'
  BY <1>7, <1>8, <1>9, <1>10 DEF ConfigInv
<1> QED
  BY <1>5, <1>6, <1>11

\* The network takes over what is committed, or stays as it is.
LEMMA ReloadStep ==
  ASSUME IInv, Reload
  PROVE  IInv'
<1> USE DEF IInv
<1>1. /\ ppc' = "check" /\ isDequeued' = FALSE
      /\ active' = committed \/ active' = active
      /\ reloadFailed' \in BOOLEAN
      /\ UNCHANGED <<sendVars, queueVars, terminated, staged, committed, power, missed,
                     lost, before>>
  BY DEF Reload
<1>2. Shapes' /\ UnsentInv'
  BY <1>1 DEF Shapes, TypeOK, UnsentInv, sendVars, queueVars
<1>3. QueueInv'
  BY <1>1, QueueStays DEF sendVars, queueVars
<1>4. handled' = handled /\ Current' = Current
  BY <1>1 DEF queueVars, Current
<1> HIDE DEF Current
<1>5. Known(Current)' /\ Known(committed)' /\ Known(active)'
  BY <1>1, <1>4 DEF ConfigInv, Known, IsHandled
<1>6. Total' /\ Complete(committed)'
  BY <1>1, <1>4 DEF ConfigInv, Total, Complete, Since
<1>7. Complete(active)'
  BY <1>1, <1>4 DEF ConfigInv, Complete, Since
<1> QED
  BY <1>2, <1>3, <1>5, <1>6, <1>7 DEF ConfigInv

-----------------------------------------------------------------------------
(* The invariant and the theorems. *)

LEMMA Initially == Init => IInv
<1> SUFFICES ASSUME Init PROVE IInv
  OBVIOUS
<1>1. /\ handled = <<>> /\ pending = <<>> /\ void = FALSE
      /\ left = [m \in Settings |-> <<m>>]
  BY DEF Init, Queue!Init
<1>2. Log = <<>> /\ Len(handled) = 0 /\ Len(Log) = 0
  BY <1>1, EmptySeq, ConcatEmptySeq DEF Log
<1>3. Shapes
  <2>1. TypeOK
    BY DEF Init, TypeOK, Overrides
  <2>2. left \in [Settings -> Seq(Settings)]
    BY <1>1
  <2> QED
    BY <1>1, <2>1, <2>2, EmptySeq DEF Shapes
<1>4. UnsentInv
  BY DEF Init, UnsentInv
<1>5. ConfigInv
  <2>1. Known(Current) /\ Known(committed) /\ Known(active)
    BY DEF Init, Known, Current
  <2>2. Total /\ Complete(committed) /\ Complete(active)
    BY <1>2 DEF Total, Complete
  <2> QED
    BY <2>1, <2>2 DEF ConfigInv
<1>6. QueueInv
  BY <1>1, <1>2 DEF Init, QueueInv, OnceInv, OrderInv
<1> QED
  BY <1>3, <1>4, <1>5, <1>6 DEF IInv

LEMMA Inductive == IInv /\ [Next]_vars => IInv'
<1> SUFFICES ASSUME IInv, [Next]_vars PROVE IInv'
  OBVIOUS
<1>1. CASE UNCHANGED vars
  <2>1. Shapes' /\ UnsentInv'
    BY <1>1 DEF IInv, Shapes, TypeOK, UnsentInv, vars, sendVars, queueVars, pollVars,
       configVars
  <2>2. ConfigInv'
    BY <1>1, ConfigStays DEF IInv, vars, queueVars, configVars
  <2>3. QueueInv'
    BY <1>1, QueueStays DEF IInv, vars, sendVars, queueVars
  <2> QED
    BY <2>1, <2>2, <2>3 DEF IInv
<1>2. ASSUME NEW c \in Calls, Caller(c) PROVE IInv'
  BY <1>2, SendStep, SetSsidRefusedStep DEF Caller
<1>3. ASSUME NEW m \in Settings, Thread(m) PROVE IInv'
  BY <1>3, ReadStep, PushStep DEF Thread
<1>4. CASE Collide
  BY <1>4, CollideStep
<1>5. CASE Poll
  BY <1>5, CheckStep, RunStep, CommitStep, ReloadStep DEF Poll
<1> QED
  BY <1>1, <1>2, <1>3, <1>4, <1>5 DEF Next

LEMMA Invariant == Spec => []IInv
BY Initially, Inductive, PTL DEF Spec

\* Settings are handled once, so that Position finds where.
LEMMA HandledOnce ==
  ASSUME IInv, NEW k \in 1 .. Len(handled)
  PROVE  IsHandled(handled[k]) /\ Position(handled[k]) = k
<1>1. Len(handled) \in Nat /\ Len(Log) \in Nat /\ Len(handled) <= Len(Log)
  BY LogShape DEF IInv
<1>2. \A l \in 1 .. Len(handled) : l \in 1 .. Len(Log) /\ Log[l] = handled[l]
  BY <1>1, LogShape DEF IInv
<1>3. \A l \in 1 .. Len(handled) : handled[l] = handled[k] => l = k
  BY <1>2 DEF IInv, QueueInv, OnceInv
<1> QED
  BY <1>3 DEF IsHandled, Position

\* The setting sent first was handled first.
LEMMA HandledInOrder ==
  ASSUME IInv, NEW m, NEW n, <<m, n>> \in before,
         NEW k \in 1 .. Len(handled), handled[k] = n
  PROVE  \E i \in 1 .. Len(handled) : i < k /\ handled[i] = m
<1> DEFINE p == <<m, n>>
<1>1. Len(handled) \in Nat /\ Len(Log) \in Nat /\ Len(handled) <= Len(Log)
  BY LogShape DEF IInv
<1>2. k \in 1 .. Len(Log) /\ Log[k] = n
  BY <1>1, LogShape DEF IInv
<1>3. p \in before /\ p[1] = m /\ p[2] = n
  OBVIOUS
<1> HIDE DEF p
<1>4. PICK i \in 1 .. k - 1 : Log[i] = p[1]
  BY <1>2, <1>3 DEF IInv, QueueInv, OrderInv
<1>5. i \in 1 .. Len(handled) /\ i < k
  BY <1>1
<1> QED
  BY <1>3, <1>4, <1>5, LogShape DEF IInv

\* What stands since the i-th setting handled is no earlier than that.
LEMMA SinceIsNoEarlier ==
  ASSUME IInv, NEW i \in 1 .. Len(handled), NEW v, Since(i, v)
  PROVE  NoEarlier(v, handled[i])
<1>1. PICK j \in i .. Len(handled) : handled[j] = v
  BY DEF Since
<1>2. Len(handled) \in Nat
  BY LogShape DEF IInv
<1>3. j \in 1 .. Len(handled) /\ j >= i
  BY <1>2
<1>4. /\ IsHandled(handled[i]) /\ Position(handled[i]) = i
      /\ IsHandled(handled[j]) /\ Position(handled[j]) = j
  BY <1>3, HandledOnce
<1> QED
  BY <1>1, <1>3, <1>4 DEF NoEarlier

LEMMA YoungerWinsFollows ==
  ASSUME IInv
  PROVE  YoungerWins
<1> SUFFICES ASSUME NEW m \in Settings, NEW n \in Settings,
                    <<m, n>> \in before, SameTarget(m, n), IsHandled(n), n \notin lost
             PROVE  m # Shown(n)
  BY DEF YoungerWins
<1>1. PICK k \in 1 .. Len(handled) : handled[k] = n
  BY DEF IsHandled
<1>2. PICK i \in 1 .. Len(handled) : i < k /\ handled[i] = m
  BY <1>1, HandledInOrder
<1>3. Since(k, Shown(n))
  <2>1. CASE n \in TxPower
    BY <1>1, <2>1 DEF IInv, ConfigInv, Total, Shown
  <2>2. CASE n \in Uci
    <3>1. Option(n) \in Options /\ n \notin TxPower
      BY <2>2, UciShape
    <3>2. Shown(n) = Current[Option(n)]
      BY <3>1 DEF Shown, Current
    <3> QED
      BY <1>1, <2>2, <3>2 DEF IInv, ConfigInv, Total
  <2> QED
    BY <2>1, <2>2 DEF SameTarget
<1>4. NoEarlier(Shown(n), n)
  BY <1>1, <1>3, SinceIsNoEarlier
<1>5. Position(n) = k /\ Position(m) = i
  BY <1>1, <1>2, HandledOnce
<1>6. i \in Nat /\ k \in Nat
  BY LogShape DEF IInv
<1> QED
  BY <1>2, <1>4, <1>5, <1>6 DEF NoEarlier

LEMMA InOrderFollows ==
  ASSUME IInv
  PROVE  InOrder
<1> SUFFICES ASSUME NEW m \in Uci \cup TxPower, NEW n \in Uci,
                    <<m, n>> \in before, active[Option(n)] = n, m \notin lost,
                    m \in Uci => \/ PackageOf(m) = PackageOf(n)
                                 \/ PackageOf(m) \notin missed
             PROVE  NoEarlier(InForce(m), m)
  BY DEF InOrder, Applied
<1>1. n # Nobody /\ Option(n) \in Options
  BY NobodyElse, UciShape
<1>2. PICK k \in 1 .. Len(handled) : handled[k] = n
  BY <1>1 DEF IInv, ConfigInv, Known, IsHandled
<1>3. PICK i \in 1 .. Len(handled) : i < k /\ handled[i] = m
  BY <1>2, HandledInOrder
<1>4. Since(i, InForce(m))
  <2>1. CASE m \in TxPower
    BY <1>3, <2>1 DEF IInv, ConfigInv, Total, InForce
  <2>2. CASE m \in Uci
    <3>1. InForce(m) = active[Option(m)]
      BY <2>2, UciShape DEF InForce
    <3>2. Since(i, active[Option(m)])
      BY <1>2, <1>3, <2>2 DEF IInv, ConfigInv, Complete
    <3> QED
      BY <3>1, <3>2
  <2> QED
    BY <2>1, <2>2
<1> QED
  BY <1>3, <1>4, SinceIsNoEarlier

\* The state has its types, for any number of calls and settings.
THEOREM TypeCorrect == Spec => []TypeOK
<1>1. IInv => TypeOK
  BY DEF IInv, Shapes
<1> QED
  BY <1>1, Invariant, PTL

\* What setWirelessUcis or setSSID sent when another setting of the option, or of
\* the power, was already in the queue overrides that one once the daemon has
\* run it.
THEOREM YoungerSettingWins == Spec => []YoungerWins
<1>1. IInv => YoungerWins
  BY YoungerWinsFollows
<1> QED
  BY <1>1, Invariant, PTL

\* No reload shows a setting without those that were in the queue when it was
\* sent, whatever commits and reloads fail: of a package, what is applied is
\* always a beginning.
THEOREM AppliedInOrder == Spec => []InOrder
<1>1. IInv => InOrder
  BY InOrderFollows
<1> QED
  BY <1>1, Invariant, PTL
=============================================================================
