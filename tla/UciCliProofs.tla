---------------------------- MODULE UciCliProofs ----------------------------
(***************************************************************************)
(* Proofs about UciCli for every number of processes, options and packages.*)
(* The inductive invariant says, beyond the types:                         *)
(*   Sound       what a process may have in memory at each place of its    *)
(*               program: nothing unsaved but the change of the command    *)
(*               it is about to save, no packages before it looks one up;  *)
(*   OwedInv     a change a commit owes is still staged, and its package   *)
(*               is on the list or has failed;                             *)
(*   SinceInv    what get is about to print was current since the call.    *)
(***************************************************************************)
EXTENDS UciCli, TLAPS, SequenceTheorems

FilesInv ==
  /\ committed \in [Options -> Contents]
  /\ staged \in [Options -> Contents \cup {Kept}]

Sound(p) ==
  /\ p \in Process
  /\ p.pc \notin {"save", "return"} => p.unsaved = {}
  /\ p.pc = "save" => /\ p.unsaved = {p.cmd.option}
                      /\ p.copy[p.cmd.option] = p.cmd.value
  /\ p.todo # <<>> <=> p.pc \in {"next", "commit"}
  /\ p.pc \in {"idle", "read", "lookup"} => p.loaded = {}

ProcInv == proc \in [Procs -> Process] /\ \A c \in Procs : Sound(proc[c])

\* What a commit of process p owes is on the list, or excused.
Owes(p, o) ==
  \/ p.pc = "list"
  \/ p.pc = "return" /\ p.status = 1
  \/ Package[o] \in p.missed
  \/ \E k \in 1 .. Len(p.todo) : p.todo[k] = Package[o]

OwedInv ==
  /\ owed \in [Procs -> SUBSET Options]
  /\ \A c \in Procs : \A o \in owed[c] :
       /\ proc[c].pc \in {"list", "next", "commit", "return"}
       /\ staged[o] # Kept
       /\ Owes(proc[c], o)

SinceInv ==
  /\ since \in [Procs -> SUBSET Contents]
  /\ \A c \in Procs :
       proc[c].pc = "apply" /\ proc[c].cmd.name = "get" =>
         proc[c].copy[proc[c].cmd.option] \in since[c]

IInv == FilesInv /\ ProcInv /\ OwedInv /\ SinceInv

-----------------------------------------------------------------------------
(* What the types are made of. *)

\* A command names an option and, to set it to, a value.
LEMMA CommandTypes ==
  /\ NoCommand \in Commands
  /\ \A k \in Commands : /\ k.option \in Options
                         /\ k.value \in Contents
                         /\ Package[k.option] \in Packages
<1>1. NoCommand \in Commands
  BY DEF Commands
<1>2. ASSUME NEW k \in Commands
      PROVE  k.option \in Options /\ k.value \in Contents
  <2>1. CASE k = NoCommand
    BY <2>1, UciAssumption DEF NoCommand, Contents
  <2>2. CASE k # NoCommand
    BY <2>2 DEF Commands, Contents
  <2> QED
    BY <2>1, <2>2
<1> QED
  BY <1>1, <1>2, UciAssumption

\* What is seen of an option is contents.
LEMMA ViewType == ASSUME FilesInv PROVE View \in [Options -> Contents]
BY DEF FilesInv, View

\* There is a package, that of an option.
LEMMA ConfigsAreThere == Configs # <<>>
<1>1. PICK o \in Options : Package[o] \in Packages
  BY UciAssumption
<1> QED
  BY <1>1 DEF Packages, ToSet

\* A process that is idle is sound, also between the commands of a batch.
LEMMA IdleSound == Sound(Idle) /\ Sound([Idle EXCEPT !.pc = "read", !.batch = TRUE])
<1>1. Blank \in [Options -> Contents]
  BY DEF Blank, Contents
<1>2. <<>> \in Seq(Packages)
  OBVIOUS
<1>3. Idle \in Process
  BY <1>1, <1>2, CommandTypes DEF Idle, Process
<1> QED
  BY <1>3 DEF Sound, Idle, Process

\* A command that ends leaves a sound process.
LEMMA EndSound ==
  ASSUME NEW p, Sound(p), p.todo = <<>>, NEW s \in {0, 1}
  PROVE  Sound(End(p, s))
BY DEF Sound, End, Process

\* Loading and unloading keep the types.
LEMMA WithType ==
  ASSUME FilesInv, NEW p \in Process, NEW q \in Packages
  PROVE  /\ With(p, q) \in Process
         /\ \A f \in {"pc", "batch", "cmd", "unsaved", "todo", "missed", "status"} :
              With(p, q)[f] = p[f]
BY ViewType DEF With, Process

LEMMA WithoutType ==
  ASSUME NEW p \in Process, NEW q \in Packages
  PROVE  /\ Without(p, q) \in Process
         /\ \A f \in {"pc", "batch", "cmd", "todo", "missed", "status"} :
              Without(p, q)[f] = p[f]
         /\ Without(p, q).unsaved \subseteq p.unsaved
BY DEF Without, Process, Contents

\* Through takes the head off the list, and goes on while there is one.
LEMMA ThroughSound ==
  ASSUME NEW p \in Process, NEW failed \in BOOLEAN, p.todo # <<>>
  PROVE  LET q == Through(p, failed) IN
         /\ q \in Process
         /\ q.pc = IF q.todo = <<>> THEN "return" ELSE "next"
         /\ q.todo = Tail(p.todo)
         /\ q.unsaved = p.unsaved
         /\ q.cmd = p.cmd
         /\ q.missed = p.missed \cup (IF failed THEN {Head(p.todo)} ELSE {})
<1>1. p.todo \in Seq(Packages) /\ Head(p.todo) \in Packages
  BY DEF Process
<1>2. Tail(p.todo) \in Seq(Packages) /\ (Tail(p.todo) = <<>> <=> Len(p.todo) = 1)
  <2>1. Tail(p.todo) \in Seq(Packages) /\ Len(Tail(p.todo)) = Len(p.todo) - 1
    BY <1>1, HeadTailProperties
  <2>2. Tail(p.todo) = <<>> <=> Len(Tail(p.todo)) = 0
    BY <2>1, EmptySeq
  <2> QED
    BY <1>1, <2>1, <2>2
<1> QED
  BY <1>1, <1>2 DEF Through, Process

-----------------------------------------------------------------------------

Steps(c) == Call(c) \/ Run(c) \/ Die(c)

\* What a command starts with is sound, and so is what it changes, read or not.
LEMMA DispatchSound ==
  ASSUME NEW p, Sound(p), p.pc \in {"idle", "read"}, NEW k \in Commands
  PROVE  Sound(Dispatch(p, k))
<1> DEFINE q == Dispatch(p, k)
<1>1. k.option \in Options /\ Package[k.option] \in Packages /\ p \in Process
  BY CommandTypes DEF Sound
<1>2. <<Package[k.option]>> \in Seq(Packages) /\ <<Package[k.option]>> # <<>>
  BY <1>1
<1>3. CASE k.name = "commit"
  BY <1>1, <1>2, <1>3 DEF Sound, Dispatch, Process
<1>4. CASE k.name = "commit all"
  BY <1>1, <1>4, EmptySeq DEF Sound, Dispatch, Process
<1>5. CASE k.name \notin {"commit", "commit all"}
  BY <1>1, <1>5, EmptySeq DEF Sound, Dispatch, Process
<1> QED
  BY <1>3, <1>4, <1>5

\* A step of a process leaves it sound, and does nothing to another one.
LEMMA StepSound ==
  ASSUME FilesInv, ProcInv, NEW c \in Procs, Steps(c)
  PROVE  \E q : Sound(q) /\ Becomes(c, q)
<1> DEFINE p == proc[c]
<1>1. Sound(p) /\ p \in Process
  BY DEF ProcInv, Sound
<1> HIDE DEF p
<1>2. CASE Call(c)
  <2>1. CASE \E k \in Commands : Becomes(c, Dispatch(p, k))
    BY <1>1, <1>2, <2>1, DispatchSound DEF Call, p
  <2>2. CASE Becomes(c, [p EXCEPT !.pc = "read", !.batch = TRUE])
    <3>1. Sound([p EXCEPT !.pc = "read", !.batch = TRUE])
      BY <1>1, <1>2 DEF Call, p, Sound, Process
    <3> QED
      BY <3>1, <2>2
  <2> QED
    BY <1>2, <2>1, <2>2 DEF Call, p
<1>3. CASE ReadLine(c)
  BY <1>1, <1>3, DispatchSound, IdleSound DEF ReadLine, p
<1>4. CASE Return(c)
  BY <1>4, IdleSound DEF Return
<1>5. CASE Die(c)
  BY <1>5, IdleSound DEF Die
<1>6. CASE Lookup(c)
  <2> DEFINE w == With(p, Package[p.cmd.option])
  <2>1. p.pc = "lookup"
    BY <1>6 DEF Lookup, p
  <2>2. Package[p.cmd.option] \in Packages
    BY <1>1, CommandTypes DEF Process
  <2>3. w \in Process /\ w.todo = p.todo /\ w.unsaved = p.unsaved
    BY <1>1, <2>2, WithType
  <2>4. Sound(Goto(w, "apply"))
    BY <1>1, <2>1, <2>3 DEF Sound, Goto, Process
  <2>5. Sound(End(p, 1))
    BY <1>1, <2>1, EndSound DEF Sound
  <2> QED
    BY <1>6, <2>4, <2>5 DEF Lookup, p
<1>7. CASE Get(c)
  <2>1. p.todo = <<>>
    BY <1>1, <1>7 DEF Get, p, Sound
  <2> QED
    BY <1>1, <1>7, <2>1, EndSound DEF Get, p
<1>8. CASE ChangeCopy(c)
  <2> DEFINE o == p.cmd.option
             q == [p EXCEPT !.pc = "save", !.copy[o] = p.cmd.value,
                            !.unsaved = @ \cup {o}]
  <2>1. p.pc = "apply" /\ p.todo = <<>>
    BY <1>1, <1>8 DEF ChangeCopy, p, Sound
  <2>2. Sound(q)
    BY <1>1, <2>1, CommandTypes DEF Sound, Process
  <2>3. Sound(End(p, 1))
    BY <1>1, <2>1, EndSound
  <2> QED
    BY <1>8, <2>2, <2>3 DEF ChangeCopy, p
<1>9. CASE Revert(c)
  <2>1. p.todo = <<>>
    BY <1>1, <1>9 DEF Revert, p, Sound
  <2> QED
    BY <1>1, <1>9, <2>1, EndSound DEF Revert, p
<1>10. CASE Save(c)
  <2> DEFINE q == [p EXCEPT !.unsaved = {o \in @ : Package[o] # Package[p.cmd.option]}]
  <2>1. p.pc = "save" /\ p.todo = <<>>
    BY <1>1, <1>10 DEF Save, p, Sound
  <2>2. Sound(End(q, 0))
    BY <1>1, <2>1 DEF Sound, End, Process
  <2>3. Sound(End(p, 1))
    BY <1>1, <2>1, EndSound
  <2> QED
    BY <1>10, <2>2, <2>3 DEF Save, p
<1>11. CASE ListConfigs(c)
  <2>1. p.pc = "list" /\ p.todo = <<>>
    BY <1>1, <1>11 DEF ListConfigs, p, Sound
  <2>2. Sound(End(p, 1))
    BY <1>1, <2>1, EndSound
  <2>3. Sound([p EXCEPT !.pc = "next", !.todo = Configs])
    BY <1>1, <2>1, UciAssumption, ConfigsAreThere DEF Sound, Process
  <2> QED
    BY <1>11, <2>2, <2>3 DEF ListConfigs, p
<1>12. CASE NextPackage(c)
  <2>1. p.pc = "next" /\ p.todo # <<>> /\ p.unsaved = {} /\ Head(p.todo) \in Packages
    BY <1>1, <1>12, HeadTailProperties DEF NextPackage, p, Sound, Process
  <2>2. Sound([Through(p, TRUE) EXCEPT !.status = IF p.cmd.name = "commit" THEN 1 ELSE 0])
    BY <1>1, <2>1, ThroughSound DEF Sound, Process
  <2>3. Sound(Goto(With(p, Head(p.todo)), "commit"))
    <3> DEFINE w == With(p, Head(p.todo))
    <3>1. w \in Process /\ w.todo = p.todo /\ w.unsaved = p.unsaved
      BY <1>1, <2>1, WithType
    <3> QED
      BY <2>1, <3>1 DEF Sound, Goto, Process
  <2> QED
    BY <1>12, <2>2, <2>3 DEF NextPackage, p
<1>13. CASE Commit(c)
  <2>1. p.pc = "commit" /\ p.todo # <<>> /\ p.unsaved = {} /\ Head(p.todo) \in Packages
    BY <1>1, <1>13, HeadTailProperties DEF Commit, p, Sound, Process
  <2>2. ASSUME NEW failed \in BOOLEAN
        PROVE  Sound(Without(Through(p, failed), Head(p.todo)))
    <3> DEFINE t == Through(p, failed)
               w == Without(t, Head(p.todo))
    <3>1. t \in Process /\ t.unsaved = {} /\ t.pc = IF t.todo = <<>> THEN "return" ELSE "next"
      BY <1>1, <2>1, ThroughSound
    <3> HIDE DEF t
    <3>2. w \in Process /\ w.unsaved = {} /\ w.pc = t.pc /\ w.todo = t.todo
      BY <2>1, <3>1, WithoutType
    <3> HIDE DEF w
    <3>3. Sound(w)
      BY <3>1, <3>2 DEF Sound
    <3> QED
      BY <3>3 DEF t, w
  <2> QED
    BY <1>13, <2>2 DEF Commit, p
<1> QED
  BY <1>2, <1>3, <1>4, <1>5, <1>6, <1>7, <1>8, <1>9, <1>10, <1>11, <1>12, <1>13
  DEF Steps, Run, SectionCmd, PackageCmd

\* All processes stay sound.
LEMMA ProcStep ==
  ASSUME FilesInv, ProcInv, NEW c \in Procs, Steps(c)
  PROVE  ProcInv'
<1>1. PICK q : Sound(q) /\ Becomes(c, q)
  BY StepSound
<1> QED
  BY <1>1 DEF ProcInv, Becomes, Sound

\* The others stand still.
LEMMA OthersStandStill ==
  ASSUME FilesInv, ProcInv, NEW c \in Procs, Steps(c), NEW d \in Procs \ {c}
  PROVE  proc'[d] = proc[d]
<1>1. PICK q : Sound(q) /\ Becomes(c, q)
  BY StepSound
<1> QED
  BY <1>1 DEF ProcInv, Becomes

\* The place in the program each action belongs to.
LEMMA Places ==
  ASSUME ProcInv, NEW c \in Procs
  PROVE  /\ Call(c) => proc[c].pc = "idle"
         /\ ReadLine(c) => proc[c].pc = "read"
         /\ Return(c) => proc[c].pc = "return" /\ proc'[c].pc \in {"idle", "read"}
         /\ Die(c) => proc'[c].pc = "idle"
         /\ Lookup(c) => proc[c].pc = "lookup"
         /\ Get(c) \/ ChangeCopy(c) \/ Revert(c) => proc[c].pc = "apply"
         /\ Save(c) => proc[c].pc = "save"
         /\ ListConfigs(c) => proc[c].pc = "list"
         /\ NextPackage(c) => proc[c].pc = "next"
         /\ Commit(c) => proc[c].pc = "commit"
<1>1. proc \in [Procs -> Process]
  BY DEF ProcInv
<1>2. Return(c) => proc[c].pc = "return" /\ proc'[c].pc \in {"idle", "read"}
  BY <1>1 DEF Return, Becomes, Idle
<1>3. Die(c) => proc'[c].pc = "idle"
  BY <1>1 DEF Die, Becomes, Idle
<1>4. /\ Call(c) => proc[c].pc = "idle"
      /\ ReadLine(c) => proc[c].pc = "read"
      /\ Lookup(c) => proc[c].pc = "lookup"
  BY DEF Call, ReadLine, Lookup
<1>5. Get(c) \/ ChangeCopy(c) \/ Revert(c) => proc[c].pc = "apply"
  BY DEF Get, ChangeCopy, Revert
<1>6. /\ Save(c) => proc[c].pc = "save"
      /\ ListConfigs(c) => proc[c].pc = "list"
      /\ NextPackage(c) => proc[c].pc = "next"
      /\ Commit(c) => proc[c].pc = "commit"
  BY DEF Save, ListConfigs, NextPackage, Commit
<1> QED
  BY <1>2, <1>3, <1>4, <1>5, <1>6

-----------------------------------------------------------------------------
(* What a step does to the files. *)

\* The files change in one of three ways: an option is staged or taken back,
\* or everything staged of one package is committed.
ChangesOne(o) ==
  /\ \E v \in Contents \cup {Kept} : staged' = [staged EXCEPT ![o] = v]
  /\ UNCHANGED committed

CommitsAll(q) ==
  /\ committed' = [o \in Options |-> IF Package[o] = q /\ staged[o] # Kept
                                     THEN staged[o] ELSE committed[o]]
  /\ staged' = [o \in Options |-> IF Package[o] = q THEN Kept ELSE staged[o]]

\* What Save writes is the one change that is unsaved.
LEMMA SavesOne ==
  ASSUME FilesInv, ProcInv, NEW c \in Procs, proc[c].pc = "save"
  PROVE  /\ Saved(proc[c], Package[proc[c].cmd.option])
              = [staged EXCEPT ![proc[c].cmd.option] = proc[c].cmd.value]
         /\ proc[c].cmd.option \in Options
         /\ proc[c].cmd.value \in Contents
<1>1. proc[c] \in Process /\ Sound(proc[c])
  BY DEF ProcInv
<1>2. proc[c].cmd.option \in Options /\ proc[c].cmd.value \in Contents
  BY <1>1, CommandTypes DEF Process
<1> QED
  BY <1>1, <1>2 DEF Saved, Sound, FilesInv

\* What a commit writes is what is staged: nothing else is unsaved.
LEMMA SavesNothing ==
  ASSUME FilesInv, ProcInv, NEW c \in Procs, proc[c].pc = "commit", NEW q
  PROVE  Saved(proc[c], q) = staged
BY DEF Saved, ProcInv, Sound, FilesInv

LEMMA FilesStep ==
  ASSUME FilesInv, ProcInv, NEW c \in Procs, Steps(c)
  PROVE  \/ UNCHANGED Files
         \/ \E o \in Options : ChangesOne(o)
         \/ \E q : CommitsAll(q)
<1>1. CASE Call(c) \/ ReadLine(c) \/ Return(c) \/ Die(c) \/ Lookup(c) \/ Get(c)
             \/ ChangeCopy(c) \/ ListConfigs(c) \/ NextPackage(c)
  BY <1>1 DEF Call, ReadLine, Return, Die, Lookup, Get, ChangeCopy, ListConfigs,
              NextPackage
<1>2. CASE Revert(c)
  <2>1. proc[c].cmd.option \in Options
    BY CommandTypes DEF ProcInv, Process
  <2> QED
    BY <1>2, <2>1 DEF Revert, ChangesOne, Files
<1>3. CASE Save(c)
  <2>1. proc[c].pc = "save"
    BY <1>3 DEF Save
  <2>2. /\ UNCHANGED committed
        /\ \/ staged' = Saved(proc[c], Package[proc[c].cmd.option])
           \/ UNCHANGED staged
    BY <1>3 DEF Save
  <2>3. ChangesOne(proc[c].cmd.option) \/ UNCHANGED Files
    BY <2>1, <2>2, SavesOne DEF ChangesOne, Files
  <2> QED
    BY <2>1, <2>3, SavesOne
<1>4. CASE Commit(c)
  <2> DEFINE q == Head(proc[c].todo)
  <2>1. Saved(proc[c], q) = staged
    BY <1>4, SavesNothing DEF Commit
  <2>2. \/ UNCHANGED Files
        \/ /\ committed' = [o \in Options |->
                            IF Package[o] = q /\ Saved(proc[c], q)[o] # Kept
                            THEN Saved(proc[c], q)[o] ELSE committed[o]]
           /\ staged' = [o \in Options |-> IF Package[o] = q THEN Kept ELSE staged[o]]
    BY <1>4 DEF Commit
  <2>3. UNCHANGED Files \/ CommitsAll(q)
    BY <2>1, <2>2 DEF CommitsAll
  <2> QED
    BY <2>3
<1> QED
  BY <1>1, <1>2, <1>3, <1>4 DEF Steps, Run, SectionCmd, PackageCmd

LEMMA FilesTypes ==
  ASSUME FilesInv, ProcInv, NEW c \in Procs, Steps(c)
  PROVE  FilesInv'
<1>1. CASE UNCHANGED Files
  BY <1>1 DEF FilesInv, Files
<1>2. CASE \E o \in Options : ChangesOne(o)
  BY <1>2 DEF FilesInv, ChangesOne
<1>3. CASE \E q : CommitsAll(q)
  BY <1>3 DEF FilesInv, CommitsAll
<1> QED
  BY <1>1, <1>2, <1>3, FilesStep

\* Seen from outside, a step changes one option, commits a package, or nothing.
LEMMA StoreStep ==
  ASSUME FilesInv, ProcInv, NEW c \in Procs, Steps(c)
  PROVE  Store!Next \/ UNCHANGED <<View, committed>>
<1>1. CASE UNCHANGED Files
  BY <1>1 DEF Files, View
<1>2. CASE \E o \in Options : ChangesOne(o)
  <2>1. PICK o \in Options : ChangesOne(o)
    BY <1>2
  <2>2. View' = [View EXCEPT ![o] = View'[o]] /\ View'[o] \in Contents
    BY <2>1 DEF FilesInv, ChangesOne, View
  <2> QED
    BY <2>1, <2>2 DEF ChangesOne, Store!Next, Store!Change
<1>3. CASE \E q : CommitsAll(q)
  <2>1. PICK q : CommitsAll(q)
    BY <1>3
  <2>2. View' = View
    BY <2>1 DEF FilesInv, CommitsAll, View
  <2>3. CASE \E o \in Options : Package[o] = q
    <3>1. committed' = [o \in Options |-> IF Package[o] = q THEN View[o] ELSE committed[o]]
      BY <2>1 DEF FilesInv, CommitsAll, View
    <3> QED
      BY <2>2, <2>3, <3>1 DEF Store!Next, Store!Commit
  <2>4. CASE ~ \E o \in Options : Package[o] = q
    BY <2>1, <2>2, <2>4 DEF FilesInv, CommitsAll
  <2> QED
    BY <2>3, <2>4
<1> QED
  BY <1>1, <1>2, <1>3, FilesStep

\* A set or del that ends has staged its change, or has failed and staged none.
LEMMA StatusStep ==
  ASSUME FilesInv, ProcInv, NEW c \in Procs, Steps(c), NEW d \in Procs,
         proc[d].pc = "save", proc'[d].pc = "return"
  PROVE  staged' = IF proc'[d].status = 0
                   THEN [staged EXCEPT ![proc[d].cmd.option] = proc[d].cmd.value]
                   ELSE staged
<1>1. c = d
  BY OthersStandStill
<1>2. proc[d] \in Process /\ proc \in [Procs -> Process]
  BY DEF ProcInv
<1>3. Save(d)
  BY <1>1, Places DEF Steps, Run, SectionCmd, PackageCmd
<1>4. CASE staged' = Saved(proc[d], Package[proc[d].cmd.option]) /\ proc'[d].status = 0
  BY <1>4, SavesOne
<1>5. CASE staged' = staged /\ proc'[d].status = 1
  BY <1>5
<1> QED
  BY <1>2, <1>3, <1>4, <1>5 DEF Save, Becomes, End, Process

-----------------------------------------------------------------------------
(* What a commit owes, and what get has seen. *)

\* Of two packages on the list one is still there when the head is taken off.
LEMMA InTail ==
  ASSUME NEW s \in Seq(Packages), NEW k \in 1 .. Len(s), s[k] # Head(s)
  PROVE  \E j \in 1 .. Len(Tail(s)) : Tail(s)[j] = s[k]
<1>1. s # <<>>
  BY EmptySeq
<1>2. k # 1 /\ k - 1 \in 1 .. Len(Tail(s)) /\ Tail(s)[k - 1] = s[k]
  BY <1>1, HeadTailProperties
<1> QED
  BY <1>2

\* Through takes nothing off that is owed, but the head.
LEMMA ThroughOwes ==
  ASSUME NEW p \in Process, p.todo # <<>>, p.pc \in {"next", "commit"},
         NEW failed \in BOOLEAN, NEW o \in Options, Owes(p, o),
         failed \/ Package[o] # Head(p.todo)
  PROVE  \/ Package[o] \in Through(p, failed).missed
         \/ \E k \in 1 .. Len(Through(p, failed).todo) :
              Through(p, failed).todo[k] = Package[o]
<1>1. /\ Through(p, failed).todo = Tail(p.todo)
      /\ Through(p, failed).missed = p.missed \cup (IF failed THEN {Head(p.todo)} ELSE {})
  BY ThroughSound
<1>2. p.todo \in Seq(Packages)
  BY DEF Process
<1>3. CASE Package[o] \in p.missed \/ (failed /\ Package[o] = Head(p.todo))
  BY <1>1, <1>3
<1>4. CASE Package[o] # Head(p.todo) /\ \E k \in 1 .. Len(p.todo) : p.todo[k] = Package[o]
  BY <1>1, <1>2, <1>4, InTail
<1> QED
  BY <1>3, <1>4 DEF Owes

\* Every package is on the list a commit of all packages starts with.
LEMMA AllConfigs ==
  \A o \in Options : \E k \in 1 .. Len(Configs) : Configs[k] = Package[o]
BY UciAssumption DEF Packages, ToSet

\* A step of a commit that is not its first keeps what is owed on the list, or
\* it is no longer staged.
LEMMA OwesStep ==
  ASSUME FilesInv, ProcInv, NEW c \in Procs, Steps(c), NEW o \in Options,
         Owes(proc[c], o), staged'[o] # Kept,
         proc[c].pc \in {"list", "next", "commit", "return"},
         proc'[c].pc \in {"list", "next", "commit", "return"}
  PROVE  Owes(proc'[c], o)
<1> DEFINE p == proc[c]
<1>1. Sound(p) /\ p \in Process /\ proc \in [Procs -> Process]
  BY DEF ProcInv
<1>2. ListConfigs(c) \/ NextPackage(c) \/ Commit(c)
  BY Places DEF Steps, Run, SectionCmd, PackageCmd
<1>3. CASE ListConfigs(c)
  <2>1. CASE Becomes(c, End(p, 1))
    BY <1>1, <2>1 DEF Becomes, End, Owes, Process
  <2>2. CASE Becomes(c, [p EXCEPT !.pc = "next", !.todo = Configs])
    BY <1>1, <2>2, AllConfigs DEF Becomes, Owes, Process
  <2> QED
    BY <1>3, <2>1, <2>2 DEF ListConfigs
<1>4. CASE NextPackage(c)
  <2>1. p.pc = "next" /\ p.todo # <<>> /\ Head(p.todo) \in Packages
    BY <1>1, <1>4, HeadTailProperties DEF NextPackage, Sound, Process
  <2>2. CASE proc'[c] = [Through(p, TRUE) EXCEPT
                          !.status = IF p.cmd.name = "commit" THEN 1 ELSE 0]
    <3>1. Through(p, TRUE) \in Process
      BY <1>1, <2>1, ThroughSound
    <3>2. \/ Package[o] \in Through(p, TRUE).missed
          \/ \E k \in 1 .. Len(Through(p, TRUE).todo) :
               Through(p, TRUE).todo[k] = Package[o]
      BY <1>1, <2>1, ThroughOwes
    <3>3. proc'[c].missed = Through(p, TRUE).missed /\ proc'[c].todo = Through(p, TRUE).todo
      BY <2>2, <3>1 DEF Process
    <3> QED
      BY <3>2, <3>3 DEF Owes
  <2>3. CASE proc'[c] = Goto(With(p, Head(p.todo)), "commit")
    <3>1. With(p, Head(p.todo)) \in Process
          /\ With(p, Head(p.todo)).missed = p.missed
          /\ With(p, Head(p.todo)).todo = p.todo
      BY <1>1, <2>1, WithType
    <3>2. proc'[c].missed = p.missed /\ proc'[c].todo = p.todo
      BY <2>3, <3>1 DEF Goto, Process
    <3> QED
      BY <2>1, <3>2 DEF Owes
  <2> QED
    BY <1>1, <1>4, <2>2, <2>3 DEF NextPackage, Becomes
<1>5. CASE Commit(c)
  <2>1. p.pc = "commit" /\ p.todo # <<>> /\ Head(p.todo) \in Packages
    BY <1>1, <1>5, HeadTailProperties DEF Commit, Sound, Process
  <2>2. PICK failed \in BOOLEAN :
          /\ proc'[c] = Without(Through(p, failed), Head(p.todo))
          /\ failed \/ Package[o] # Head(p.todo)
    BY <1>1, <1>5 DEF Commit, Becomes
  <2>3. Through(p, failed) \in Process
    BY <1>1, <2>1, ThroughSound
  <2>4. proc'[c].missed = Through(p, failed).missed /\ proc'[c].todo = Through(p, failed).todo
    BY <2>1, <2>2, <2>3, WithoutType
  <2>5. \/ Package[o] \in Through(p, failed).missed
        \/ \E k \in 1 .. Len(Through(p, failed).todo) :
             Through(p, failed).todo[k] = Package[o]
    BY <1>1, <2>1, <2>2, ThroughOwes
  <2> QED
    BY <2>4, <2>5 DEF Owes
<1> QED
  BY <1>2, <1>3, <1>4, <1>5

\* A command that starts has everything still to do.
LEMMA OwesFirst ==
  ASSUME FilesInv, ProcInv, NEW c \in Procs, Steps(c), NEW o \in Options,
         proc[c].pc \in {"idle", "read"},
         proc'[c].pc \in {"list", "next", "commit", "return"}
  PROVE  /\ proc'[c].pc \in {"list", "next"}
         /\ (proc'[c].cmd.name = "commit" => Package[o] = Head(proc'[c].todo))
              => Owes(proc'[c], o)
<1> DEFINE p == proc[c]
<1>1. Sound(p) /\ p \in Process /\ proc \in [Procs -> Process]
  BY DEF ProcInv
<1>2. Call(c) \/ ReadLine(c)
  BY Places DEF Steps, Run, SectionCmd, PackageCmd
<1>3. PICK k \in Commands : proc'[c] = Dispatch(p, k)
  <2>1. CASE \E k \in Commands : Becomes(c, Dispatch(p, k))
    BY <1>1, <2>1 DEF Becomes
  <2>2. CASE Becomes(c, [p EXCEPT !.pc = "read", !.batch = TRUE])
    <3>1. proc'[c].pc = "read"
      BY <1>1, <2>2 DEF Becomes, Process
    <3> QED
      BY <3>1
  <2>3. CASE Becomes(c, Idle)
    <3>1. proc'[c].pc = "idle"
      BY <1>1, <2>3 DEF Becomes, Idle
    <3> QED
      BY <3>1
  <2> QED
    BY <1>2, <2>1, <2>2, <2>3 DEF Call, ReadLine
<1>4. /\ proc'[c].cmd = k
      /\ proc'[c].pc = CASE k.name = "commit all" -> "list"
                         [] k.name = "commit" -> "next"
                         [] OTHER -> "lookup"
      /\ proc'[c].todo = IF k.name = "commit" THEN <<Package[k.option]>> ELSE <<>>
  BY <1>1, <1>3 DEF Dispatch, Process
<1>5. CASE k.name = "commit"
  <2>1. proc'[c].pc = "next" /\ proc'[c].todo = <<Package[k.option]>>
    BY <1>4, <1>5
  <2>2. Head(proc'[c].todo) = proc'[c].todo[1] /\ Len(proc'[c].todo) = 1
    BY <2>1
  <2> QED
    BY <1>4, <1>5, <2>1, <2>2 DEF Owes
<1>6. CASE k.name = "commit all"
  BY <1>4, <1>6 DEF Owes
<1>7. CASE k.name \notin {"commit", "commit all"}
  BY <1>4, <1>7
<1> QED
  BY <1>5, <1>6, <1>7

LEMMA OwedStep ==
  ASSUME IInv, NEW c \in Procs, Steps(c), Observe
  PROVE  OwedInv'
<1> USE DEF IInv
<1>1. FilesInv' /\ ProcInv'
  BY FilesTypes, ProcStep
<1>2. Staged' = {o \in Options : staged'[o] # Kept}
  BY DEF Staged
<1>3. ASSUME NEW d \in Procs
      PROVE  \/ owed'[d] = {}
             \/ /\ owed'[d] = owed[d] \cap Staged'
                /\ proc'[d].pc \in {"list", "next", "commit", "return"}
                /\ ~ (proc[d].pc \in {"idle", "read"} /\ proc'[d].pc \in {"list", "next"})
             \/ /\ proc[d].pc \in {"idle", "read"}
                /\ proc'[d].pc \in {"list", "next", "commit", "return"}
                /\ owed'[d] = {o \in Staged' : proc'[d].cmd.name = "commit" =>
                                                 Package[o] = Head(proc'[d].todo)}
  BY DEF Observe
<1>4. owed' \in [Procs -> SUBSET Options]
  <2>1. owed' = [d \in Procs |-> owed'[d]]
    BY DEF Observe
  <2>2. ASSUME NEW d \in Procs PROVE owed'[d] \subseteq Options
    BY <1>2, <1>3
  <2> QED
    BY <2>1, <2>2
<1>5. ASSUME NEW d \in Procs, NEW o \in owed'[d]
      PROVE  /\ proc'[d].pc \in {"list", "next", "commit", "return"}
             /\ staged'[o] # Kept
             /\ Owes(proc'[d], o)
  <2>1. /\ o \in Options /\ staged'[o] # Kept
        /\ proc'[d].pc \in {"list", "next", "commit", "return"}
    BY <1>2, <1>3
  <2>2. CASE d # c
    <3>1. proc'[d] = proc[d]
      BY <2>2, OthersStandStill
    <3>2. o \in owed[d]
      <4>1. CASE proc[d].pc \in {"idle", "read"}
        BY <1>3, <3>1, <4>1
      <4>2. CASE proc[d].pc \notin {"idle", "read"}
        BY <1>3, <4>2
      <4> QED
        BY <4>1, <4>2
    <3> QED
      BY <2>1, <3>1, <3>2 DEF OwedInv
  <2>3. CASE d = c /\ proc[c].pc \notin {"idle", "read"}
    <3>1. o \in owed[c] /\ proc'[c].pc \in {"list", "next", "commit", "return"}
      BY <1>3, <2>3
    <3>2. Owes(proc[c], o)
      BY <3>1 DEF OwedInv
    <3>3. proc[c].pc \in {"list", "next", "commit", "return"}
      BY <3>1 DEF OwedInv
    <3> QED
      BY <2>1, <2>3, <3>1, <3>2, <3>3, OwesStep
  <2>4. CASE d = c /\ proc[c].pc \in {"idle", "read"}
    <3>1. proc'[c].pc \in {"list", "next", "commit", "return"}
      BY <1>3, <2>4
    <3>2. proc'[c].pc \in {"list", "next"}
      BY <2>1, <2>4, <3>1, OwesFirst
    <3>3. proc'[c].cmd.name = "commit" => Package[o] = Head(proc'[c].todo)
      BY <1>3, <2>4, <3>2
    <3> QED
      BY <2>1, <2>4, <3>1, <3>3, OwesFirst
  <2> QED
    BY <2>2, <2>3, <2>4
<1> QED
  BY <1>4, <1>5 DEF OwedInv

\* Only the look-up leads to where get prints.
LEMMA OnlyLookup ==
  ASSUME FilesInv, ProcInv, NEW c \in Procs, Steps(c), proc'[c].pc = "apply"
  PROVE  Lookup(c)
<1> DEFINE p == proc[c]
<1>1. Sound(p) /\ p \in Process /\ proc \in [Procs -> Process]
  BY DEF ProcInv
<1>2. ASSUME NEW q, Becomes(c, q) PROVE q.pc = "apply"
  BY <1>1, <1>2 DEF Becomes
<1>3. ASSUME NEW k \in Commands PROVE ~Becomes(c, Dispatch(p, k))
  <2>1. Dispatch(p, k).pc # "apply"
    BY <1>1 DEF Dispatch, Process
  <2> QED
    BY <1>2, <2>1
<1>4. ASSUME NEW q \in Process, NEW s \in {0, 1} PROVE ~Becomes(c, End(q, s))
  <2>1. End(q, s).pc = "return"
    BY <1>1 DEF End, Process
  <2> QED
    BY <1>2, <2>1
<1>5. ~ Call(c) /\ ~ ReadLine(c)
  <2>1. [p EXCEPT !.pc = "read", !.batch = TRUE].pc = "read"
    BY <1>1 DEF Process
  <2>2. Idle.pc = "idle"
    BY DEF Idle
  <2>3. ~Becomes(c, [p EXCEPT !.pc = "read", !.batch = TRUE]) /\ ~Becomes(c, Idle)
    BY <1>2, <2>1, <2>2
  <2> QED
    BY <1>3, <2>3 DEF Call, ReadLine
<1>6. ~ Get(c) /\ ~ Revert(c)
  BY <1>1, <1>4 DEF Get, Revert
<1>7. ~ ChangeCopy(c) /\ ~ Save(c) /\ ~ ListConfigs(c)
  <2> DEFINE o == p.cmd.option
             q1 == [p EXCEPT !.pc = "save", !.copy[o] = p.cmd.value,
                             !.unsaved = @ \cup {o}]
             q2 == [p EXCEPT !.unsaved = {x \in @ : Package[x] # Package[o]}]
             q3 == [p EXCEPT !.pc = "next", !.todo = Configs]
  <2>1. q1.pc = "save" /\ q3.pc = "next" /\ q2 \in Process
    BY <1>1 DEF Process
  <2>2. ~Becomes(c, q1) /\ ~Becomes(c, q3) /\ ~Becomes(c, End(q2, 0)) /\ ~Becomes(c, End(p, 1))
    BY <1>1, <1>2, <1>4, <2>1
  <2> QED
    BY <2>2 DEF ChangeCopy, Save, ListConfigs
<1>8. ~ NextPackage(c)
  <2>1. SUFFICES ASSUME NextPackage(c) PROVE FALSE
    OBVIOUS
  <2>2. p.pc = "next" /\ p.todo # <<>> /\ Head(p.todo) \in Packages
    BY <1>1, <2>1, HeadTailProperties DEF NextPackage, Sound, Process
  <2>3. Through(p, TRUE) \in Process /\ Through(p, TRUE).pc # "apply"
    BY <1>1, <2>2, ThroughSound
  <2>4. With(p, Head(p.todo)) \in Process
    BY <1>1, <2>2, WithType
  <2> DEFINE t == [Through(p, TRUE) EXCEPT !.status = IF p.cmd.name = "commit" THEN 1 ELSE 0]
             g == Goto(With(p, Head(p.todo)), "commit")
  <2>5. t.pc # "apply" /\ g.pc # "apply"
    BY <2>3, <2>4 DEF Goto, Process
  <2>6. ~Becomes(c, t) /\ ~Becomes(c, g)
    BY <1>2, <2>5
  <2> QED
    BY <2>1, <2>6 DEF NextPackage
<1>9. ~ Commit(c)
  <2>1. SUFFICES ASSUME Commit(c) PROVE FALSE
    OBVIOUS
  <2>2. p.pc = "commit" /\ p.todo # <<>> /\ Head(p.todo) \in Packages
    BY <1>1, <2>1, HeadTailProperties DEF Commit, Sound, Process
  <2>3. PICK failed \in BOOLEAN : proc'[c] = Without(Through(p, failed), Head(p.todo))
    BY <1>1, <2>1 DEF Commit, Becomes
  <2>4. Through(p, failed) \in Process /\ Through(p, failed).pc # "apply"
    BY <1>1, <2>2, ThroughSound
  <2> QED
    BY <2>2, <2>3, <2>4, WithoutType
<1> QED
  BY <1>5, <1>6, <1>7, <1>8, <1>9, Places DEF Steps, Run, SectionCmd, PackageCmd

\* What get reads is what it looks up, or what somebody has changed it to since.
LEMMA SinceStep ==
  ASSUME IInv, NEW c \in Procs, Steps(c), Observe
  PROVE  SinceInv'
<1> USE DEF IInv
<1>1. FilesInv' /\ ProcInv'
  BY FilesTypes, ProcStep
<1>2. View' \in [Options -> Contents] /\ View \in [Options -> Contents]
  BY <1>1 DEF FilesInv, View
<1>3. ASSUME NEW d \in Procs
      PROVE  proc'[d].cmd.option \in Options
  BY <1>1, CommandTypes DEF ProcInv, Process
<1>4. /\ since' = [d \in Procs |-> since'[d]]
      /\ \A d \in Procs : \/ since'[d] = {}
                          \/ since'[d] = {View'[proc'[d].cmd.option]}
                          \/ since'[d] = {View'[proc'[d].cmd.option]} \cup since[d]
  BY DEF Observe
<1>5. since' \in [Procs -> SUBSET Contents]
  BY <1>2, <1>3, <1>4 DEF SinceInv
<1>6. ASSUME NEW d \in Procs, proc'[d].pc = "apply", proc'[d].cmd.name = "get"
      PROVE  proc'[d].copy[proc'[d].cmd.option] \in since'[d]
  <2>1. View'[proc'[d].cmd.option] \in since'[d] /\ since[d] \subseteq since'[d]
    BY <1>6 DEF Observe
  <2>2. CASE d # c
    BY <1>6, <2>1, <2>2, OthersStandStill DEF SinceInv
  <2>3. CASE d = c
    <3> DEFINE p == proc[c]
               w == With(p, Package[p.cmd.option])
    <3>1. Lookup(c)
      BY <1>6, <2>3, OnlyLookup
    <3>2. Sound(p) /\ p \in Process /\ proc \in [Procs -> Process]
      BY DEF ProcInv
    <3>3. p.pc = "lookup" /\ p.loaded = {}
      BY <3>1, <3>2 DEF Lookup, Sound
    <3>4. Package[p.cmd.option] \in Packages /\ p.cmd.option \in Options
      BY <3>2, CommandTypes DEF Process
    <3>5. w \in Process /\ w.cmd = p.cmd /\ w.copy[p.cmd.option] = View[p.cmd.option]
      <4>1. w \in Process /\ w.cmd = p.cmd
        BY <3>2, <3>4, WithType
      <4>2. w.copy = [o \in Options |-> IF Package[o] = Package[p.cmd.option]
                                        THEN View[o] ELSE p.copy[o]]
        BY <3>2, <3>3 DEF With, Process
      <4> QED
        BY <3>4, <4>1, <4>2
    <3>6. proc'[c] = Goto(w, "apply") /\ UNCHANGED Files
      BY <1>6, <2>3, <3>1, <3>2 DEF Lookup, Becomes, End, Process
    <3>7. View' = View
      BY <3>6 DEF Files, View
    <3>8. proc'[c].cmd = p.cmd /\ proc'[c].copy = w.copy
      BY <3>5, <3>6 DEF Goto, Process
    <3> QED
      BY <2>1, <2>3, <3>5, <3>7, <3>8
  <2> QED
    BY <2>2, <2>3
<1> QED
  BY <1>5, <1>6 DEF SinceInv

-----------------------------------------------------------------------------
(* The theorems. *)

LEMMA Initially == Init => IInv
<1> SUFFICES ASSUME Init PROVE IInv
  OBVIOUS
<1>1. FilesInv
  BY DEF Init, FilesInv
<1>2. ProcInv
  BY IdleSound DEF Init, ProcInv, Sound
<1>3. OwedInv
  BY DEF Init, OwedInv
<1>4. SinceInv
  BY DEF Init, SinceInv, Idle
<1> QED
  BY <1>1, <1>2, <1>3, <1>4 DEF IInv

LEMMA Inductive == IInv /\ [Next]_vars => IInv'
<1> SUFFICES ASSUME IInv, [Next]_vars PROVE IInv'
  OBVIOUS
<1>1. CASE UNCHANGED vars
  BY <1>1 DEF vars, IInv, FilesInv, ProcInv, OwedInv, SinceInv
<1>2. CASE Next
  <2>1. PICK c \in Procs : Steps(c)
    BY <1>2 DEF Next, Steps
  <2>2. Observe
    BY <1>2 DEF Next
  <2>3. FilesInv' /\ ProcInv'
    BY <2>1, FilesTypes, ProcStep DEF IInv
  <2> QED
    BY <2>1, <2>2, <2>3, OwedStep, SinceStep DEF IInv
<1> QED
  BY <1>1, <1>2

\* The invariant holds in every state that is reached.
THEOREM Invariant == Spec => []IInv
BY Initially, Inductive, PTL DEF Spec

\* Type correctness of the uci client.
THEOREM TypeCorrect == Spec => []TypeOK
<1>1. IInv => TypeOK
  BY DEF IInv, FilesInv, ProcInv, OwedInv, SinceInv, TypeOK
<1> QED
  BY <1>1, Invariant, PTL

\* A commit that returns 0 has put in force whatever was staged when it was
\* called, failed packages apart (uci_do_package_cmd).
THEOREM CommitsTakeAll == Spec => []CommitTakesAll
<1>1. IInv => CommitTakesAll
  <2> SUFFICES ASSUME IInv, NEW c \in Procs, proc[c].pc = "return",
                      proc[c].status = 0, NEW o \in owed[c]
               PROVE  Package[o] \in proc[c].missed
    BY DEF CommitTakesAll
  <2>1. proc[c].todo = <<>>
    BY DEF IInv, ProcInv, Sound
  <2>2. Owes(proc[c], o)
    BY DEF IInv, OwedInv
  <2> QED
    BY <2>1, <2>2 DEF Owes
<1> QED
  BY <1>1, Invariant, PTL

\* What get prints was the option's contents at some moment since the call
\* (uci_do_section_cmd with a context that uci_batch has emptied).
THEOREM AnswersAreCurrent == Spec => []AnswerIsCurrent
<1>1. IInv => AnswerIsCurrent
  BY DEF IInv, SinceInv, AnswerIsCurrent
<1> QED
  BY <1>1, Invariant, PTL

\* The client, with all its interleavings and failures, implements UciStore.
THEOREM Implements == Spec => StoreSpec
<1>1. Init => Store!Init
  BY ViewType, Initially DEF Init, IInv, View, Store!Init
<1>2. IInv /\ [Next]_vars => [Store!Next]_<<View, committed>>
  <2> SUFFICES ASSUME IInv, [Next]_vars PROVE Store!Next \/ UNCHANGED <<View, committed>>
    OBVIOUS
  <2>1. CASE UNCHANGED vars
    BY <2>1 DEF vars, View
  <2>2. CASE Next
    BY <2>2, StoreStep DEF Next, Steps, IInv
  <2> QED
    BY <2>1, <2>2
<1> QED
  BY <1>1, <1>2, Invariant, PTL DEF Spec, StoreSpec, Store!Spec

\* A set or del that reports success has staged its own change and nothing else,
\* one that reports failure nothing at all.
THEOREM StatusesAreTrue == Spec => StatusIsTrue
<1>1. IInv /\ [Next]_vars => [TellsTheTruth]_vars
  <2> SUFFICES ASSUME IInv, Next PROVE TellsTheTruth
    OBVIOUS
  <2>1. PICK c \in Procs : Steps(c)
    BY DEF Next, Steps
  <2> QED
    BY <2>1, StatusStep DEF IInv, TellsTheTruth
<1> QED
  BY <1>1, Invariant, PTL DEF Spec, StatusIsTrue
=============================================================================
