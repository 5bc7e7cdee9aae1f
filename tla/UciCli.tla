------------------------------- MODULE UciCli -------------------------------
(***************************************************************************)
(* The uci client: commands read and change options.  A change is made to  *)
(* a copy of the package in memory, and saved by appending it to a file of *)
(* changes (staged) that every reader applies on top of the configuration  *)
(* file (committed).  "commit" moves the one into the other, package by    *)
(* package.  Every process has a context of its own, with the copies of    *)
(* the packages it has loaded.                                             *)
(*                                                                         *)
(* libuci is external: each of its calls is atomic, since it locks the     *)
(* files, and each may fail and then changes no file.  The file of changes *)
(* is kept by its effect on each option.  "set" stands for the commands    *)
(* that give an option new contents (set, add_list), "get" for those that  *)
(* print them (get, show, export, changes).  uci_command_set, _del, _get,  *)
(* _show and _commit pass one command; batch and revert are in uci_cmd,    *)
(* but no function outside the file passes them on.                        *)
(***************************************************************************)
EXTENDS Naturals, Sequences, FiniteSets, SequencesExt

CONSTANTS
  Procs,        \* processes that use the client
  Options,      \* options
  Package,      \* Package[o]: the package of option o
  Values,       \* what an option can be set to
  Absent,       \* an option without contents
  Kept,         \* an option without a staged change
  Configs       \* what uci_list_configs() gives: the packages, in order

Contents == Values \cup {Absent}
Packages == ToSet(Configs)

ASSUME UciAssumption ==
  /\ Configs \in Seq(Packages)
  /\ Package \in [Options -> Packages]
  /\ Kept \notin Contents
  /\ Options # {}

NoCommand == [name |-> "commit all", option |-> CHOOSE o \in Options : TRUE,
              value |-> Absent]
Commands ==
  [name : {"set"}, option : Options, value : Values]
    \cup [name : {"get", "del", "revert", "commit"}, option : Options, value : {Absent}]
    \cup {NoCommand}

VARIABLES
  committed,    \* committed[o]: the option in the configuration files
  staged,       \* staged[o]: what the files of changes make of it, or Kept
  proc,         \* proc[c]: the process c, see Process
  owed,         \* history: owed[c]: changes staged since c's commit was called
  since         \* history: since[c]: contents of the option since c's command

vars == <<committed, staged, proc, owed, since>>

View == [o \in Options |-> IF staged[o] = Kept THEN committed[o] ELSE staged[o]]
Staged == {o \in Options : staged[o] # Kept}

Process ==
  [pc : {"idle", "read", "lookup", "apply", "save", "list", "next", "commit",
         "return"},
   batch : BOOLEAN,                     \* CLI_FLAG_BATCH: commands from a file
   cmd : Commands,
   loaded : SUBSET Packages,            \* packages in the context
   copy : [Options -> Contents],        \* their options; Absent if not loaded
   unsaved : SUBSET Options,            \* changed in memory, not yet saved
   todo : Seq(Packages),                \* packages still to be committed
   missed : SUBSET Packages,            \* history: packages that failed
   status : {0, 1}]                     \* what the command returns

Blank == [o \in Options |-> Absent]
Idle == [pc |-> "idle", batch |-> FALSE, cmd |-> NoCommand, loaded |-> {},
         copy |-> Blank, unsaved |-> {}, todo |-> <<>>, missed |-> {}, status |-> 0]

Init ==
  /\ committed \in [Options -> Contents]
  /\ staged = [o \in Options |-> Kept]
  /\ proc = [c \in Procs |-> Idle]
  /\ owed = [c \in Procs |-> {}]
  /\ since = [c \in Procs |-> {}]

-----------------------------------------------------------------------------
(* A process steps from p to q. *)

Becomes(c, q) == proc' = [proc EXCEPT ![c] = q]
Goto(p, label) == [p EXCEPT !.pc = label]
End(p, status) == [p EXCEPT !.pc = "return", !.status = status]
Without(p, q) ==   \* uci_unload
  [p EXCEPT !.loaded = @ \ {q}, !.unsaved = {o \in @ : Package[o] # q},
            !.copy = [o \in Options |-> IF Package[o] = q THEN Absent ELSE @[o]]]
With(p, q) ==      \* uci_load, unless the context has the package
  IF q \in p.loaded THEN p
  ELSE [p EXCEPT !.loaded = @ \cup {q},
                 !.copy = [o \in Options |-> IF Package[o] = q THEN View[o] ELSE @[o]]]

Files == <<committed, staged>>

\* uci_cmd: the command is looked up by its name.
Dispatch(p, k) ==
  [p EXCEPT !.cmd = k, !.status = 0, !.missed = {},
            !.pc = CASE k.name = "commit all" -> "list"
                     [] k.name = "commit" -> "next"
                     [] OTHER -> "lookup",
            !.todo = IF k.name = "commit" THEN <<Package[k.option]>> ELSE <<>>]

\* uci_command_set and the like, with a new context
Call(c) ==
  /\ proc[c].pc = "idle"
  /\ \/ \E k \in Commands : Becomes(c, Dispatch(proc[c], k))
     \/ Becomes(c, [proc[c] EXCEPT !.pc = "read", !.batch = TRUE])
  /\ UNCHANGED Files

\* A batch reads the next command.  A line that cannot be parsed, has too many
\* arguments or none, or names no command changes nothing.
ReadLine(c) ==
  /\ proc[c].pc = "read"
  /\ \/ \E k \in Commands : Becomes(c, Dispatch(proc[c], k))
     \/ Becomes(c, Idle)                \* "exit", or the end of the input
  /\ UNCHANGED Files

\* Mutant of Return: a batch does not unload the packages after a command.
Return_KeepsPackages(c) ==
  /\ proc[c].pc = "return"
  /\ Becomes(c, IF proc[c].batch
                THEN [proc[c] EXCEPT !.pc = "read", !.cmd = NoCommand,
                                     !.status = 0, !.missed = {}]
                ELSE Idle)
  /\ UNCHANGED Files

\* The command is over: its context is freed, in a batch only emptied.
Return(c) ==
  /\ proc[c].pc = "return"
  /\ Becomes(c, IF proc[c].batch THEN [Idle EXCEPT !.pc = "read", !.batch = TRUE]
                ELSE Idle)
  /\ UNCHANGED Files

\* The process ends (external).
Die(c) ==
  /\ proc[c].pc # "idle"
  /\ Becomes(c, Idle)
  /\ UNCHANGED Files

-----------------------------------------------------------------------------
(* uci_do_section_cmd *)

\* uci_lookup_ptr loads the package of the option.
Lookup(c) ==
  LET p == proc[c] IN
  /\ p.pc = "lookup"
  /\ \/ Becomes(c, End(p, 1))
     \/ Becomes(c, Goto(With(p, Package[p.cmd.option]), "apply"))
  /\ UNCHANGED Files

\* An option that is not there cannot be printed.
Get(c) ==
  LET p == proc[c] IN
  /\ p.pc = "apply"
  /\ p.cmd.name = "get"
  /\ Becomes(c, End(p, IF p.copy[p.cmd.option] = Absent THEN 1 ELSE 0))
  /\ UNCHANGED Files

\* uci_set, or uci_delete of an option that is there: in memory only
ChangeCopy(c) ==
  LET p == proc[c]
      o == p.cmd.option IN
  /\ p.pc = "apply"
  /\ p.cmd.name \in {"set", "del"}
  /\ \/ Becomes(c, End(p, 1))
     \/ /\ p.cmd.name = "del" => p.copy[o] # Absent
        /\ Becomes(c, [p EXCEPT !.pc = "save", !.copy[o] = p.cmd.value,
                                !.unsaved = @ \cup {o}])
  /\ UNCHANGED Files

\* uci_revert forgets a staged change.  Its result is not looked at.
Revert(c) ==
  LET p == proc[c] IN
  /\ p.pc = "apply"
  /\ p.cmd.name = "revert"
  /\ \/ staged' = [staged EXCEPT ![p.cmd.option] = Kept]
     \/ UNCHANGED staged
  /\ Becomes(c, End(p, 0))
  /\ UNCHANGED committed

\* The staged changes with the unsaved ones of package q
Saved(p, q) == [o \in Options |-> IF o \in p.unsaved /\ Package[o] = q
                                  THEN p.copy[o] ELSE staged[o]]

\* Mutant of Save: the error of uci_save is not passed on.
Save_Swallows(c) ==
  LET p == proc[c]
      q == Package[p.cmd.option] IN
  /\ p.pc = "save"
  /\ staged' \in {staged, Saved(p, q)}
  /\ Becomes(c, End(p, 0))
  /\ UNCHANGED committed

\* uci_save
Save(c) ==
  LET p == proc[c]
      q == Package[p.cmd.option] IN
  /\ p.pc = "save"
  /\ \/ /\ staged' = Saved(p, q)
        /\ Becomes(c, End([p EXCEPT !.unsaved = {o \in @ : Package[o] # q}], 0))
     \/ /\ UNCHANGED staged
        /\ Becomes(c, End(p, 1))
  /\ UNCHANGED committed

SectionCmd(c) == Lookup(c) \/ Get(c) \/ ChangeCopy(c) \/ Revert(c) \/ Save(c)

-----------------------------------------------------------------------------
(* uci_do_package_cmd and package_cmd, for commit *)

ListConfigs(c) ==
  LET p == proc[c] IN
  /\ p.pc = "list"
  /\ \/ Becomes(c, End(p, 1))
     \/ Becomes(c, [p EXCEPT !.pc = "next", !.todo = Configs])
  /\ UNCHANGED Files

\* The package at the head of todo is done with; its failure counts only if it
\* is the only one asked for.
Through(p, failed) ==
  [p EXCEPT !.todo = Tail(@), !.pc = IF Len(p.todo) = 1 THEN "return" ELSE "next",
            !.missed = IF failed THEN @ \cup {Head(p.todo)} ELSE @]

\* Mutant of NextPackage: the first package that cannot be loaded ends it.
NextPackage_Stops(c) ==
  LET p == proc[c] IN
  /\ p.pc = "next"
  /\ \/ Becomes(c, End([p EXCEPT !.missed = {Head(p.todo)}, !.todo = <<>>], 0))
     \/ Becomes(c, Goto(With(p, Head(p.todo)), "commit"))
  /\ UNCHANGED Files

\* uci_lookup_ptr of the next package
NextPackage(c) ==
  LET p == proc[c] IN
  /\ p.pc = "next"
  /\ \/ Becomes(c, [Through(p, TRUE) EXCEPT
                      !.status = IF p.cmd.name = "commit" THEN 1 ELSE 0])
     \/ Becomes(c, Goto(With(p, Head(p.todo)), "commit"))
  /\ UNCHANGED Files

\* Mutant of Commit: uci_commit with overwrite, from the copy in memory.
Commit_Overwrites(c) ==
  LET p == proc[c]
      q == Head(p.todo) IN
  /\ p.pc = "commit"
  /\ \/ /\ committed' = [o \in Options |-> IF Package[o] # q THEN committed[o]
                           ELSE IF staged[o] = Kept THEN p.copy[o] ELSE staged[o]]
        /\ staged' = [o \in Options |-> IF Package[o] = q THEN Kept ELSE staged[o]]
        /\ Becomes(c, Without(Through(p, FALSE), q))
     \/ /\ Becomes(c, Without(Through(p, TRUE), q))
        /\ UNCHANGED Files

\* uci_commit saves what is unsaved, reads the file again and applies all that
\* is staged by then, by whomever.  That it fails is printed and forgotten.
Commit(c) ==
  LET p == proc[c]
      q == Head(p.todo)
      all == Saved(p, q) IN
  /\ p.pc = "commit"
  /\ \/ /\ committed' = [o \in Options |-> IF Package[o] = q /\ all[o] # Kept
                                           THEN all[o] ELSE committed[o]]
        /\ staged' = [o \in Options |-> IF Package[o] = q THEN Kept ELSE staged[o]]
        /\ Becomes(c, Without(Through(p, FALSE), q))
     \/ /\ Becomes(c, Without(Through(p, TRUE), q))
        /\ UNCHANGED Files

PackageCmd(c) == ListConfigs(c) \/ NextPackage(c) \/ Commit(c)

-----------------------------------------------------------------------------

\* The history variables follow every step.
Observe ==
  LET starts(c) == proc'[c].pc \in {"lookup", "list", "next"}
                   /\ proc[c].pc \in {"idle", "read"}
      reads(c) == proc'[c].pc \in {"lookup", "apply"} /\ proc'[c].cmd.name = "get"
      commits(c) == proc'[c].pc \in {"list", "next", "commit", "return"}
                    /\ proc'[c].cmd.name \in {"commit", "commit all"} IN
  /\ owed' = [c \in Procs |-> IF ~commits(c) THEN {}
                ELSE IF ~starts(c) THEN owed[c] \cap Staged'
                ELSE {o \in Staged' : proc'[c].cmd.name = "commit" =>
                                       Package[o] = Head(proc'[c].todo)}]
  /\ since' = [c \in Procs |-> IF ~reads(c) THEN {}
                 ELSE {View'[proc'[c].cmd.option]} \cup IF starts(c) THEN {} ELSE since[c]]

Run(c) == ReadLine(c) \/ SectionCmd(c) \/ PackageCmd(c) \/ Return(c)

Next == (\E c \in Procs : Call(c) \/ Run(c) \/ Die(c)) /\ Observe

Spec == Init /\ [][Next]_vars

-----------------------------------------------------------------------------
(* Properties. *)

TypeOK ==
  /\ committed \in [Options -> Contents]
  /\ staged \in [Options -> Contents \cup {Kept}]
  /\ proc \in [Procs -> Process]
  /\ owed \in [Procs -> SUBSET Options]
  /\ since \in [Procs -> SUBSET Contents]

\* REFINEMENT.  However the commands of several processes interleave, fail or
\* are cut short, a change is seen at once and alone, and only a commit puts
\* it, with all that is seen of its package, in force.
Store == INSTANCE UciStore WITH seen <- View, inForce <- committed
StoreSpec == Store!Spec

TellsTheTruth ==
  \A c \in Procs :
    proc[c].pc = "save" /\ proc'[c].pc = "return" =>
      staged' = IF proc'[c].status = 0
                THEN [staged EXCEPT ![proc[c].cmd.option] = proc[c].cmd.value]
                ELSE staged

\* ACTION.  A set or del stages its own change if it reports success, and
\* nothing at all if it reports failure, also nothing an earlier line of the
\* batch has left in memory.
StatusIsTrue == [][TellsTheTruth]_vars

\* SAFETY.  When a commit returns 0, everything that was staged when it was
\* called is in force, except in packages that failed.
CommitTakesAll ==
  \A c \in Procs :
    /\ proc[c].pc = "return"
    /\ proc[c].cmd.name \in {"commit", "commit all"}
    /\ proc[c].status = 0
    => \A o \in owed[c] : Package[o] \in proc[c].missed

\* SAFETY.  What get prints is what the option held at some moment between the
\* call and the answer.
AnswerIsCurrent ==
  \A c \in Procs :
    proc[c].pc = "apply" /\ proc[c].cmd.name = "get" =>
      proc[c].copy[proc[c].cmd.option] \in since[c]
=============================================================================
