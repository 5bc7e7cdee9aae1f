------------------------------ MODULE UciStore ------------------------------
(***************************************************************************)
(* What uci's settings look like to those who use the client: every option *)
(* has a value that is seen and one that is in force.  A change is seen at *)
(* once and alone; a commit puts everything that is seen of one package in *)
(* force, and nothing else ever does.                                      *)
(***************************************************************************)
CONSTANTS
  Options,      \* names of options
  Package,      \* Package[o]: the package option o belongs to
  Contents      \* what an option can hold, absence included

VARIABLES
  seen,         \* seen[o]: what "get" answers
  inForce       \* inForce[o]: what the configuration file says

Init == seen \in [Options -> Contents] /\ inForce = seen

Change(o) ==
  /\ \E v \in Contents : seen' = [seen EXCEPT ![o] = v]
  /\ UNCHANGED inForce

Commit(p) ==
  /\ inForce' = [o \in Options |-> IF Package[o] = p THEN seen[o] ELSE inForce[o]]
  /\ UNCHANGED seen

Next == \E o \in Options : Change(o) \/ Commit(Package[o])

Spec == Init /\ [][Next]_<<seen, inForce>>
=============================================================================
