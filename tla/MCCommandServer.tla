-------------------------- MODULE MCCommandServer --------------------------
(* Constants for checking CommandServer: c1 sends a message of two reads,   *)
(* of which the first fills the buffer, and if c1 is in Filling the second  *)
(* as well; the others send one of a single read.                           *)
EXTENDS CommandServer, TLC

CONSTANT c1

MCChunks == [c \in Senders |-> IF c = c1 THEN 2 ELSE 1]

\* Descriptor numbers, and the senders other than c1, are interchangeable.
Symmetry == Permutations(Fds) \cup Permutations(Senders \ {c1})

\* Where the safety properties promise something: not after a scan has
\* overflowed, and when the process has exited, nothing of it moves any more.
Promised == ~overflow /\ srv # "exited"
=============================================================================
