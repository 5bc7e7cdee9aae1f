----------------------------- MODULE CommandLog -----------------------------
(***************************************************************************)
(* What cmd_queue promises: the commands of a connection are accepted in   *)
(* the order in which they arrive on it, and every accepted command is     *)
(* handled once, in the order of acceptance.  The promise is void from the *)
(* moment at which the unsynchronised accesses to the deque collide, which *)
(* one push is enough for, but only while it is under way.                 *)
(***************************************************************************)
EXTENDS Sequences

CONSTANTS
  Writers,      \* the threads that push
  Script,       \* Script[w]: the commands w has to push
  Initial       \* the elements the queue is created with

VARIABLES
  left,         \* left[w]: commands w has still to push
  pushing,      \* threads in a push that has begun and is not finished
  pending,      \* accepted and not yet handled, next one first
  handled,      \* handled, first one first
  void          \* the promise no longer holds

logVars == <<left, pushing, pending, handled, void>>

Init ==
  /\ left = Script
  /\ pushing = {}
  /\ pending = Initial
  /\ handled = <<>>
  /\ void = FALSE

Begin(w) ==
  /\ w \notin pushing
  /\ left[w] # <<>>
  /\ pushing' = pushing \cup {w}
  /\ UNCHANGED <<left, pending, handled, void>>

Accept(w) ==
  /\ w \in pushing
  /\ left[w] # <<>>
  /\ left' = [left EXCEPT ![w] = Tail(@)]
  /\ pending' = Append(pending, Head(left[w]))
  /\ pushing' = pushing \ {w}
  /\ UNCHANGED <<handled, void>>

Handle ==
  /\ pending # <<>>
  /\ pending' = Tail(pending)
  /\ handled' = Append(handled, Head(pending))
  /\ UNCHANGED <<left, pushing, void>>

\* From here on anything may happen.
Void == void' = TRUE /\ (void \/ pushing' # {})

Next == Void \/ (~void /\ (Handle \/ \E w \in Writers : Begin(w) \/ Accept(w)))

Spec == Init /\ [][Next]_logVars
=============================================================================
