---------------------------- MODULE CommandQueue ----------------------------
(***************************************************************************)
(* cmd_queue, a std::deque<string> shared without a lock by the connection *)
(* threads (cmd_input_func, push_front) and the thread that empties it     *)
(* (cmd_poll_func, back and pop_back).                                     *)
(*                                                                         *)
(* The deque is modelled as libstdc++ builds it: the elements are at the   *)
(* positions start .. finish-1, stored in nodes of NodeCap positions.      *)
(* A push into a new node moves start before the element is constructed;   *)
(* within a node the code constructs it first, but nothing keeps compiler  *)
(* and processor from showing the two stores to the other thread the other *)
(* way round.  Every access to start, finish or a cell is a step.          *)
(***************************************************************************)
EXTENDS Integers, Sequences

CONSTANTS
  Writers,      \* connection threads
  Script,       \* Script[w]: the commands thread w reads from its socket
  Kind,         \* Kind[m]: what cmd_poll_func takes command m for
  Package,      \* Package[m]: the configuration package uci command m changes
  NodeCap,      \* elements per node
  Depth,        \* bound: pushes in a behaviour
  Blank,        \* "", the value of the elements cmd_queue(3) makes
  Raw           \* memory without a string in it

Commands == UNION {{Script[w][k] : k \in 1 .. Len(Script[w])} : w \in Writers}
Strings == Commands \cup {Blank}
Positions == -Depth .. 2

ASSUME QueueAssumption ==
  /\ Script \in [Writers -> Seq(Commands)]
  /\ \A m \in Strings : Kind[m] \in {"other", "uci", "txpower", "bad_txpower"}
  /\ Kind[Blank] = "other"
  /\ Raw \notin Strings
  /\ Blank \notin Commands
  /\ NodeCap \in Nat \ {0}
  /\ Depth \in Nat

VARIABLES
  cells,        \* the strings in the deque's memory, by position
  start,        \* _M_start._M_cur
  finish,       \* _M_finish._M_cur
  wpc,          \* wpc[w]: how far thread w is in push_front
  view,         \* view[w]: the value of start w works with
  left,         \* left[w]: commands w has still to push
  ppc,          \* program counter of cmd_poll_func
  uci,          \* its local copy of the element taken
  isDequeued,   \* its flag: something is to be committed
  staged,       \* uci commands run since the last commit that worked
  saved,        \* uci commands that have been committed
  active,       \* uci commands the network was reloaded with
  terminated,   \* the process has been killed
  handled,      \* history: what the poller acted upon, in order
  round,        \* history: commands acted upon since the poller woke
  commitFailed, \* history: packages the last "uci commit" left uncommitted
  reloadFailed, \* history: the last reload of the network failed
  clash         \* history: accesses to the deque have collided

dequeVars == <<cells, start, finish>>
writerVars == <<wpc, view, left>>
configVars == <<staged, saved, active, round, commitFailed, reloadFailed>>
pollerVars == <<ppc, uci, isDequeued>>
vars == <<dequeVars, writerVars, pollerVars, configVars, terminated, handled,
          clash>>

At(p) == IF p \in Positions THEN cells[p] ELSE Raw

Init ==
  /\ cells = [p \in Positions |-> IF p \in 0 .. 2 THEN Blank ELSE Raw]
  /\ start = 0
  /\ finish = 3
  /\ wpc = [w \in Writers |-> "read"]
  /\ view = [w \in Writers |-> 0]
  /\ left = Script
  /\ ppc = "check"
  /\ uci = Blank
  /\ isDequeued = FALSE
  /\ staged = {}
  /\ saved = {}
  /\ active = {}
  /\ terminated = FALSE
  /\ handled = <<>>
  /\ round = {}
  /\ commitFailed = {}
  /\ reloadFailed = FALSE
  /\ clash = FALSE

-----------------------------------------------------------------------------
(* cmd_queue.push_front() in a connection thread. *)

\* Is p the first position of a node?
NodeFirst(p) == p % NodeCap = 0

\* Is a push into a new node under way?
Linking(w) == wpc[w] \in {"construct", "publish", "fill"} /\ NodeFirst(view[w])

\* push_front reads start.  It collides with a push of another thread, and at
\* the border of a node with a pop at such a border: both change the node map.
PushBegin(w) ==
  /\ ~terminated
  /\ wpc[w] = "read"
  /\ left[w] # <<>>
  /\ start > -Depth
  /\ view' = [view EXCEPT ![w] = start]
  /\ \E pc \in IF NodeFirst(start) THEN {"publish"} ELSE {"construct", "publish"} :
       wpc' = [wpc EXCEPT ![w] = pc]
  /\ clash' = \/ clash
              \/ \E x \in Writers : wpc[x] # "read"
              \/ NodeFirst(start) /\ ppc = "pop" /\ NodeFirst(finish)
  /\ UNCHANGED <<dequeVars, left, pollerVars, configVars, terminated, handled>>

\* The element is constructed in front of start.
Construct(w) ==
  /\ ~terminated
  /\ wpc[w] = "construct"
  /\ cells' = [cells EXCEPT ![view[w] - 1] = Head(left[w])]
  /\ wpc' = [wpc EXCEPT ![w] = "move"]
  /\ UNCHANGED <<start, finish, view, left, pollerVars, configVars, terminated,
                 handled, clash>>

\* Mutant of Move: the element is constructed, but start stays.
Move_Forgotten(w) ==
  /\ ~terminated
  /\ wpc[w] = "move"
  /\ left' = [left EXCEPT ![w] = Tail(@)]
  /\ wpc' = [wpc EXCEPT ![w] = "read"]
  /\ UNCHANGED <<cells, start, finish, view, pollerVars, configVars, terminated,
                 handled, clash>>

\* start moves, decremented in memory or from the value read before: with that
\* the element is in the queue.
Move(w) ==
  /\ ~terminated
  /\ wpc[w] = "move"
  /\ start' \in {start - 1, view[w] - 1}
  /\ left' = [left EXCEPT ![w] = Tail(@)]
  /\ wpc' = [wpc EXCEPT ![w] = "read"]
  /\ UNCHANGED <<cells, finish, view, pollerVars, configVars, terminated,
                 handled, clash>>

\* The other order: start moves ...
Publish(w) ==
  /\ ~terminated
  /\ wpc[w] = "publish"
  /\ start' \in {start - 1, view[w] - 1}
  /\ wpc' = [wpc EXCEPT ![w] = "fill"]
  /\ UNCHANGED <<cells, finish, view, left, pollerVars, configVars, terminated,
                 handled, clash>>

\* ... and then the element is constructed.
Fill(w) ==
  /\ ~terminated
  /\ wpc[w] = "fill"
  /\ \E p \in {start, view[w] - 1} :
       cells' = [cells EXCEPT ![p] = Head(left[w])]
  /\ left' = [left EXCEPT ![w] = Tail(@)]
  /\ wpc' = [wpc EXCEPT ![w] = "read"]
  /\ UNCHANGED <<start, finish, view, pollerVars, configVars, terminated,
                 handled, clash>>

-----------------------------------------------------------------------------
(* cmd_poll_func() *)

\* Mutant of CheckEmpty: do { ... } while, the queue is not looked at first.
CheckEmpty_DoWhile ==
  /\ ~terminated
  /\ ppc = "check"
  /\ ppc' = "take"
  /\ UNCHANGED <<dequeVars, writerVars, uci, isDequeued, configVars,
                 terminated, handled, clash>>

\* while (!cmd_queue.empty()), and what follows the loop
CheckEmpty ==
  /\ ~terminated
  /\ ppc = "check"
  /\ ppc' = IF start # finish THEN "take"
            ELSE IF isDequeued THEN "commit" ELSE "sleep"
  /\ UNCHANGED <<dequeVars, writerVars, uci, isDequeued, configVars,
                 terminated, handled, clash>>

\* Mutant of Take: whatever is in the cell is taken for a string.
Take_Raw ==
  /\ ~terminated
  /\ ppc = "take"
  /\ uci' = At(finish - 1)
  /\ ppc' = "pop"
  /\ UNCHANGED <<dequeVars, writerVars, isDequeued, configVars, terminated,
                 handled, clash>>

\* Mutant of Take: front() instead of back().
Take_Front ==
  /\ ~terminated
  /\ ppc = "take"
  /\ At(start) # Raw
  /\ uci' = At(start)
  /\ ppc' = "pop"
  /\ UNCHANGED <<dequeVars, writerVars, isDequeued, configVars, terminated,
                 handled, clash>>

\* uci = cmd_queue.back().  Copying raw memory yields what happens to be there:
\* an empty string, one that was there before, or a fault.
Take ==
  /\ ~terminated
  /\ ppc = "take"
  /\ IF At(finish - 1) # Raw
     THEN /\ uci' = At(finish - 1)
          /\ ppc' = "pop"
          /\ UNCHANGED <<terminated, clash>>
     ELSE /\ \/ terminated' = TRUE /\ UNCHANGED <<uci, ppc>>
             \/ /\ finish - 1 \in Positions
                /\ \E m \in {Blank} \cup {handled[k] : k \in 1 .. Len(handled)} :
                     uci' = m
                /\ ppc' = "pop"
                /\ UNCHANGED terminated
          /\ clash' = TRUE
  /\ UNCHANGED <<dequeVars, writerVars, isDequeued, configVars, handled>>

\* cmd_queue.pop_back() destroys the element and moves finish; at the border
\* of a node it also changes the node map.
PopBack ==
  /\ ~terminated
  /\ ppc = "pop"
  /\ finish' = finish - 1
  /\ cells' = [cells EXCEPT ![finish - 1] = Raw]
  /\ ppc' = "run"
  /\ clash' = \/ clash
              \/ NodeFirst(finish) /\ \E w \in Writers : Linking(w)
  /\ IF clash' THEN terminated' \in BOOLEAN ELSE UNCHANGED terminated
  /\ UNCHANGED <<start, writerVars, uci, isDequeued, configVars, handled>>

\* Mutant of Run: only a power sets isDequeued.
Run_FlagForPower ==
  /\ ~terminated
  /\ ppc = "run"
  /\ handled' = Append(handled, uci)
  /\ round' = round \cup {uci}
  /\ isDequeued' = (isDequeued \/ Kind[uci] \in {"txpower", "bad_txpower"})
  /\ IF Kind[uci] = "uci"
     THEN staged' \in {staged, staged \cup {uci}}
     ELSE UNCHANGED staged
  /\ terminated' = (Kind[uci] = "bad_txpower")
  /\ ppc' = "check"
  /\ UNCHANGED <<dequeVars, writerVars, uci, saved, active, commitFailed,
                 reloadFailed, clash>>

\* The command is acted upon: a shell command that stages a setting (and may
\* fail), a transmit power, or nothing.  stoi() of a malformed power throws,
\* and nothing catches it.
Run ==
  /\ ~terminated
  /\ ppc = "run"
  /\ handled' = Append(handled, uci)
  /\ round' = round \cup {uci}
  /\ isDequeued' = (isDequeued \/ Kind[uci] # "other")
  /\ IF Kind[uci] = "uci"
     THEN staged' \in {staged, staged \cup {uci}}
     ELSE UNCHANGED staged
  /\ terminated' = (Kind[uci] = "bad_txpower")
  /\ ppc' = "check"
  /\ UNCHANGED <<dequeVars, writerVars, uci, saved, active, commitFailed,
                 reloadFailed, clash>>

\* system("uci commit") commits package by package; that it could not commit
\* one, or none, goes unnoticed.
Commit ==
  /\ ~terminated
  /\ ppc = "commit"
  /\ \E failed \in SUBSET {Package[m] : m \in staged} :
       /\ saved' = saved \cup {m \in staged : Package[m] \notin failed}
       /\ staged' = {m \in staged : Package[m] \in failed}
       /\ commitFailed' = failed
  /\ ppc' = "reload"
  /\ UNCHANGED <<dequeVars, writerVars, uci, isDequeued, active, round,
                 reloadFailed, terminated, handled, clash>>

\* system("ubus call network reload"), whose failure goes unnoticed too.
Reload ==
  /\ ~terminated
  /\ ppc = "reload"
  /\ \/ active' = saved /\ reloadFailed' = FALSE
     \/ reloadFailed' = TRUE /\ UNCHANGED active
  /\ ppc' = "sleep"
  /\ UNCHANGED <<dequeVars, writerVars, uci, isDequeued, staged, saved, round,
                 commitFailed, terminated, handled, clash>>

\* sleep(5) is over; the flag is a local of the outer loop's body.
Wake ==
  /\ ~terminated
  /\ ppc = "sleep"
  /\ isDequeued' = FALSE
  /\ round' = {}
  /\ ppc' = "check"
  /\ UNCHANGED <<dequeVars, writerVars, uci, staged, saved, active, commitFailed,
                 reloadFailed, terminated, handled, clash>>

-----------------------------------------------------------------------------

Push(w) == PushBegin(w) \/ Construct(w) \/ Move(w) \/ Publish(w) \/ Fill(w)
Poll == CheckEmpty \/ Take \/ PopBack \/ Run \/ Commit \/ Reload \/ Wake

Next == Poll \/ \E w \in Writers : Push(w)

Spec == Init /\ [][Next]_vars

\* Both kinds of thread are scheduled: a push that has begun is finished.
\* Clients are not obliged to write.
FairSpec ==
  /\ Spec
  /\ WF_vars(Poll)
  /\ \A w \in Writers : WF_vars(Construct(w) \/ Move(w) \/ Publish(w) \/ Fill(w))

-----------------------------------------------------------------------------
(* Properties. *)

TypeOK ==
  /\ cells \in [Positions -> Strings \cup {Raw}]
  /\ start \in Int
  /\ finish \in Int
  /\ wpc \in [Writers -> {"read", "construct", "move", "publish", "fill"}]
  /\ view \in [Writers -> Int]
  /\ left \in [Writers -> Seq(Commands)]
  /\ ppc \in {"check", "take", "pop", "run", "commit", "reload", "sleep"}
  /\ uci \in Strings
  /\ isDequeued \in BOOLEAN
  /\ staged \subseteq Commands
  /\ saved \subseteq Commands
  /\ active \subseteq Commands
  /\ terminated \in BOOLEAN
  /\ handled \in Seq(Strings)
  /\ round \subseteq Strings
  /\ commitFailed \subseteq {Package[m] : m \in Commands}
  /\ reloadFailed \in BOOLEAN
  /\ clash \in BOOLEAN

\* An element is in the queue when start has moved and its cell is filled; the
\* one the poller has popped is pending until it is acted upon.
Holes == IF \E w \in Writers : wpc[w] = "fill" THEN 1 ELSE 0
Queue == [k \in 1 .. finish - start - Holes |-> At(finish - k)]
Pending == IF ppc = "run" THEN <<uci>> \o Queue ELSE Queue

\* SAFETY (refinement).  Until accesses collide, the deque with all its
\* interleavings is a first-in first-out queue: nothing is lost, doubled or
\* reordered between the sockets and the handler.  They collide only while a
\* push is under way.
Log == INSTANCE CommandLog WITH
         Initial <- <<Blank, Blank, Blank>>, pending <- Pending, void <- clash,
         pushing <- {w \in Writers : wpc[w] # "read"}
FirstInFirstOut == Log!Spec

\* Settings the last "uci commit" left behind.
LeftBehind == {m \in Commands : Package[m] \in commitFailed}

\* SAFETY.  The poller does not forget what it has staged: it goes to sleep with
\* nothing uncommitted but what the commit could not do, and the network runs
\* with all that is committed, unless the reload failed.  So even a command the
\* process dies of loses no setting but those of its own round, for which
\* nothing has been committed yet.
NothingForgotten ==
  /\ staged \subseteq LeftBehind \cup round
  /\ ppc = "sleep" => staged \subseteq LeftBehind
  /\ ppc # "reload" => active = saved \/ reloadFailed

\* SAFETY.  The poller is never about to copy raw memory out of the queue,
\* unless it has caught up with the one push whose element is published and not
\* yet constructed: a queue that holds something older is safe.
OnlyNewestAtRisk ==
  ppc = "take" /\ At(finish - 1) = Raw =>
    clash \/ (finish - 1 = start /\ \E w \in Writers : wpc[w] = "fill")

Pushing(m) ==
  \E w \in Writers : wpc[w] # "read" /\ left[w] # <<>> /\ Head(left[w]) = m
Done(m) == \E k \in 1 .. Len(handled) : handled[k] = m

\* LIVENESS.  A command that has been read from a socket is acted upon.
Handled ==
  \A m \in Commands : Pushing(m) ~> (Done(m) \/ clash \/ terminated)

\* LIVENESS.  A setting that has been staged becomes active, unless the commit of
\* its package or the reload fails or the process dies first.
Activated ==
  \A m \in Commands : (m \in staged) ~>
    \/ m \in active
    \/ Package[m] \in commitFailed \/ reloadFailed
    \/ clash \/ terminated
=============================================================================
