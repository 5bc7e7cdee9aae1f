------------------------- MODULE CommandQueueProofs -------------------------
(***************************************************************************)
(* Proofs about CommandQueue for every number of connections, every script,*)
(* every node size and every bound on the pushes.  The inductive invariant *)
(* has two parts that hold whatever the threads do,                        *)
(*   PushInv     a thread inside push_front has a command to push;         *)
(*   ConfigInv   what is staged, saved and active at each place of the     *)
(*               poller, and by which round;                               *)
(* and one that holds until accesses collide:                              *)
(*   MemoryInv   one push at a time, where start and finish are, which     *)
(*               cells hold strings, and what the poller has in its hand.  *)
(***************************************************************************)
EXTENDS CommandQueue, TLAPS, SequenceTheorems

\* A push that has begun has a command to push.
PushInv == \A w \in Writers : wpc[w] # "read" => left[w] # <<>>

\* Staged settings are of this round or left behind by a commit; those of this
\* round await theirs.  Only between commit and reload does the network run with
\* older settings, unless the reload failed.
ConfigInv ==
  /\ staged \subseteq LeftBehind \cup round
  /\ \/ staged \subseteq LeftBehind
     \/ isDequeued /\ ppc \in {"check", "take", "pop", "run", "commit"}
  /\ ppc # "reload" => active = saved \/ reloadFailed

OnePush ==
  \A w, x \in Writers : wpc[w] # "read" /\ wpc[x] # "read" => w = x

Ends ==
  /\ start \in -Depth .. 0
  /\ finish \in start .. 3

\* Where a push is, start is where it has left it.
ViewInv ==
  \A w \in Writers :
    /\ wpc[w] \in {"construct", "move", "publish"} =>
         view[w] = start /\ start > -Depth
    /\ wpc[w] = "fill" => view[w] = start + 1 /\ start < finish

\* Strings are where elements are, and in the cell just constructed in front of
\* them; the cell just published and not yet constructed is raw.
CellsInv ==
  /\ \A p \in start .. finish - 1 :
       cells[p] = Raw => p = start /\ \E w \in Writers : wpc[w] = "fill"
  /\ \A w \in Writers : wpc[w] = "fill" => cells[start] = Raw
  /\ \A w \in Writers : wpc[w] = "move" => cells[start - 1] = Head(left[w])
  /\ \A p \in Positions :
       p < start /\ cells[p] # Raw =>
         p = start - 1 /\ \E w \in Writers : wpc[w] = "move"

\* The poller takes what is there, and what it has taken is still there.
TakenInv ==
  /\ ppc = "take" => start < finish
  /\ ppc = "pop" => /\ start < finish
                    /\ uci = cells[finish - 1]
                    /\ uci # Raw

MemoryInv == OnePush /\ Ends /\ ViewInv /\ CellsInv /\ TakenInv

IInv ==
  /\ TypeOK
  /\ PushInv
  /\ ConfigInv
  /\ ~clash => MemoryInv

-----------------------------------------------------------------------------
(* What holds whatever the threads do. *)

LEMMA FirstCommand ==
  ASSUME NEW s \in Seq(Commands), s # <<>>
  PROVE  Head(s) \in Commands /\ Head(s) \in Strings /\ Tail(s) \in Seq(Commands)
BY HeadTailProperties DEF Strings

LEMMA BlankAndRaw ==
  /\ Blank \in Strings
  /\ Commands \subseteq Strings
  /\ Raw \notin Strings
  /\ \A m \in Strings : Kind[m] # "other" => m \in Commands
BY QueueAssumption DEF Strings

\* Every step of a push keeps the types and leaves a command for the next one.
LEMMA PushTypes ==
  ASSUME TypeOK, PushInv, NEW w \in Writers, Push(w)
  PROVE  TypeOK' /\ PushInv'
<1>1. left[w] \in Seq(Commands) /\ view[w] \in Int /\ start \in Int
  BY DEF TypeOK
<1>2. ASSUME PushBegin(w) PROVE TypeOK' /\ PushInv'
  <2>1. clash' \in BOOLEAN
    BY <1>2, Zenon DEF PushBegin, TypeOK
  <2>2. wpc' \in [Writers -> {"read", "construct", "move", "publish", "fill"}]
    BY <1>2 DEF PushBegin, TypeOK
  <2>3. PushInv'
    BY <1>2 DEF PushBegin, TypeOK, PushInv
  <2> QED
    BY <1>2, <2>1, <2>2, <2>3 DEF PushBegin, TypeOK, dequeVars, pollerVars, configVars
<1>3. ASSUME Construct(w) PROVE TypeOK' /\ PushInv'
  <2>1. Head(left[w]) \in Strings
    BY <1>1, <1>3, FirstCommand DEF Construct, PushInv
  <2>2. cells' \in [Positions -> Strings \cup {Raw}]
    BY <1>3, <2>1 DEF Construct, TypeOK
  <2> QED
    BY <1>3, <2>2 DEF Construct, TypeOK, PushInv, pollerVars, configVars
<1>4. ASSUME Move(w) PROVE TypeOK' /\ PushInv'
  <2>1. Tail(left[w]) \in Seq(Commands)
    BY <1>1, <1>4, FirstCommand DEF Move, PushInv
  <2>2. start' \in Int
    BY <1>1, <1>4 DEF Move
  <2> QED
    BY <1>4, <2>1, <2>2 DEF Move, TypeOK, PushInv, pollerVars, configVars
<1>5. ASSUME Publish(w) PROVE TypeOK' /\ PushInv'
  <2>1. start' \in Int
    BY <1>1, <1>5 DEF Publish
  <2> QED
    BY <1>5, <2>1 DEF Publish, TypeOK, PushInv, pollerVars, configVars
<1>6. ASSUME Fill(w) PROVE TypeOK' /\ PushInv'
  <2>1. Head(left[w]) \in Strings /\ Tail(left[w]) \in Seq(Commands)
    BY <1>1, <1>6, FirstCommand DEF Fill, PushInv
  <2>2. cells' \in [Positions -> Strings \cup {Raw}]
    BY <1>6, <2>1 DEF Fill, TypeOK
  <2> QED
    BY <1>6, <2>1, <2>2 DEF Fill, TypeOK, PushInv, pollerVars, configVars
<1> QED
  BY <1>2, <1>3, <1>4, <1>5, <1>6 DEF Push

\* So does every step of the poller.
LEMMA PollTypes ==
  ASSUME TypeOK, PushInv, Poll
  PROVE  TypeOK' /\ PushInv'
<1> USE DEF dequeVars, writerVars, configVars
<1>1. ASSUME CheckEmpty PROVE TypeOK' /\ PushInv'
  BY <1>1 DEF CheckEmpty, TypeOK, PushInv
<1>2. ASSUME Take PROVE TypeOK' /\ PushInv'
  <2>1. uci' \in Strings
    BY <1>2, BlankAndRaw, ElementOfSeq DEF Take, At, TypeOK
  <2>2. terminated' \in BOOLEAN /\ clash' \in BOOLEAN
    BY <1>2 DEF Take, TypeOK
  <2>3. ppc' \in {"take", "pop"}
    BY <1>2 DEF Take
  <2> QED
    BY <1>2, <2>1, <2>2, <2>3 DEF Take, TypeOK, PushInv
<1>3. ASSUME PopBack PROVE TypeOK' /\ PushInv'
  <2>1. terminated' \in BOOLEAN
    BY <1>3, Zenon DEF PopBack, TypeOK
  <2>2. clash' \in BOOLEAN
    BY <1>3, Zenon DEF PopBack, TypeOK
  <2>3. cells' \in [Positions -> Strings \cup {Raw}]
    BY <1>3 DEF PopBack, TypeOK
  <2> QED
    BY <1>3, <2>1, <2>2, <2>3 DEF PopBack, TypeOK, PushInv
<1>4. ASSUME Run PROVE TypeOK' /\ PushInv'
  <2>1. handled' \in Seq(Strings)
    BY <1>4, AppendProperties DEF Run, TypeOK
  <2>2. staged' \subseteq Commands
    BY <1>4, BlankAndRaw DEF Run, TypeOK
  <2>3. isDequeued' \in BOOLEAN /\ terminated' \in BOOLEAN
    BY <1>4, Zenon DEF Run, TypeOK
  <2>4. round' \subseteq Strings
    BY <1>4 DEF Run, TypeOK
  <2> QED
    BY <1>4, <2>1, <2>2, <2>3, <2>4 DEF Run, TypeOK, PushInv
<1>5. ASSUME Commit PROVE TypeOK' /\ PushInv'
  <2>1. PICK failed \in SUBSET {Package[m] : m \in staged} :
          /\ saved' = saved \cup {m \in staged : Package[m] \notin failed}
          /\ staged' = {m \in staged : Package[m] \in failed}
          /\ commitFailed' = failed
    BY <1>5 DEF Commit
  <2>2. saved' \subseteq Commands /\ staged' \subseteq Commands
    BY <2>1 DEF TypeOK
  <2>3. commitFailed' \subseteq {Package[m] : m \in Commands}
    BY <2>1 DEF TypeOK
  <2> QED
    BY <1>5, <2>2, <2>3 DEF Commit, TypeOK, PushInv
<1>6. ASSUME Reload PROVE TypeOK' /\ PushInv'
  BY <1>6 DEF Reload, TypeOK, PushInv
<1>7. ASSUME Wake PROVE TypeOK' /\ PushInv'
  BY <1>7 DEF Wake, TypeOK, PushInv
<1> QED
  BY <1>1, <1>2, <1>3, <1>4, <1>5, <1>6, <1>7 DEF Poll

\* A setting is staged by a command that sets the flag, and the flag leads to
\* the commit.
LEMMA ConfigStep ==
  ASSUME TypeOK, ConfigInv, Next
  PROVE  ConfigInv'
<1> USE DEF ConfigInv
<1>1. ASSUME NEW w \in Writers, Push(w) PROVE ConfigInv'
  BY <1>1 DEF Push, PushBegin, Construct, Move, Publish, Fill, pollerVars, configVars,
     LeftBehind
<1>2. ASSUME CheckEmpty PROVE ConfigInv'
  BY <1>2 DEF CheckEmpty, configVars, LeftBehind
<1>3. ASSUME Take PROVE ConfigInv'
  BY <1>3 DEF Take, configVars, LeftBehind
<1>4. ASSUME PopBack PROVE ConfigInv'
  BY <1>4 DEF PopBack, configVars, LeftBehind
<1>5. ASSUME Run PROVE ConfigInv'
  <2>1. CASE Kind[uci] = "uci"
    BY <1>5, <2>1 DEF Run, LeftBehind
  <2>2. CASE Kind[uci] # "uci"
    BY <1>5, <2>2 DEF Run, LeftBehind
  <2> QED
    BY <2>1, <2>2
<1>6. ASSUME Commit PROVE ConfigInv'
  <2>1. staged' \subseteq LeftBehind'
    BY <1>6 DEF Commit, LeftBehind, TypeOK
  <2> QED
    BY <1>6, <2>1 DEF Commit
<1>7. ASSUME Reload PROVE ConfigInv'
  BY <1>7 DEF Reload, LeftBehind
<1>8. ASSUME Wake PROVE ConfigInv'
  BY <1>8 DEF Wake, LeftBehind
<1> QED
  BY <1>1, <1>2, <1>3, <1>4, <1>5, <1>6, <1>7, <1>8 DEF Next, Poll

\* Once accesses have collided, they have.
LEMMA ClashStays ==
  ASSUME clash, Next
  PROVE  clash'
BY DEF Next, Poll, Push, PushBegin, Construct, Move, Publish, Fill, CheckEmpty,
       Take, PopBack, Run, Commit, Reload, Wake

-----------------------------------------------------------------------------
(* The deque's memory, until accesses collide. *)

\* What the parts of the state are made of, for arithmetic.
LEMMA MemoryTypes ==
  ASSUME TypeOK, Ends
  PROVE  /\ start \in Int /\ finish \in Int /\ Depth \in Nat
         /\ -Depth <= start /\ start <= 0 /\ start <= finish /\ finish <= 3
         /\ \A p \in Int : p \in Positions <=> -Depth <= p /\ p <= 2
         /\ \A p \in Positions : p \in Int
         /\ \A p \in start .. finish - 1 : p \in Positions
         /\ cells \in [Positions -> Strings \cup {Raw}]
         /\ wpc \in [Writers -> {"read", "construct", "move", "publish", "fill"}]
         /\ view \in [Writers -> Int]
BY QueueAssumption DEF TypeOK, Ends, Positions

\* Only one push is under way: that of w.
LEMMA OthersRead ==
  ASSUME OnePush, NEW w \in Writers, wpc[w] # "read"
  PROVE  \A x \in Writers \ {w} : wpc[x] = "read"
BY DEF OnePush

\* A push that begins finds no other, or collides.
LEMMA BeginMemory ==
  ASSUME TypeOK, MemoryInv, NEW w \in Writers, PushBegin(w), ~clash'
  PROVE  MemoryInv'
<1> USE DEF MemoryInv
<1>1. \A x \in Writers : wpc[x] = "read"
  BY DEF PushBegin
<1>2. wpc'[w] \in {"construct", "publish"} /\ wpc' = [wpc EXCEPT ![w] = wpc'[w]]
  BY DEF PushBegin, TypeOK
<1>3. \A x \in Writers \ {w} : wpc'[x] = "read"
  BY <1>1, <1>2, MemoryTypes
<1>4. /\ cells' = cells /\ start' = start /\ finish' = finish /\ left' = left
      /\ ppc' = ppc /\ uci' = uci /\ view'[w] = start /\ start > -Depth
  BY DEF PushBegin, dequeVars, pollerVars, TypeOK
<1>5. OnePush'
  BY <1>3 DEF OnePush
<1>6. Ends'
  BY <1>4 DEF Ends
<1>7. ViewInv'
  BY <1>2, <1>3, <1>4 DEF ViewInv
<1>8. CellsInv'
  BY <1>1, <1>2, <1>3, <1>4 DEF CellsInv
<1>9. TakenInv'
  BY <1>4 DEF TakenInv
<1> QED
  BY <1>5, <1>6, <1>7, <1>8, <1>9

\* The element is constructed outside the queue.
LEMMA ConstructMemory ==
  ASSUME TypeOK, MemoryInv, NEW w \in Writers, Construct(w)
  PROVE  /\ MemoryInv'
         /\ \A p \in start .. finish - 1 : cells'[p] = cells[p]
<1> USE DEF MemoryInv
<1>1. \A x \in Writers \ {w} : wpc[x] = "read" /\ wpc'[x] = "read"
  BY OthersRead, MemoryTypes DEF Construct
<1>2. wpc[w] = "construct" /\ wpc'[w] = "move" /\ view[w] = start /\ start > -Depth
  BY MemoryTypes DEF Construct, ViewInv
<1>3. /\ start' = start /\ finish' = finish /\ left' = left
      /\ ppc' = ppc /\ uci' = uci /\ view' = view
      /\ cells' = [cells EXCEPT ![start - 1] = Head(left[w])]
  BY <1>2 DEF Construct, pollerVars
<1>4. /\ start - 1 \in Positions
      /\ cells'[start - 1] = Head(left[w])
      /\ \A p \in Positions : p # start - 1 => cells'[p] = cells[p]
  BY <1>2, <1>3, MemoryTypes
<1>5. \A p \in start .. finish - 1 : cells'[p] = cells[p]
  BY <1>4, MemoryTypes
<1>6. OnePush'
  BY <1>1 DEF OnePush
<1>7. Ends'
  BY <1>3 DEF Ends
<1>8. ViewInv'
  BY <1>1, <1>2, <1>3 DEF ViewInv
<1>9. CellsInv'
  <2>1. \A x \in Writers : wpc[x] # "fill" /\ wpc'[x] # "fill" /\ wpc[x] # "move"
    BY <1>1, <1>2
  <2> QED
    BY <1>1, <1>2, <1>3, <1>4, <1>5, <2>1 DEF CellsInv
<1>10. TakenInv'
  BY <1>3, <1>5, MemoryTypes DEF TakenInv
<1> QED
  BY <1>5, <1>6, <1>7, <1>8, <1>9, <1>10

\* start moves over the constructed element.
LEMMA MoveMemory ==
  ASSUME TypeOK, PushInv, MemoryInv, NEW w \in Writers, Move(w)
  PROVE  /\ MemoryInv'
         /\ start' = start - 1
         /\ cells[start - 1] = Head(left[w])
<1> USE DEF MemoryInv
<1>1. \A x \in Writers : wpc'[x] = "read"
  BY OthersRead, MemoryTypes DEF Move
<1>2. /\ wpc[w] = "move" /\ view[w] = start /\ start > -Depth
      /\ cells[start - 1] = Head(left[w])
      /\ \A x \in Writers : wpc[x] # "fill"
  BY OthersRead DEF Move, ViewInv, CellsInv
<1>3. /\ start' = start - 1 /\ finish' = finish /\ cells' = cells
      /\ ppc' = ppc /\ uci' = uci /\ view' = view
  BY <1>2 DEF Move, pollerVars
<1>4. OnePush' /\ ViewInv'
  BY <1>1 DEF OnePush, ViewInv
<1>5. Ends'
  BY <1>2, <1>3, MemoryTypes DEF Ends
<1>6. CellsInv'
  <2>1. Head(left[w]) # Raw
    BY FirstCommand, BlankAndRaw, <1>2 DEF TypeOK, PushInv
  <2>2. \A p \in start' .. finish' - 1 : cells'[p] # Raw
    BY <1>2, <1>3, <2>1, MemoryTypes DEF CellsInv
  <2>3. \A p \in Positions : p < start' => cells'[p] = Raw
    BY <1>2, <1>3, MemoryTypes DEF CellsInv
  <2> QED
    BY <1>1, <2>2, <2>3 DEF CellsInv
<1>7. TakenInv'
  BY <1>3, MemoryTypes DEF TakenInv
<1> QED
  BY <1>2, <1>3, <1>4, <1>5, <1>6, <1>7

\* start moves first: a hole at the front of the queue.
LEMMA PublishMemory ==
  ASSUME TypeOK, MemoryInv, NEW w \in Writers, Publish(w)
  PROVE  MemoryInv' /\ start' = start - 1
<1> USE DEF MemoryInv
<1>1. \A x \in Writers \ {w} : wpc[x] = "read" /\ wpc'[x] = "read"
  BY OthersRead, MemoryTypes DEF Publish
<1>2. wpc[w] = "publish" /\ wpc'[w] = "fill" /\ view[w] = start /\ start > -Depth
  BY MemoryTypes DEF Publish, ViewInv
<1>3. /\ start' = start - 1 /\ finish' = finish /\ cells' = cells
      /\ ppc' = ppc /\ uci' = uci /\ view' = view /\ left' = left
  BY <1>2 DEF Publish, pollerVars
<1>4. OnePush'
  BY <1>1 DEF OnePush
<1>5. Ends'
  BY <1>2, <1>3, MemoryTypes DEF Ends
<1>6. ViewInv'
  BY <1>1, <1>2, <1>3, MemoryTypes DEF ViewInv
<1>7. CellsInv'
  <2>1. \A x \in Writers : wpc[x] # "fill" /\ wpc[x] # "move"
    BY <1>1, <1>2
  <2>2. \A p \in Positions : p < start => cells[p] = Raw
    BY <2>1 DEF CellsInv
  <2>3. \A p \in start .. finish - 1 : cells[p] # Raw
    BY <2>1 DEF CellsInv
  <2>4. start - 1 \in Positions /\ cells'[start'] = Raw
    BY <1>2, <1>3, <2>2, MemoryTypes
  <2>5. \A p \in start' .. finish' - 1 : cells'[p] = Raw => p = start'
    BY <1>3, <2>3, MemoryTypes
  <2>6. \A p \in Positions : p < start' => cells'[p] = Raw
    BY <1>3, <2>2, MemoryTypes
  <2> QED
    BY <1>1, <1>2, <2>4, <2>5, <2>6 DEF CellsInv
<1>8. TakenInv'
  BY <1>3, MemoryTypes DEF TakenInv
<1> QED
  BY <1>3, <1>4, <1>5, <1>6, <1>7, <1>8

\* ... which the element then fills.
LEMMA FillMemory ==
  ASSUME TypeOK, PushInv, MemoryInv, NEW w \in Writers, Fill(w)
  PROVE  /\ MemoryInv'
         /\ start < finish
         /\ cells' = [cells EXCEPT ![start] = Head(left[w])]
<1> USE DEF MemoryInv
<1>1. \A x \in Writers : wpc'[x] = "read"
  BY OthersRead, MemoryTypes DEF Fill
<1>2. /\ wpc[w] = "fill" /\ view[w] = start + 1 /\ start < finish
      /\ cells[start] = Raw
      /\ \A x \in Writers : wpc[x] # "move"
  BY OthersRead DEF Fill, ViewInv, CellsInv
<1>3. /\ start' = start /\ finish' = finish
      /\ ppc' = ppc /\ uci' = uci /\ view' = view
  BY DEF Fill, pollerVars
<1>4. cells' = [cells EXCEPT ![start] = Head(left[w])]
  <2>1. view[w] - 1 = start
    BY <1>2, MemoryTypes
  <2> QED
    BY <2>1 DEF Fill
<1>5. /\ start \in Positions /\ cells'[start] = Head(left[w])
      /\ \A p \in Positions : p # start => cells'[p] = cells[p]
  BY <1>2, <1>4, MemoryTypes
<1>6. OnePush' /\ ViewInv'
  BY <1>1 DEF OnePush, ViewInv
<1>7. Ends'
  BY <1>3 DEF Ends
<1>8. CellsInv'
  <2>1. Head(left[w]) # Raw
    BY FirstCommand, BlankAndRaw, <1>2 DEF TypeOK, PushInv
  <2>2. \A p \in start' .. finish' - 1 : cells'[p] # Raw
    BY <1>3, <1>5, <2>1, MemoryTypes DEF CellsInv
  <2>3. \A p \in Positions : p < start' => cells'[p] = Raw
    BY <1>2, <1>3, <1>5, MemoryTypes DEF CellsInv
  <2> QED
    BY <1>1, <2>2, <2>3 DEF CellsInv
<1>9. TakenInv'
  BY <1>2, <1>3, <1>5, MemoryTypes DEF TakenInv
<1> QED
  BY <1>2, <1>4, <1>6, <1>7, <1>8, <1>9

\* The poller takes the oldest element, and what it takes is a string.
LEMMA TakeMemory ==
  ASSUME TypeOK, MemoryInv, Take, ~clash'
  PROVE  /\ MemoryInv'
         /\ ppc' = "pop" /\ UNCHANGED <<dequeVars, writerVars>>
<1> USE DEF MemoryInv
<1>1. /\ uci' = At(finish - 1) /\ uci' # Raw
      /\ ppc = "take" /\ ppc' = "pop"
      /\ cells' = cells /\ start' = start /\ finish' = finish
      /\ wpc' = wpc /\ view' = view /\ left' = left
  BY DEF Take, dequeVars, writerVars
<1>2. start < finish
  BY <1>1 DEF TakenInv
<1>3. uci' = cells[finish - 1]
  BY <1>1, <1>2, MemoryTypes DEF At
<1> QED
  BY <1>1, <1>2, <1>3 DEF OnePush, Ends, ViewInv, CellsInv, TakenInv, dequeVars,
     writerVars

\* What the poller pops is what it has taken; the hole of a push under way is
\* another cell.
LEMMA PopMemory ==
  ASSUME TypeOK, MemoryInv, PopBack
  PROVE  /\ MemoryInv'
         /\ start < finish /\ uci = cells[finish - 1]
         /\ \A w \in Writers : wpc[w] = "fill" => start < finish - 1
         /\ \A p \in start .. finish - 2 : cells'[p] = cells[p]
<1> USE DEF MemoryInv
<1>1. start < finish /\ uci = cells[finish - 1] /\ uci # Raw
  BY DEF PopBack, TakenInv
<1>2. /\ finish' = finish - 1 /\ start' = start /\ ppc' = "run"
      /\ wpc' = wpc /\ view' = view /\ left' = left
      /\ cells' = [cells EXCEPT ![finish - 1] = Raw]
  BY DEF PopBack, writerVars
<1>3. \A w \in Writers : wpc[w] = "fill" => start < finish - 1
  BY <1>1, MemoryTypes DEF CellsInv
<1>4. /\ finish - 1 \in Positions /\ finish - 1 \in Int
      /\ \A p \in Positions : p # finish - 1 => cells'[p] = cells[p]
      /\ cells'[finish - 1] = Raw
  BY <1>1, <1>2, MemoryTypes
<1>5. \A p \in start .. finish - 2 : cells'[p] = cells[p]
  BY <1>4, MemoryTypes
<1>6. OnePush' /\ TakenInv'
  BY <1>2 DEF OnePush, TakenInv
<1>7. Ends'
  BY <1>1, <1>2, MemoryTypes DEF Ends
<1>8. ViewInv'
  BY <1>2, <1>3, MemoryTypes DEF ViewInv
<1>9. CellsInv'
  <2>1. \A p \in start' .. finish' - 1 : p \in start .. finish - 2 /\ p \in start .. finish - 1
    BY <1>2, MemoryTypes
  <2>2. \A p \in start' .. finish' - 1 :
          cells'[p] = Raw => p = start' /\ \E w \in Writers : wpc'[w] = "fill"
    BY <1>2, <1>5, <2>1 DEF CellsInv
  <2>3. \A w \in Writers : wpc'[w] = "fill" => cells'[start'] = Raw
    BY <1>2, <1>3, <1>4, MemoryTypes DEF CellsInv
  <2>4. \A w \in Writers : wpc'[w] = "move" => cells'[start' - 1] = Head(left'[w])
    <3> SUFFICES ASSUME NEW w \in Writers, wpc[w] = "move"
                 PROVE  cells'[start - 1] = Head(left[w])
      BY <1>2
    <3>1. start - 1 \in Positions /\ start - 1 # finish - 1
      BY <1>1, MemoryTypes DEF ViewInv
    <3> QED
      BY <1>4, <3>1 DEF CellsInv
  <2>5. \A p \in Positions :
          p < start' /\ cells'[p] # Raw =>
            p = start' - 1 /\ \E w \in Writers : wpc'[w] = "move"
    BY <1>2, <1>4 DEF CellsInv
  <2> QED
    BY <2>2, <2>3, <2>4, <2>5 DEF CellsInv
<1> QED
  BY <1>1, <1>3, <1>5, <1>6, <1>7, <1>8, <1>9

\* The other steps of the poller leave the deque alone.
LEMMA RestMemory ==
  ASSUME TypeOK, MemoryInv, CheckEmpty \/ Run \/ Commit \/ Reload \/ Wake
  PROVE  MemoryInv' /\ UNCHANGED <<dequeVars, writerVars, clash>>
<1>1. UNCHANGED <<dequeVars, writerVars, clash>> /\ ppc' # "pop"
  BY DEF CheckEmpty, Run, Commit, Reload, Wake, dequeVars, writerVars
<1>2. ppc' = "take" => start # finish
  BY DEF CheckEmpty, Run, Commit, Reload, Wake
<1> QED
  BY <1>1, <1>2, MemoryTypes DEF MemoryInv, OnePush, Ends, ViewInv, CellsInv,
     TakenInv, dequeVars, writerVars

LEMMA MemoryStep ==
  ASSUME TypeOK, PushInv, MemoryInv, Next, ~clash'
  PROVE  MemoryInv'
<1>1. ASSUME NEW w \in Writers, Push(w) PROVE MemoryInv'
  BY <1>1, BeginMemory, ConstructMemory, MoveMemory, PublishMemory, FillMemory DEF Push
<1>2. ASSUME Poll PROVE MemoryInv'
  BY <1>2, TakeMemory, PopMemory, RestMemory DEF Poll
<1> QED
  BY <1>1, <1>2 DEF Next

-----------------------------------------------------------------------------
(* The invariant. *)

LEMMA Initially == Init => IInv
<1> SUFFICES ASSUME Init PROVE IInv
  OBVIOUS
<1>1. TypeOK /\ PushInv
  <2>1. left \in [Writers -> Seq(Commands)] /\ handled \in Seq(Strings)
    BY QueueAssumption, EmptySeq DEF Init
  <2>2. cells \in [Positions -> Strings \cup {Raw}] /\ uci \in Strings
    BY BlankAndRaw DEF Init
  <2>3. PushInv
    BY DEF Init, PushInv
  <2>4. /\ wpc \in [Writers -> {"read", "construct", "move", "publish", "fill"}]
        /\ view \in [Writers -> Int]
    BY DEF Init
  <2>5. start \in Int /\ finish \in Int /\ staged \subseteq Commands
    BY DEF Init
  <2>6. saved \subseteq Commands /\ active \subseteq Commands
    BY DEF Init
  <2>7. /\ round \subseteq Strings
        /\ commitFailed \subseteq {Package[m] : m \in Commands}
    BY DEF Init
  <2> QED
    BY <2>1, <2>2, <2>3, <2>4, <2>5, <2>6, <2>7 DEF Init, TypeOK
<1>2. ConfigInv
  BY DEF Init, ConfigInv, LeftBehind
<1>3. MemoryInv
  BY QueueAssumption, BlankAndRaw
     DEF Init, MemoryInv, OnePush, Ends, ViewInv, CellsInv, TakenInv, Positions
<1> QED
  BY <1>1, <1>2, <1>3 DEF IInv

LEMMA Inductive == IInv /\ [Next]_vars => IInv'
<1> SUFFICES ASSUME IInv, [Next]_vars PROVE IInv'
  OBVIOUS
<1>1. CASE UNCHANGED vars
  BY <1>1 DEF vars, dequeVars, writerVars, pollerVars, configVars, IInv, TypeOK,
     PushInv, ConfigInv, LeftBehind, MemoryInv, OnePush, Ends, ViewInv,
     CellsInv, TakenInv
<1>2. CASE Next
  <2>1. TypeOK' /\ PushInv'
    BY <1>2, PushTypes, PollTypes DEF Next, IInv
  <2>2. ConfigInv'
    BY <1>2, ConfigStep DEF IInv
  <2>3. ~clash' => MemoryInv'
    BY <1>2, ClashStays, MemoryStep DEF IInv
  <2> QED
    BY <2>1, <2>2, <2>3 DEF IInv
<1> QED
  BY <1>1, <1>2

LEMMA Invariant == Spec => []IInv
BY Initially, Inductive, PTL DEF Spec

\* The state has its types, and what the poller hands on is always a string.
THEOREM TypeCorrect == Spec => []TypeOK
<1>1. IInv => TypeOK
  BY DEF IInv
<1> QED
  BY <1>1, Invariant, PTL

\* The poller goes to sleep with nothing uncommitted but what the commit could
\* not do, the network runs with all that is committed unless the reload failed,
\* and whenever the process dies only settings of its last round are uncommitted
\* besides.
THEOREM NothingIsForgotten == Spec => []NothingForgotten
<1>1. IInv => NothingForgotten
  BY DEF IInv, ConfigInv, NothingForgotten
<1> QED
  BY <1>1, Invariant, PTL

\* Raw memory is about to be copied only when the poller has caught up with the
\* one push whose element is published and not yet constructed.
THEOREM OlderIsSafe == Spec => []OnlyNewestAtRisk
<1>1. IInv => OnlyNewestAtRisk
  <2> SUFFICES ASSUME IInv, ppc = "take", At(finish - 1) = Raw, ~clash
               PROVE  finish - 1 = start /\ \E w \in Writers : wpc[w] = "fill"
    BY DEF OnlyNewestAtRisk
  <2>1. start < finish /\ finish - 1 \in Positions /\ finish - 1 \in start .. finish - 1
    BY MemoryTypes DEF IInv, MemoryInv, TakenInv
  <2> QED
    BY <2>1 DEF IInv, MemoryInv, CellsInv, At
<1> QED
  BY <1>1, Invariant, PTL

-----------------------------------------------------------------------------
(* The refinement of CommandLog. *)

\* The first position that counts as an element of the queue.
First == start + Holes


\* Queue lists the cells below finish, the oldest element first.
Elements ==
  /\ Holes \in {0, 1}
  /\ First \in start .. finish
  /\ Queue \in Seq(Strings)
  /\ Len(Queue) = finish - First
  /\ \A k \in 1 .. finish - First : Queue[k] = cells[finish - k]

LEMMA QueueShape == TypeOK /\ MemoryInv => Elements
<1> SUFFICES ASSUME TypeOK, MemoryInv PROVE Elements
  OBVIOUS
<1>1. Holes \in {0, 1} /\ (Holes = 1 <=> \E w \in Writers : wpc[w] = "fill")
  BY DEF Holes
<1>2. First \in start .. finish /\ First \in Int /\ finish - start - Holes = finish - First
  BY <1>1, MemoryTypes DEF First, MemoryInv, ViewInv
<1>3. \A k \in 1 .. finish - First :
        /\ finish - k \in start .. finish - 1
        /\ finish - k # start \/ Holes = 0
  BY <1>1, <1>2, MemoryTypes DEF First, MemoryInv
<1>4. \A k \in 1 .. finish - First :
        At(finish - k) = cells[finish - k] /\ cells[finish - k] \in Strings
  BY <1>1, <1>3, MemoryTypes DEF At, MemoryInv, CellsInv
<1>5. Queue \in [1 .. finish - First -> Strings]
  BY <1>2, <1>4 DEF Queue
<1>6. finish - First \in Nat
  BY <1>2, MemoryTypes DEF MemoryInv
<1>7. Queue \in Seq(Strings) /\ Len(Queue) = finish - First
  BY <1>5, <1>6
<1> QED
  BY <1>1, <1>2, <1>4, <1>7 DEF Queue, Elements

\* A step that leaves the elements where they are leaves the queue as it is.
LEMMA SameQueue ==
  ASSUME TypeOK, MemoryInv, TypeOK', MemoryInv',
         finish' = finish, First' = First,
         \A p \in First .. finish - 1 : cells'[p] = cells[p]
  PROVE  Queue' = Queue
<1>1. Elements /\ Elements'
  BY QueueShape, PTL
<1>2. First \in Int /\ finish \in Int
  BY <1>1, MemoryTypes DEF Elements, MemoryInv
<1>3. \A k \in 1 .. finish - First : Queue'[k] = Queue[k]
  BY <1>1, <1>2 DEF Elements
<1> QED
  BY <1>1, <1>3, SeqEqual DEF Elements

\* A step that makes one more cell count accepts its command.
LEMMA LongerQueue ==
  ASSUME TypeOK, MemoryInv, TypeOK', MemoryInv',
         finish' = finish, First' = First - 1,
         \A p \in First .. finish - 1 : cells'[p] = cells[p]
  PROVE  Queue' = Append(Queue, cells'[First'])
<1> DEFINE c == cells'[First']
           n == finish - First
<1>1. Elements /\ Elements'
  BY QueueShape, PTL
<1>2. First \in Int /\ finish \in Int /\ n \in Nat /\ First <= finish
  BY <1>1, MemoryTypes DEF Elements, MemoryInv
<1>3. Len(Queue') = n + 1 /\ \A k \in 1 .. n + 1 : Queue'[k] = cells'[finish - k]
  BY <1>1, <1>2 DEF Elements
<1>4. Queue'[n + 1] = c /\ \A k \in 1 .. n : Queue'[k] = Queue[k]
  BY <1>1, <1>2, <1>3 DEF Elements
<1>5. c \in Strings
  BY <1>1, <1>2, <1>3, <1>4, ElementOfSeq DEF Elements
<1>6. Append(Queue, c) \in Seq(Strings) /\ Len(Append(Queue, c)) = n + 1
  BY <1>1, <1>5, AppendProperties DEF Elements
<1>7. \A k \in 1 .. n + 1 : Append(Queue, c)[k] = Queue'[k]
  <2> SUFFICES ASSUME NEW k \in 1 .. n + 1 PROVE Append(Queue, c)[k] = Queue'[k]
    OBVIOUS
  <2>1. CASE k = n + 1
    BY <1>1, <1>4, <1>5, <2>1, AppendProperties DEF Elements
  <2>2. CASE k # n + 1
    <3>1. k \in 1 .. n
      BY <1>2, <2>2
    <3> QED
      BY <1>1, <1>4, <1>5, <3>1, AppendProperties DEF Elements
  <2> QED
    BY <2>1, <2>2
<1> QED
  BY <1>1, <1>3, <1>6, <1>7, SeqEqual DEF Elements

\* A step that pops the cell below finish takes the head of the queue.
LEMMA ShorterQueue ==
  ASSUME TypeOK, MemoryInv, TypeOK', MemoryInv',
         finish' = finish - 1, First' = First, First < finish,
         \A p \in First .. finish - 2 : cells'[p] = cells[p]
  PROVE  Queue = <<cells[finish - 1]>> \o Queue'
<1> DEFINE c == cells[finish - 1]
           n == finish - First
<1>1. Elements /\ Elements'
  BY QueueShape, PTL
<1>2. First \in Int /\ finish \in Int /\ n \in Nat \ {0}
  BY <1>1, MemoryTypes DEF Elements, MemoryInv
<1>3. Len(Queue') = n - 1 /\ \A k \in 1 .. n - 1 : Queue'[k] = cells'[finish - 1 - k]
  BY <1>1, <1>2 DEF Elements
<1>4. Queue[1] = c /\ \A k \in 1 .. n - 1 : Queue'[k] = Queue[k + 1]
  BY <1>1, <1>2, <1>3 DEF Elements
<1>5. c \in Strings
  BY <1>1, <1>2, <1>4, ElementOfSeq DEF Elements
<1> DEFINE t == <<c>> \o Queue'
<1>6. /\ t \in Seq(Strings) /\ Len(t) = n
      /\ \A k \in 1 .. n : t[k] = IF k <= 1 THEN c ELSE Queue'[k - 1]
  <2>1. <<c>> \in Seq(Strings) /\ Len(<<c>>) = 1 /\ <<c>>[1] = c
    BY <1>5
  <2>2. /\ t \in Seq(Strings) /\ Len(t) = 1 + Len(Queue')
        /\ \A k \in 1 .. 1 + Len(Queue') :
             t[k] = IF k <= 1 THEN <<c>>[k] ELSE Queue'[k - 1]
    BY <1>1, <2>1, ConcatProperties DEF Elements
  <2> HIDE DEF t
  <2>3. \A k \in 1 .. n : k <= 1 => k = 1
    OBVIOUS
  <2> QED
    BY <1>2, <1>3, <2>1, <2>2, <2>3
<1> HIDE DEF t
<1>7. \A k \in 1 .. n : t[k] = Queue[k]
  BY <1>2, <1>4, <1>6
<1>8. Queue = t
  BY <1>1, <1>6, <1>7, SeqEqual DEF Elements
<1> QED
  BY <1>8 DEF t

\* What is pending counts the one in the poller's hand as the first.
LEMMA PendingHead ==
  ASSUME TypeOK, MemoryInv
  PROVE  LET p == <<uci>> \o Queue
         IN  /\ p # <<>> /\ Head(p) = uci /\ Tail(p) = Queue
             /\ \A c \in Strings : Append(p, c) = <<uci>> \o Append(Queue, c)
<1> DEFINE p == <<uci>> \o Queue
<1>1. Queue \in Seq(Strings) /\ uci \in Strings
  BY QueueShape DEF Elements, TypeOK
<1>2. <<uci>> \in Seq(Strings) /\ Len(<<uci>>) = 1 /\ <<uci>>[1] = uci
  BY <1>1
<1>3. /\ p \in Seq(Strings) /\ Len(p) = 1 + Len(Queue)
      /\ \A k \in 1 .. 1 + Len(Queue) : p[k] = IF k <= 1 THEN <<uci>>[k] ELSE Queue[k - 1]
  BY <1>1, <1>2, ConcatProperties
<1>4. Len(Queue) \in Nat
  BY <1>1, LenProperties
<1> HIDE DEF p
<1>5. p # <<>>
  BY <1>3, <1>4, EmptySeq
<1>6. Head(p) = uci
  BY <1>2, <1>3, <1>4
<1>7. Tail(p) = Queue
  <2>1. /\ Tail(p) \in Seq(Strings) /\ Len(Tail(p)) = Len(Queue)
        /\ \A k \in 1 .. Len(Queue) : Tail(p)[k] = p[k + 1]
    BY <1>3, <1>4, <1>5, HeadTailProperties
  <2>2. \A k \in 1 .. Len(Queue) : Tail(p)[k] = Queue[k]
    BY <1>3, <1>4, <2>1
  <2> QED
    BY <1>1, <2>1, <2>2, SeqEqual
<1>8. ASSUME NEW c \in Strings PROVE Append(p, c) = <<uci>> \o Append(Queue, c)
  <2>1. Append(p, c) = p \o <<c>> /\ Append(Queue, c) = Queue \o <<c>>
    BY <1>1, <1>3, AppendIsConcat
  <2>2. <<c>> \in Seq(Strings)
    OBVIOUS
  <2>3. (<<uci>> \o Queue) \o <<c>> = <<uci>> \o (Queue \o <<c>>)
    BY <1>1, <1>2, <2>2, ConcatAssociative
  <2> QED
    BY <2>1, <2>3 DEF p
<1> QED
  BY <1>5, <1>6, <1>7, <1>8 DEF p

\* The threads in a push.
PushingNow == {w \in Writers : wpc[w] # "read"}

\* A push accepts its command when the element is in the deque: at Move, or at
\* Fill when start has moved first.  Its first step begins it for the log, the
\* others change nothing there.
LEMMA PushRefines ==
  ASSUME IInv, IInv', NEW w \in Writers, Push(w), ~clash'
  PROVE  Log!Begin(w) \/ Log!Accept(w) \/ UNCHANGED Log!logVars
<1>1. /\ TypeOK /\ PushInv /\ TypeOK'
      /\ ~clash /\ MemoryInv /\ MemoryInv'
  BY ClashStays DEF IInv, Next
<1>2. /\ First \in start .. finish /\ Holes = First - start /\ start \in Int
      /\ First \in Int /\ finish \in Int
  BY <1>1, QueueShape, MemoryTypes DEF Elements, First, MemoryInv
<1>3. UNCHANGED <<ppc, uci, handled>>
  BY DEF Push, PushBegin, Construct, Move, Publish, Fill, pollerVars
<1>11. \A x \in Writers \ {w} : wpc'[x] = wpc[x]
  BY <1>1 DEF Push, PushBegin, Construct, Move, Publish, Fill, TypeOK
<1>4. ASSUME Queue' = Queue, left' = left, clash' = clash,
             wpc[w] # "read", wpc'[w] # "read"
      PROVE  UNCHANGED Log!logVars
  <2>1. PushingNow' = PushingNow
    BY <1>4, <1>11 DEF PushingNow
  <2> QED
    BY <1>3, <1>4, <2>1 DEF Pending, Log!logVars, PushingNow
<1>5. ASSUME Queue' = Append(Queue, Head(left[w])), clash' = clash,
             left' = [left EXCEPT ![w] = Tail(@)], left[w] # <<>>,
             wpc[w] # "read", wpc'[w] = "read"
      PROVE  Log!Accept(w)
  <2>3. w \in PushingNow /\ PushingNow' = PushingNow \ {w}
    BY <1>5, <1>11 DEF PushingNow
  <2>1. Head(left[w]) \in Strings
    BY <1>1, <1>5, FirstCommand DEF TypeOK
  <2>2. Pending' = Append(Pending, Head(left[w]))
    BY <1>1, <1>3, <1>5, <2>1, PendingHead DEF Pending
  <2> QED
    BY <1>3, <1>5, <2>2, <2>3 DEF Log!Accept, PushingNow
<1>6. CASE PushBegin(w)
  <2>1. Holes' = Holes
    BY <1>1, <1>6 DEF PushBegin, TypeOK, Holes
  <2>2. UNCHANGED <<start, finish, cells, left>> /\ left[w] # <<>>
    BY <1>6 DEF PushBegin, dequeVars
  <2>3. clash' = clash
    BY <1>1 DEF TypeOK
  <2>4. Queue' = Queue
    BY <1>1, <2>1, <2>2, SameQueue DEF First
  <2>5. wpc[w] = "read" /\ wpc'[w] # "read"
    BY <1>1, <1>6 DEF PushBegin, TypeOK
  <2>6. w \notin PushingNow /\ PushingNow' = PushingNow \cup {w}
    BY <1>11, <2>5 DEF PushingNow
  <2> QED
    BY <1>3, <2>2, <2>3, <2>4, <2>6 DEF Log!Begin, Pending, PushingNow
<1>7. CASE Construct(w)
  <2>1. Holes' = Holes
    BY <1>1, <1>7 DEF Construct, TypeOK, Holes
  <2>2. UNCHANGED <<start, finish, left, clash>>
    BY <1>7 DEF Construct
  <2>3. \A p \in First .. finish - 1 : cells'[p] = cells[p]
    BY <1>1, <1>2, <1>7, ConstructMemory
  <2>4. wpc[w] # "read" /\ wpc'[w] # "read"
    BY <1>1, <1>7 DEF Construct, TypeOK
  <2>5. Queue' = Queue
    BY <1>1, <2>1, <2>2, <2>3, SameQueue DEF First
  <2> QED
    BY <1>4, <2>2, <2>4, <2>5
<1>8. CASE Move(w)
  <2>1. wpc[w] = "move" /\ \A x \in Writers \ {w} : wpc[x] = "read"
    BY <1>1, <1>8, OthersRead DEF Move, MemoryInv
  <2>2. Holes = 0 /\ Holes' = 0
    BY <1>1, <1>8, <2>1 DEF Move, TypeOK, Holes
  <2>3. /\ start' = start - 1 /\ finish' = finish /\ cells' = cells
        /\ cells[start - 1] = Head(left[w])
    BY <1>1, <1>8, MoveMemory DEF Move
  <2>4. First' = First - 1 /\ First' = start - 1
    BY <1>2, <2>2, <2>3 DEF First
  <2>5. Queue' = Append(Queue, Head(left[w]))
    BY <1>1, <2>3, <2>4, LongerQueue
  <2>6. left[w] # <<>>
    BY <1>1, <2>1 DEF PushInv
  <2>7. wpc'[w] = "read"
    BY <1>1, <1>8 DEF Move, TypeOK
  <2> QED
    BY <1>5, <1>8, <2>1, <2>5, <2>6, <2>7 DEF Move
<1>9. CASE Publish(w)
  <2>1. wpc[w] = "publish" /\ \A x \in Writers \ {w} : wpc[x] = "read"
    BY <1>1, <1>9, OthersRead DEF Publish, MemoryInv
  <2>2. Holes = 0 /\ Holes' = 1
    BY <1>1, <1>9, <2>1 DEF Publish, TypeOK, Holes
  <2>3. start' = start - 1 /\ UNCHANGED <<finish, cells, left, clash>>
    BY <1>1, <1>9, PublishMemory DEF Publish
  <2>4. First' = First
    BY <1>2, <2>2, <2>3 DEF First
  <2>5. Queue' = Queue
    BY <1>1, <2>3, <2>4, SameQueue
  <2>6. wpc'[w] = "fill"
    BY <1>1, <1>9 DEF Publish, TypeOK
  <2> QED
    BY <1>4, <2>1, <2>3, <2>5, <2>6
<1>10. CASE Fill(w)
  <2>1. wpc[w] = "fill" /\ \A x \in Writers \ {w} : wpc[x] = "read"
    BY <1>1, <1>10, OthersRead DEF Fill, MemoryInv
  <2>2. Holes = 1 /\ Holes' = 0
    BY <1>1, <1>10, <2>1 DEF Fill, TypeOK, Holes
  <2>3. /\ start' = start /\ finish' = finish /\ start < finish
        /\ cells' = [cells EXCEPT ![start] = Head(left[w])]
    BY <1>1, <1>10, FillMemory DEF Fill
  <2>4. First' = First - 1 /\ First' = start
    BY <1>2, <2>2, <2>3 DEF First
  <2>5. cells'[start] = Head(left[w])
    BY <1>1, <2>3, MemoryTypes DEF MemoryInv
  <2>6. \A p \in First .. finish - 1 : cells'[p] = cells[p]
    BY <1>1, <1>2, <2>2, <2>3, MemoryTypes DEF MemoryInv
  <2>7. Queue' = Append(Queue, Head(left[w]))
    BY <1>1, <2>3, <2>4, <2>5, <2>6, LongerQueue
  <2>8. left[w] # <<>>
    BY <1>1, <2>1 DEF PushInv
  <2>9. wpc'[w] = "read"
    BY <1>1, <1>10 DEF Fill, TypeOK
  <2> QED
    BY <1>5, <1>10, <2>1, <2>7, <2>8, <2>9 DEF Fill
<1> QED
  BY <1>6, <1>7, <1>8, <1>9, <1>10 DEF Push

\* The poller handles a command at Run.  Taking and popping it before moves it
\* from the queue into the poller's hand.
LEMMA PollRefines ==
  ASSUME IInv, IInv', Poll, ~clash'
  PROVE  Log!Handle \/ UNCHANGED Log!logVars
<1>1. /\ TypeOK /\ TypeOK'
      /\ ~clash /\ MemoryInv /\ MemoryInv'
  BY ClashStays DEF IInv, Next
<1>2. /\ First \in start .. finish /\ Holes = First - start /\ start \in Int
      /\ First \in Int /\ finish \in Int
  BY <1>1, QueueShape, MemoryTypes DEF Elements, First, MemoryInv
<1>3. UNCHANGED <<left, wpc>> /\ clash' = clash /\ Holes' = Holes
  <2>1. clash' = clash
    BY <1>1 DEF TypeOK
  <2>2. UNCHANGED writerVars
    BY DEF Poll, CheckEmpty, Take, PopBack, Run, Commit, Reload, Wake
  <2> QED
    BY <2>1, <2>2 DEF writerVars, Holes
<1>4. CASE CheckEmpty \/ Run \/ Commit \/ Reload \/ Wake
  <2>1. Queue' = Queue
    <3>1. UNCHANGED dequeVars
      BY <1>1, <1>4, RestMemory
    <3> QED
      BY <1>1, <1>3, <3>1, SameQueue DEF First, dequeVars
  <2>2. CASE Run
    <3>1. /\ ppc = "run" /\ ppc' = "check" /\ uci' = uci
          /\ handled' = Append(handled, uci)
      BY <2>2 DEF Run
    <3>2. Pending = <<uci>> \o Queue /\ Pending' = Queue
      BY <2>1, <3>1 DEF Pending
    <3> QED
      BY <1>1, <1>3, <3>1, <3>2, PendingHead DEF Log!Handle
  <2>3. CASE CheckEmpty \/ Commit \/ Reload \/ Wake
    <3>1. ppc # "run" /\ ppc' # "run" /\ handled' = handled
      BY <2>3 DEF CheckEmpty, Commit, Reload, Wake
    <3> QED
      BY <1>3, <2>1, <3>1 DEF Pending, Log!logVars
  <2> QED
    BY <1>4, <2>2, <2>3
<1>5. CASE Take
  <2>1. ppc = "take" /\ ppc' = "pop" /\ UNCHANGED <<handled, dequeVars>>
    BY <1>1, <1>5, TakeMemory DEF Take
  <2>2. Queue' = Queue
    BY <1>1, <1>3, <2>1, SameQueue DEF First, dequeVars
  <2> QED
    BY <1>3, <2>1, <2>2 DEF Pending, Log!logVars
<1>6. CASE PopBack
  <2>1. /\ ppc = "pop" /\ ppc' = "run" /\ uci' = uci /\ handled' = handled
        /\ start' = start /\ finish' = finish - 1
    BY <1>6 DEF PopBack
  <2>2. /\ start < finish /\ uci = cells[finish - 1]
        /\ \A w \in Writers : wpc[w] = "fill" => start < finish - 1
        /\ \A p \in start .. finish - 2 : cells'[p] = cells[p]
    BY <1>1, <1>6, PopMemory
  <2>3. First < finish
    BY <1>2, <2>2 DEF First, Holes
  <2>4. First' = First
    BY <1>3, <2>1 DEF First
  <2>5. \A p \in First .. finish - 2 : cells'[p] = cells[p]
    BY <1>2, <2>2
  <2>6. Queue = <<uci>> \o Queue'
    BY <1>1, <2>1, <2>2, <2>3, <2>4, <2>5, ShorterQueue
  <2> QED
    BY <1>3, <2>1, <2>6 DEF Pending, Log!logVars
<1> QED
  BY <1>4, <1>5, <1>6 DEF Poll

\* Accesses collide only while a push is under way, or when one begins.
LEMMA ClashRefines ==
  ASSUME IInv, Next, clash'
  PROVE  Log!Void
<1>1. CASE clash
  BY <1>1 DEF Log!Void
<1>2. CASE ~clash
  <2>1. TypeOK /\ MemoryInv
    BY <1>2 DEF IInv
  <2>2. ASSUME NEW w \in Writers, PushBegin(w) PROVE wpc'[w] # "read"
    BY <2>1, <2>2 DEF PushBegin, TypeOK
  <2>3. ASSUME Take PROVE \E w \in Writers : wpc'[w] # "read"
    <3>1. At(finish - 1) = Raw /\ ppc = "take" /\ wpc' = wpc
      BY <1>2, <2>3 DEF Take, writerVars
    <3>2. /\ start < finish /\ finish - 1 \in Positions
          /\ finish - 1 \in start .. finish - 1
      BY <2>1, <3>1, MemoryTypes DEF MemoryInv, TakenInv
    <3>3. PICK w \in Writers : wpc[w] = "fill"
      BY <2>1, <3>1, <3>2 DEF MemoryInv, CellsInv, At
    <3> QED
      BY <3>1, <3>3
  <2>4. ASSUME PopBack PROVE \E w \in Writers : wpc'[w] # "read"
    BY <1>2, <2>4 DEF PopBack, Linking, writerVars
  <2>5. (\E w \in Writers : PushBegin(w)) \/ Take \/ PopBack
    BY <1>2 DEF Next, Poll, Push, Construct, Move, Publish, Fill, CheckEmpty, Run,
       Commit, Reload, Wake
  <2> QED
    BY <2>2, <2>3, <2>4, <2>5 DEF Log!Void
<1> QED
  BY <1>1, <1>2

\* Until accesses collide, the deque with all its interleavings is a first-in
\* first-out queue: nothing is lost, doubled or reordered between the sockets
\* and the handler.  Accesses collide only while a push is under way.
THEOREM IsFirstInFirstOut == Spec => FirstInFirstOut
<1>1. Init => Log!Init
  <2> SUFFICES ASSUME Init PROVE Log!Init
    OBVIOUS
  <2>1. IInv /\ TypeOK /\ MemoryInv
    BY Initially DEF IInv, Init
  <2>2. Elements
    BY <2>1, QueueShape
  <2>3. start = 0 /\ finish = 3 /\ First = 0
    BY DEF Init, First, Holes
  <2>4. Len(Queue) = 3 /\ \A k \in 1 .. 3 : Queue[k] = Blank
    <3>1. \A k \in 1 .. 3 : 3 - k \in Positions /\ cells[3 - k] = Blank
      BY QueueAssumption DEF Init, Positions
    <3> QED
      BY <2>2, <2>3, <3>1 DEF Elements
  <2>5. Queue = <<Blank, Blank, Blank>>
    <3> DEFINE t == <<Blank, Blank, Blank>>
    <3>1. /\ t \in Seq(Strings) /\ Len(t) = 3
          /\ \A k \in 1 .. 3 : t[k] = Blank
      BY BlankAndRaw
    <3> HIDE DEF t
    <3>2. Queue = t
      BY <2>2, <2>4, <3>1, SeqEqual DEF Elements
    <3> QED
      BY <3>2 DEF t
  <2> QED
    BY <2>5 DEF Init, Log!Init, Pending
<1>2. IInv /\ IInv' /\ [Next]_vars => [Log!Next]_(Log!logVars)
  <2> SUFFICES ASSUME IInv, IInv', [Next]_vars
               PROVE  Log!Next \/ UNCHANGED Log!logVars
    OBVIOUS
  <2>1. CASE clash'
    <3>1. CASE UNCHANGED vars
      <4>1. Pending' = Pending
        BY <3>1 DEF vars, dequeVars, writerVars, pollerVars, Pending, Queue, Holes, At
      <4> QED
        BY <3>1, <4>1 DEF vars, writerVars, Log!logVars
    <3>2. CASE Next
      BY <2>1, <3>2, ClashRefines DEF Log!Next
    <3> QED
      BY <3>1, <3>2
  <2>2. CASE ~clash' /\ UNCHANGED vars
    <3>1. Pending' = Pending
      BY <2>2 DEF vars, dequeVars, writerVars, pollerVars, Pending, Queue, Holes, At
    <3> QED
      BY <2>2, <3>1 DEF vars, writerVars, Log!logVars
  <2>3. CASE ~clash' /\ Next
    <3>1. ~clash
      BY <2>3, ClashStays
    <3> QED
      BY <2>3, <3>1, PushRefines, PollRefines DEF Next, Log!Next
  <2> QED
    BY <2>1, <2>2, <2>3
<1> QED
  BY <1>1, <1>2, Invariant, PTL DEF Spec, FirstInFirstOut, Log!Spec
=============================================================================
