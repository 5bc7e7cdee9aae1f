------------------------ MODULE CommandServerProofs ------------------------
(***************************************************************************)
(* Proofs about CommandServer for every set of clients, table size and set *)
(* of descriptors.  The inductive invariant has five parts:                *)
(*   Typed     types, and what the kernel guarantees about read();         *)
(*   Fresh     a waiting connection has no thread and no descriptor yet;   *)
(*   SlotInv   who uses which entry of clientFds, while no scan has        *)
(*             overflowed;                                                 *)
(*   PartsInv  how much of a message is in the queue, in a thread's hand   *)
(*             and still unread: together all of it;                       *)
(*   WaitInv   a receiver that is gone has no connection and no thread.    *)
(***************************************************************************)
EXTENDS CommandServer, TLAPS, SequenceTheorems, FiniteSetTheorems

Typed ==
  /\ TypeOK
  /\ \A c \in Senders : unread[c] <= Chunks[c]
  /\ \A c \in Receivers : unread[c] = 0
  /\ \A c \in Conns : /\ wpc[c] = "blocked" => won[c] \in Conns
                      /\ wpc[c] = "push" => wbuf[c] \in Chunk
  /\ srv = "spawn" => accepted \in Conns

\* Nothing has been started for connection c.
Untouched(c) == wpc[c] = "none" /\ c \notin orphans

Fresh ==
  /\ \A c \in Conns : client[c] = "idle" => Untouched(c)
  /\ \A k \in 1 .. Len(backlog) : /\ client[backlog[k]] # "idle"
                                  /\ Untouched(backlog[k])
                                  /\ srv = "spawn" => accepted # backlog[k]
  /\ \A j, k \in 1 .. Len(backlog) : backlog[j] = backlog[k] => j = k
  /\ srv = "spawn" => client[accepted] # "idle" /\ Untouched(accepted)

Serving(c) == wpc[c] \in {"read", "blocked", "push", "close"}

\* Threads in use of an entry, and the connection that is open on it.
Exclusive == \A c, d \in Conns :
  Live(c) /\ Live(d) /\ wslot[c] = wslot[d] => c = d

Own == \A c \in Conns :
  /\ Live(c) => clientFds[wslot[c]] \in Fds
  /\ Serving(c) => fdtab[clientFds[wslot[c]]] = c
  /\ wpc[c] = "blocked" => won[c] = c
  /\ wpc[c] = "push" => wbuf[c].conn = c

\* The entry the server thread points at, by program counter.
Pointer ==
  /\ srv = "start" => ~found
  /\ srv = "scan" /\ found => clientFds[client_sockfd] = NoFd
  /\ srv = "accept" => clientFds[client_sockfd] = NoFd
  /\ srv = "spawn" =>
       /\ clientFds[client_sockfd] \in Fds
       /\ fdtab[clientFds[client_sockfd]] = accepted
       /\ \A c \in Conns : Live(c) => wslot[c] # client_sockfd

\* Where an open descriptor is stored.
Stored(f, s) ==
  /\ clientFds[s] = f
  /\ \/ Serving(fdtab[f]) /\ wslot[fdtab[f]] = s
     \/ srv = "spawn" /\ accepted = fdtab[f] /\ s = client_sockfd
     \/ fdtab[f] \in orphans /\ \A d \in Conns : Live(d) => wslot[d] # s

Accounted == \A f \in Fds : fdtab[f] # NoConn => \E s \in Slots : Stored(f, s)

SlotInv ==
  ~overflow => Exclusive /\ Own /\ Pointer /\ (srv # "exited" => Accounted)

-----------------------------------------------------------------------------
(* Typing. *)

LEMMA SlotIndex == \A k \in Nat : k < MaxClient => k \in Slots
  BY ServerAssumption DEF Slots

LEMMA TypedInit == Init => Typed
<1> SUFFICES ASSUME Init PROVE Typed
  OBVIOUS
<1>1. 0 \in Slots /\ 0 \in 0 .. MaxClient
  BY ServerAssumption DEF Slots
<1>2. TypeOK
  <2>1. /\ client \in [Conns -> {"idle", "connected", "written", "closed"}]
        /\ unread \in [Conns -> Nat]
        /\ backlog \in Seq(Conns)
        /\ cmd_queue \in Seq(Element)
    BY DEF Init
  <2>2. /\ fdtab \in [Fds -> Conns \cup {NoConn}]
        /\ clientFds \in [Slots -> Fds \cup {NoFd}]
        /\ wslot \in [Conns -> Slots]
        /\ won \in [Conns -> Conns \cup {NoConn}]
        /\ wbuf \in [Conns -> Chunk \cup {NoChunk}]
    BY <1>1 DEF Init
  <2>3. QED
    BY <1>1, <2>1, <2>2 DEF Init, TypeOK
<1>3. QED
  BY <1>2, ServerAssumption DEF Init, Typed, Conns

LEMMA TypedNext == Typed /\ [Next]_vars => Typed'
<1> SUFFICES ASSUME Typed, [Next]_vars PROVE Typed'
  OBVIOUS
<1> USE DEF Typed, TypeOK, clientVars, tableVars, serverVars, workerVars
<1>0. /\ 0 \in 0 .. MaxClient
      /\ i < MaxClient => i \in Slots /\ i + 1 \in 0 .. MaxClient
  BY ServerAssumption, SlotIndex
<1>1. ASSUME NEW c \in Conns, Connect(c) PROVE Typed'
  BY <1>1 DEF Connect
<1>2. ASSUME NEW c \in Conns, ConnectFail(c) PROVE Typed'
  BY <1>2 DEF ConnectFail
<1>3. ASSUME NEW c \in Conns, Send(c) PROVE Typed'
  BY <1>3, ServerAssumption DEF Send, Conns
<1>4. ASSUME NEW c \in Conns, Close(c) PROVE Typed'
  BY <1>4 DEF Close
<1>5. CASE Listen
  BY <1>5 DEF Listen
<1>6. CASE ScanSlot
  BY <1>0, <1>6 DEF ScanSlot
<1>7. CASE ScanEnd
  BY <1>7 DEF ScanEnd
<1>8. CASE Accept
  BY <1>8 DEF Accept
<1>9. CASE AcceptFail
  BY <1>9 DEF AcceptFail
<1>10. CASE Spawn
  BY <1>0, <1>10 DEF Spawn, NextIteration
<1>11. CASE SpawnFail
  BY <1>0, <1>11 DEF SpawnFail, NextIteration
<1>12. ASSUME NEW c \in Conns, ReadCall(c) PROVE Typed'
  <2> DEFINE f == clientFds[wslot[c]]
  <2>1. CASE Open(f) /\ won' = [won EXCEPT ![c] = fdtab[f]] /\ Goto(c, "blocked")
    <3>1. fdtab[f] \in Conns
      BY <2>1 DEF Open
    <3>2. QED
      BY <1>12, <2>1, <3>1 DEF ReadCall, Goto
  <2>2. CASE Goto(c, "close") /\ UNCHANGED won
    BY <1>12, <2>2 DEF ReadCall, Goto
  <2>3. QED
    BY <1>12, <2>1, <2>2 DEF ReadCall
<1>13. ASSUME NEW c \in Conns, ReadData(c) PROVE Typed'
  <2> DEFINE d == won[c]
  <2>1. d \in Senders /\ unread[d] \in Nat \ {0} /\ unread[d] <= Chunks[d]
    BY <1>13 DEF ReadData, Running, Conns
  <2>2. /\ Chunks[d] - unread[d] + 1 \in Nat
        /\ unread[d] - 1 \in Nat
        /\ unread[d] - 1 <= Chunks[d]
    BY <2>1, ServerAssumption
  <2>3. [conn |-> d, part |-> Chunks[d] - unread[d] + 1] \in Chunk
    BY <2>1, <2>2 DEF Chunk
  <2> HIDE DEF d
  <2>4. /\ wbuf' = [wbuf EXCEPT ![c] =
                     [conn |-> d, part |-> Chunks[d] - unread[d] + 1]]
        /\ unread' = [unread EXCEPT ![d] = unread[d] - 1]
        /\ wpc' = [wpc EXCEPT ![c] = "push"]
        /\ UNCHANGED <<client, backlog, tableVars, serverVars, wslot, won,
                       cmd_queue>>
    BY <1>13 DEF ReadData, Goto, d
  <2>5. TypeOK'
    BY <2>2, <2>3, <2>4
  <2>6. QED
    BY <2>1, <2>2, <2>3, <2>4, <2>5, ServerAssumption DEF Conns
<1>14. ASSUME NEW c \in Conns, ReadEof(c) PROVE Typed'
  BY <1>14 DEF ReadEof, Goto
<1>15. ASSUME NEW c \in Conns, PushFront(c) PROVE Typed'
  <2>1. CASE Fault(c)
    BY <1>15, <2>1 DEF PushFront, Fault
  <2>2. CASE ~Fault(c)
    <3>1. PICK e \in Strings(wbuf[c]) : cmd_queue' = <<e>> \o cmd_queue
      BY <1>15, <2>2 DEF PushFront
    <3>2. wpc[c] = "push" /\ wbuf[c] \in Chunk
      BY <1>15 DEF PushFront, Running
    <3>3. e \in Element
      BY <3>1, <3>2 DEF Strings, Chunk, Element
    <3>4. cmd_queue' \in Seq(Element)
      BY <3>1, <3>3
    <3>5. /\ wpc' = [wpc EXCEPT ![c] = "read"]
          /\ UNCHANGED <<clientVars, tableVars, serverVars, wslot, won, wbuf>>
      BY <1>15, <2>2 DEF PushFront, Goto
    <3> QED
      BY <3>4, <3>5
  <2> QED
    BY <2>1, <2>2
<1>16. ASSUME NEW c \in Conns, CloseFd(c) PROVE Typed'
  BY <1>16 DEF CloseFd, Goto
<1>17. ASSUME NEW c \in Conns, ClearSlot(c) PROVE Typed'
  BY <1>17 DEF ClearSlot, Goto
<1>18. CASE UNCHANGED vars
  BY <1>18 DEF vars
<1>19. QED
  BY <1>1, <1>2, <1>3, <1>4, <1>5, <1>6, <1>7, <1>8, <1>9, <1>10, <1>11,
     <1>12, <1>13, <1>14, <1>15, <1>16, <1>17, <1>18
     DEF Next, Server, ServerStep, Client, Worker

\* Type correctness of the command server.
THEOREM TypeCorrect == Spec => []TypeOK
<1>1. Typed => TypeOK
  BY DEF Typed
<1>2. QED
  BY <1>1, TypedInit, TypedNext, PTL DEF Spec

-----------------------------------------------------------------------------
(* Waiting connections. *)

LEMMA FreshInit == Init => Fresh
  BY DEF Init, Fresh, Untouched

\* A thread's step starts nothing.
LEMMA FreshWorker ==
  ASSUME Typed, Fresh, NEW c \in Conns, Worker(c)
  PROVE  Fresh'
<1>1. PICK pc \in {"read", "blocked", "push", "close", "clear", "done"} :
        wpc' = [wpc EXCEPT ![c] = pc]
  <2>1. CASE PushFront(c) /\ Fault(c)
    <3>1. wpc' = [wpc EXCEPT ![c] = "push"]
      BY <2>1 DEF PushFront, Running, Fault, workerVars, Typed, TypeOK
    <3> QED
      BY <3>1
  <2>2. CASE ~(PushFront(c) /\ Fault(c))
    BY <2>2 DEF Worker, ReadCall, ReadData, ReadEof, PushFront, CloseFd, ClearSlot,
                Goto
  <2> QED
    BY <2>1, <2>2
<1>2. wpc[c] # "none"
  BY DEF Worker, ReadCall, ReadData, ReadEof, PushFront, CloseFd, ClearSlot,
         Running
<1>3. /\ UNCHANGED <<client, backlog, accepted, orphans>>
      /\ srv' \in {srv, "exited"}
  BY DEF Worker, ReadCall, ReadData, ReadEof, PushFront, CloseFd, ClearSlot,
         Fault, clientVars, serverVars
<1>4. \A d \in Conns : Untouched(d) => Untouched(d)'
  BY <1>1, <1>2, <1>3 DEF Untouched, Typed, TypeOK
<1>5. \A k \in 1 .. Len(backlog) : backlog[k] \in Conns
  BY DEF Typed, TypeOK
<1>6. QED
  BY <1>3, <1>4, <1>5 DEF Fresh, Typed

LEMMA FreshNext == Typed /\ Fresh /\ [Next]_vars => Fresh'
<1> SUFFICES ASSUME Typed, Fresh, [Next]_vars PROVE Fresh'
  OBVIOUS
<1> USE DEF Fresh, Untouched, clientVars, tableVars, serverVars, workerVars
<1>0. \A k \in 1 .. Len(backlog) : backlog[k] \in Conns
  BY DEF Typed, TypeOK
<1>1. ASSUME NEW c \in Conns, Connect(c) PROVE Fresh'
  <2>1. /\ Len(backlog') = Len(backlog) + 1
        /\ \A k \in 1 .. Len(backlog) : backlog'[k] = backlog[k]
        /\ backlog'[Len(backlog) + 1] = c
    BY <1>1 DEF Connect, Typed, TypeOK
  <2>2. \A k \in 1 .. Len(backlog') :
          \/ k \in 1 .. Len(backlog) /\ backlog'[k] = backlog[k]
          \/ k = Len(backlog) + 1 /\ backlog'[k] = c
    BY <2>1 DEF Typed, TypeOK
  <2>3. /\ Untouched(c)
        /\ client[c] = "idle"
        /\ srv = "spawn" => accepted # c
        /\ \A k \in 1 .. Len(backlog) : backlog[k] # c
    BY <1>1, <1>0 DEF Connect
  <2>4. /\ \A d \in Conns : client'[d] = IF d = c THEN "connected" ELSE client[d]
        /\ UNCHANGED <<wpc, orphans, srv, accepted>>
    BY <1>1 DEF Connect, Typed, TypeOK
  <2>5. \A k \in 1 .. Len(backlog') :
          /\ client'[backlog'[k]] # "idle"
          /\ wpc'[backlog'[k]] = "none"
          /\ backlog'[k] \notin orphans'
          /\ srv' = "spawn" => accepted' # backlog'[k]
    BY <1>0, <2>2, <2>3, <2>4
  <2>6. \A j, k \in 1 .. Len(backlog') : backlog'[j] = backlog'[k] => j = k
    BY <2>2, <2>3
  <2>7. \A d \in Conns : client'[d] = "idle" => wpc'[d] = "none" /\ d \notin orphans'
    BY <2>4
  <2>8. srv' = "spawn" => /\ client'[accepted'] # "idle"
                          /\ wpc'[accepted'] = "none" /\ accepted' \notin orphans'
    BY <2>4 DEF Typed
  <2>9. QED
    BY <2>5, <2>6, <2>7, <2>8
<1>2. ASSUME NEW c \in Conns, ConnectFail(c) \/ Send(c) \/ Close(c)
      PROVE  Fresh'
  BY <1>0, <1>2 DEF ConnectFail, Send, Close, Typed, TypeOK
<1>3. CASE Listen \/ ScanSlot \/ ScanEnd \/ AcceptFail
  BY <1>0, <1>3 DEF Listen, ScanSlot, ScanEnd, AcceptFail
<1>4. CASE Accept
  <2>1. /\ backlog # <<>>
        /\ accepted' = backlog[1]
        /\ Len(backlog') = Len(backlog) - 1
        /\ \A k \in 1 .. Len(backlog') : backlog'[k] = backlog[k + 1]
        /\ srv = "accept"
        /\ UNCHANGED <<client, wpc, orphans>>
    BY <1>4 DEF Accept, Typed, TypeOK
  <2>2. Len(backlog) \in Nat \ {0}
    BY <2>1 DEF Typed, TypeOK
  <2>3. /\ 1 \in 1 .. Len(backlog)
        /\ \A k \in 1 .. Len(backlog') : k + 1 \in 1 .. Len(backlog) /\ k + 1 # 1
    BY <2>1, <2>2
  <2>4. \A k \in 1 .. Len(backlog') : backlog[k + 1] # backlog[1]
    BY <2>3
  <2>5. \A j, k \in 1 .. Len(backlog') : backlog'[j] = backlog'[k] => j = k
    <3> SUFFICES ASSUME NEW j \in 1 .. Len(backlog'), NEW k \in 1 .. Len(backlog'),
                        backlog'[j] = backlog'[k]
                 PROVE  j = k
      OBVIOUS
    <3>1. j + 1 = k + 1
      BY <2>1, <2>3
    <3>2. QED
      BY <3>1, <2>1, <2>2
  <2>6. QED
    BY <2>1, <2>3, <2>4, <2>5
<1>5. CASE Spawn \/ SpawnFail
  <2>1. /\ srv = "spawn" /\ srv' = "scan"
        /\ UNCHANGED <<client, backlog>>
        /\ accepted \in Conns
        /\ \A d \in Conns : Untouched(d) /\ d # accepted => Untouched(d)'
    BY <1>5 DEF Spawn, SpawnFail, NextIteration, Typed, TypeOK
  <2>2. QED
    BY <1>0, <2>1
<1>6. ASSUME NEW c \in Conns, Worker(c) PROVE Fresh'
  BY <1>6, FreshWorker
<1>7. CASE UNCHANGED vars
  BY <1>7 DEF vars
<1>8. QED
  BY <1>1, <1>2, <1>3, <1>4, <1>5, <1>6, <1>7 DEF Next, Server, ServerStep, Client

-----------------------------------------------------------------------------
(* The table. *)

LEMMA SlotInit == Init => SlotInv
  BY DEF Init, SlotInv, Exclusive, Own, Pointer, Accounted, Live, Serving

\* The part of the state SlotInv is about, but for wpc, won and wbuf.
slotVars == <<tableVars, serverVars, wslot>>

\* A thread goes from one point of its read loop to another.
LEMMA ServingStep ==
  ASSUME Typed, Exclusive, Own, Pointer, Accounted,
         NEW c \in Conns, Serving(c),
         NEW pc \in {"read", "blocked", "push", "close"},
         wpc' = [wpc EXCEPT ![c] = pc],
         UNCHANGED slotVars,
         \A d \in Conns : /\ wpc'[d] = "blocked" => won'[d] = d
                          /\ wpc'[d] = "push" => wbuf'[d].conn = d
  PROVE  SlotInv'
<1>1. \A d \in Conns : (Live(d)' <=> Live(d)) /\ (Serving(d)' <=> Serving(d))
  BY DEF Live, Serving, Typed, TypeOK
<1>2. UNCHANGED <<clientFds, fdtab, wslot, client_sockfd, srv, accepted, found,
                  orphans, overflow>>
  BY DEF slotVars, tableVars, serverVars
<1>3. Exclusive' /\ Own' /\ Pointer'
  BY <1>1, <1>2 DEF Exclusive, Own, Pointer
<1>4. Accounted'
  <2>1. \A f \in Fds : fdtab[f] # NoConn => fdtab[f] \in Conns
    BY DEF Typed, TypeOK
  <2>2. QED
    BY <1>1, <1>2, <2>1 DEF Accounted, Stored
<1>5. QED
  BY <1>3, <1>4 DEF SlotInv

LEMMA SlotWorker ==
  ASSUME Typed, Fresh, Exclusive, Own, Pointer, Accounted,
         NEW c \in Conns, Worker(c)
  PROVE  SlotInv'
<1> USE DEF Typed, TypeOK
<1>0. NoFd \notin Fds /\ NoConn \notin Conns
  BY ServerAssumption
<1>1. CASE ReadCall(c)
  <2>1. Serving(c) /\ Live(c)
    BY <1>1 DEF ReadCall, Running, Serving, Live
  <2>2. Open(clientFds[wslot[c]]) /\ fdtab[clientFds[wslot[c]]] = c
    BY <1>0, <2>1 DEF Own, Open
  <2>3. /\ won' = [won EXCEPT ![c] = c]
        /\ wpc' = [wpc EXCEPT ![c] = "blocked"]
        /\ UNCHANGED <<slotVars, wbuf>>
    BY <1>1, <2>2 DEF ReadCall, Goto, slotVars
  <2>4. \A d \in Conns : /\ wpc'[d] = "blocked" => won'[d] = d
                         /\ wpc'[d] = "push" => wbuf'[d].conn = d
    BY <2>3 DEF Own
  <2>5. QED
    BY <2>1, <2>3, <2>4, ServingStep
<1>2. CASE ReadData(c)
  <2>1. Serving(c) /\ wpc[c] = "blocked" /\ won[c] = c
    BY <1>2 DEF ReadData, Running, Serving, Own
  <2>2. PICK n : wbuf' = [wbuf EXCEPT ![c] = [conn |-> c, part |-> n]]
    BY <1>2, <2>1 DEF ReadData
  <2>3. /\ wpc' = [wpc EXCEPT ![c] = "push"]
        /\ UNCHANGED <<slotVars, won>>
    BY <1>2 DEF ReadData, Goto, slotVars
  <2>4. \A d \in Conns : /\ wpc'[d] = "blocked" => won'[d] = d
                         /\ wpc'[d] = "push" => wbuf'[d].conn = d
    BY <2>2, <2>3 DEF Own
  <2>5. QED
    BY <2>1, <2>3, <2>4, ServingStep
<1>3. CASE ReadEof(c) \/ (PushFront(c) /\ ~Fault(c))
  <2>1. Serving(c)
    BY <1>3 DEF ReadEof, PushFront, Running, Serving
  <2>2. PICK pc \in {"close", "read"} : wpc' = [wpc EXCEPT ![c] = pc]
    BY <1>3 DEF ReadEof, PushFront, Goto
  <2>3. UNCHANGED <<slotVars, won, wbuf>>
    BY <1>3 DEF ReadEof, PushFront, slotVars
  <2>4. \A d \in Conns : /\ wpc'[d] = "blocked" => won'[d] = d
                         /\ wpc'[d] = "push" => wbuf'[d].conn = d
    BY <2>2, <2>3 DEF Own
  <2>5. QED
    BY <2>1, <2>2, <2>3, <2>4, ServingStep
<1>4. CASE CloseFd(c)
  <2> DEFINE f == clientFds[wslot[c]]
  <2>1. Serving(c) /\ Live(c) /\ wpc[c] = "close" /\ f \in Fds /\ fdtab[f] = c
    BY <1>4 DEF CloseFd, Running, Serving, Live, Own
  <2>2. /\ fdtab' = [fdtab EXCEPT ![f] = NoConn]
        /\ wpc' = [wpc EXCEPT ![c] = "clear"]
        /\ UNCHANGED <<clientFds, serverVars, wslot, won, wbuf>>
    BY <1>0, <1>4, <2>1 DEF CloseFd, Goto
  <2> HIDE DEF f
  <2>3. \A d \in Conns : /\ Live(d)' <=> Live(d)
                         /\ Serving(d)' <=> Serving(d) /\ d # c
                         /\ wpc'[d] = "blocked" => wpc[d] = "blocked"
                         /\ wpc'[d] = "push" => wpc[d] = "push"
    BY <2>1, <2>2 DEF Live, Serving
  <2>4. Exclusive'
    BY <2>2, <2>3 DEF Exclusive
  <2>5. Own'
    BY <2>1, <2>2, <2>3 DEF Own, Serving, Live
  <2>6. Pointer'
    <3>1. srv = "spawn" => accepted # c
      BY <2>1 DEF Fresh, Untouched
    <3>2. QED
      BY <2>1, <2>2, <2>3, <3>1 DEF Pointer, serverVars
  <2>7. Accounted'
    <3> SUFFICES ASSUME NEW g \in Fds, fdtab'[g] # NoConn
                 PROVE  \E s \in Slots : Stored(g, s)'
      BY DEF Accounted
    <3>1. g # f /\ fdtab'[g] = fdtab[g] /\ fdtab[g] \in Conns
      BY <2>1, <2>2
    <3>2. PICK s \in Slots : Stored(g, s)
      BY <3>1, <1>0 DEF Accounted
    <3>3. Serving(fdtab[g]) /\ wslot[fdtab[g]] = s => fdtab[g] # c
      BY <3>1, <3>2 DEF Stored, f
    <3>4. QED
      BY <2>2, <2>3, <3>1, <3>2, <3>3 DEF Stored, serverVars
  <2>8. QED
    BY <2>4, <2>5, <2>6, <2>7 DEF SlotInv
<1>5. CASE ClearSlot(c)
  <2>1. Live(c) /\ ~Serving(c)
    BY <1>5 DEF ClearSlot, Running, Live, Serving
  <2>2. /\ clientFds' = [clientFds EXCEPT ![wslot[c]] = NoFd]
        /\ wpc' = [wpc EXCEPT ![c] = "done"]
        /\ UNCHANGED <<fdtab, serverVars, wslot, won, wbuf>>
    BY <1>5 DEF ClearSlot, Goto
  <2>3. \A d \in Conns : /\ Live(d)' <=> Live(d) /\ d # c
                         /\ Serving(d)' <=> Serving(d)
                         /\ Serving(d) => Live(d)
                         /\ wpc'[d] = "blocked" => wpc[d] = "blocked"
                         /\ wpc'[d] = "push" => wpc[d] = "push"
    BY <2>1, <2>2 DEF Live, Serving
  <2>4. \A d \in Conns : Live(d)' => wslot[d] # wslot[c] /\ d # c
    BY <2>1, <2>3 DEF Exclusive
  <2>5. Exclusive'
    BY <2>2, <2>3 DEF Exclusive
  <2>6. Own'
    <3>1. \A d \in Conns : Live(d)' => clientFds'[wslot'[d]] = clientFds[wslot[d]]
      BY <2>2, <2>4
    <3>2. \A d \in Conns : Serving(d) => Live(d)'
      BY <2>1, <2>3
    <3>3. QED
      BY <2>2, <2>3, <3>1, <3>2 DEF Own
  <2>7. Pointer'
    <3>1. srv = "spawn" => client_sockfd # wslot[c]
      BY <2>1 DEF Pointer
    <3>2. QED
      BY <2>2, <2>3, <3>1 DEF Pointer, serverVars
  <2>8. Accounted'
    <3> SUFFICES ASSUME NEW g \in Fds, fdtab'[g] # NoConn
                 PROVE  \E s \in Slots : Stored(g, s)'
      BY DEF Accounted
    <3>1. fdtab'[g] = fdtab[g] /\ fdtab[g] \in Conns
      BY <2>2
    <3>2. PICK s \in Slots : Stored(g, s)
      BY <3>1, <1>0 DEF Accounted
    <3>3. s # wslot[c]
      BY <2>1, <2>3, <3>1, <3>2 DEF Stored, Exclusive, Pointer
    <3>4. QED
      BY <2>2, <2>3, <3>1, <3>2, <3>3 DEF Stored, serverVars
  <2>9. QED
    BY <2>5, <2>6, <2>7, <2>8 DEF SlotInv
<1>6. CASE PushFront(c) /\ Fault(c)
  <2>1. srv' = "exited" /\ UNCHANGED <<tableVars, workerVars>>
    BY <1>6 DEF PushFront, Fault
  <2>2. Exclusive' /\ Own' /\ Pointer'
    BY <2>1 DEF Exclusive, Own, Pointer, Live, Serving, tableVars, workerVars
  <2>3. QED
    BY <2>1, <2>2 DEF SlotInv
<1>7. PushFront(c) => (PushFront(c) /\ Fault(c)) \/ (PushFront(c) /\ ~Fault(c))
  OBVIOUS
<1>8. QED
  BY <1>1, <1>2, <1>3, <1>4, <1>5, <1>6, <1>7, Zenon DEF Worker

LEMMA SlotServer ==
  ASSUME Typed, Fresh, Exclusive, Own, Pointer, Accounted, Server, ~overflow'
  PROVE  SlotInv'
<1> USE DEF Typed, TypeOK
<1>0. NoFd \notin Fds /\ NoConn \notin Conns
  BY ServerAssumption
<1>1. CASE Listen \/ ScanSlot \/ ScanEnd
  <2>1. /\ UNCHANGED <<tableVars, workerVars, accepted, orphans>>
        /\ srv # "spawn" /\ srv' # "spawn"
    BY <1>1 DEF Listen, ScanSlot, ScanEnd
  <2>2. Exclusive' /\ Own'
    BY <2>1 DEF Exclusive, Own, Live, Serving, tableVars, workerVars
  <2>3. Pointer'
    BY <1>1, <2>1 DEF Listen, ScanSlot, ScanEnd, Pointer, tableVars
  <2>4. Accounted'
    BY <2>1 DEF Accounted, Stored, Live, Serving, tableVars, workerVars
  <2>5. QED
    BY <2>2, <2>3, <2>4 DEF SlotInv
<1>2. CASE Accept
  <2>1. PICK f \in Fds :
          /\ fdtab[f] = NoConn
          /\ fdtab' = [fdtab EXCEPT ![f] = accepted']
          /\ clientFds' = [clientFds EXCEPT ![client_sockfd] = f]
    BY <1>2 DEF Accept
  <2>2. /\ srv = "accept" /\ srv' = "spawn"
        /\ accepted' \in Conns
        /\ UNCHANGED <<workerVars, client_sockfd, orphans>>
    BY <1>2 DEF Accept
  <2>3. /\ clientFds[client_sockfd] = NoFd
        /\ \A c \in Conns : Live(c) => wslot[c] # client_sockfd
    BY <1>0, <2>2 DEF Pointer, Own
  <2>4. \A c \in Conns : Serving(c) => Live(c) /\ clientFds[wslot[c]] # f
    BY <1>0, <2>1 DEF Own, Serving, Live
  <2>5. Exclusive'
    BY <2>2 DEF Exclusive, Live, workerVars
  <2>6. Own'
    <3>1. \A c \in Conns : /\ Live(c)' <=> Live(c)
                           /\ Serving(c)' <=> Serving(c)
      BY <2>2 DEF Live, Serving, workerVars
    <3>2. QED
      BY <2>1, <2>2, <2>3, <2>4, <3>1 DEF Own, workerVars
  <2>7. Pointer'
    BY <2>1, <2>2, <2>3 DEF Pointer, Live, workerVars
  <2>8. Accounted'
    <3> SUFFICES ASSUME NEW g \in Fds, fdtab'[g] # NoConn
                 PROVE  \E s \in Slots : Stored(g, s)'
      BY DEF Accounted
    <3>1. CASE g = f
      BY <2>1, <2>2, <3>1 DEF Stored
    <3>2. CASE g # f
      <4>1. fdtab'[g] = fdtab[g] /\ fdtab[g] # NoConn
        BY <2>1, <3>2
      <4>2. PICK s \in Slots : Stored(g, s)
        BY <4>1 DEF Accounted
      <4>3. clientFds'[s] = g
        BY <1>0, <2>1, <2>3, <4>2 DEF Stored
      <4>4. QED
        BY <2>2, <4>1, <4>2, <4>3 DEF Stored, Serving, Live, workerVars
    <3>3. QED
      BY <3>1, <3>2
  <2>9. QED
    BY <2>5, <2>6, <2>7, <2>8 DEF SlotInv
<1>3. CASE AcceptFail
  <2>1. /\ srv = "accept" /\ srv' = "exited"
        /\ UNCHANGED <<tableVars, workerVars, orphans>>
    BY <1>3 DEF AcceptFail, Pointer, tableVars
  <2>2. Exclusive' /\ Own' /\ Pointer' /\ Accounted'
    BY <2>1 DEF Exclusive, Own, Pointer, Accounted, Stored, Live, Serving,
                tableVars, workerVars
  <2>3. QED
    BY <2>2 DEF SlotInv
<1>4. CASE Spawn
  <2> DEFINE a == accepted
  <2>1. /\ srv = "spawn" /\ srv' = "scan" /\ ~found'
        /\ wpc' = [wpc EXCEPT ![a] = "read"]
        /\ wslot' = [wslot EXCEPT ![a] = client_sockfd]
        /\ UNCHANGED <<tableVars, won, wbuf, orphans, client_sockfd>>
    BY <1>4 DEF Spawn, NextIteration
  <2>2. /\ a \in Conns /\ wpc[a] = "none" /\ a \notin orphans
        /\ clientFds[client_sockfd] \in Fds
        /\ fdtab[clientFds[client_sockfd]] = a
        /\ \A c \in Conns : Live(c) => wslot[c] # client_sockfd
    BY <2>1 DEF Fresh, Untouched, Pointer
  <2> HIDE DEF a
  <2>3. \A c \in Conns :
          /\ Live(c)' <=> Live(c) \/ c = a
          /\ Serving(c)' <=> Serving(c) \/ c = a
          /\ wslot'[c] = IF c = a THEN client_sockfd ELSE wslot[c]
          /\ wpc'[c] = "blocked" => wpc[c] = "blocked"
          /\ wpc'[c] = "push" => wpc[c] = "push"
    BY <2>1, <2>2 DEF Live, Serving
  <2>4. Exclusive'
    BY <2>2, <2>3 DEF Exclusive
  <2>5. Own'
    BY <2>1, <2>2, <2>3 DEF Own, tableVars
  <2>6. Pointer'
    BY <2>1 DEF Pointer
  <2>7. Accounted'
    <3> SUFFICES ASSUME NEW g \in Fds, fdtab[g] # NoConn
                 PROVE  \E s \in Slots : Stored(g, s)'
      BY <2>1 DEF Accounted, tableVars
    <3>1. PICK s \in Slots : Stored(g, s)
      BY DEF Accounted
    <3>2. CASE fdtab[g] = a
      <4>1. s = client_sockfd
        BY <2>2, <3>1, <3>2 DEF Stored, Serving
      <4>2. QED
        BY <2>1, <2>2, <2>3, <3>1, <3>2, <4>1 DEF Stored, tableVars
    <3>3. CASE fdtab[g] # a
      <4>1. s # client_sockfd
        BY <2>2, <3>1, <3>3 DEF Stored
      <4>2. QED
        BY <2>1, <2>3, <3>1, <3>3, <4>1 DEF Stored, tableVars, a
    <3>4. QED
      BY <3>2, <3>3
  <2>8. QED
    BY <2>4, <2>5, <2>6, <2>7 DEF SlotInv
<1>5. CASE SpawnFail
  <2>1. /\ srv = "spawn" /\ srv' = "scan" /\ ~found'
        /\ orphans' = orphans \cup {accepted}
        /\ UNCHANGED <<tableVars, workerVars>>
    BY <1>5 DEF SpawnFail, NextIteration
  <2>2. Exclusive' /\ Own' /\ Pointer'
    BY <2>1 DEF Exclusive, Own, Pointer, Live, Serving, tableVars, workerVars
  <2>3. \A c \in Conns : /\ Live(c)' <=> Live(c)
                         /\ Serving(c)' <=> Serving(c)
                         /\ srv = "spawn" /\ Live(c) => wslot[c] # client_sockfd
    BY <2>1 DEF Live, Serving, Pointer, workerVars
  <2>4. Accounted'
    <3> SUFFICES ASSUME NEW g \in Fds, fdtab[g] # NoConn
                 PROVE  \E s \in Slots : Stored(g, s)'
      BY <2>1 DEF Accounted, tableVars
    <3>1. PICK s \in Slots : Stored(g, s)
      BY DEF Accounted
    <3>2. fdtab[g] \in Conns
      OBVIOUS
    <3>3. QED
      BY <2>1, <2>3, <3>1, <3>2 DEF Stored, tableVars, workerVars
  <2>5. QED
    BY <2>2, <2>4 DEF SlotInv
<1>6. QED
  BY <1>1, <1>2, <1>3, <1>4, <1>5 DEF Server, ServerStep

LEMMA SlotNext == Typed /\ Fresh /\ SlotInv /\ [Next]_vars => SlotInv'
<1> SUFFICES ASSUME Typed, Fresh, SlotInv, [Next]_vars, ~overflow'
             PROVE  SlotInv'
  BY DEF SlotInv
<1>1. ~overflow
  BY DEF Next, Server, ServerStep, Client, Worker, Connect, ConnectFail, Send, Close,
         Listen, ScanSlot, ScanEnd, Accept, AcceptFail, Spawn, SpawnFail,
         ReadCall, ReadData, ReadEof, PushFront, Fault, CloseFd, ClearSlot,
         vars, serverVars, Typed, TypeOK
<1>2. Exclusive /\ Own /\ Pointer /\ (srv # "exited" => Accounted)
  BY <1>1 DEF SlotInv
<1>3. CASE Server
  <2>1. srv # "exited"
    BY <1>3 DEF Server, ServerStep, Listen, ScanSlot, ScanEnd, Accept, AcceptFail,
                Spawn, SpawnFail
  <2>2. QED
    BY <1>2, <1>3, <2>1, SlotServer
<1>4. ASSUME NEW c \in Conns, Worker(c) PROVE SlotInv'
  <2>1. srv # "exited"
    BY <1>4 DEF Worker, ReadCall, ReadData, ReadEof, PushFront, CloseFd, ClearSlot,
                Running
  <2>2. QED
    BY <1>2, <1>4, <2>1, SlotWorker
<1>5. CASE (\E c \in Conns : Client(c)) \/ UNCHANGED vars
  <2>1. UNCHANGED <<tableVars, serverVars, workerVars>>
    BY <1>5 DEF Client, Connect, ConnectFail, Send, Close, vars
  <2>2. Exclusive' /\ Own' /\ Pointer' /\ (srv' # "exited" => Accounted')
    BY <1>2, <2>1 DEF Exclusive, Own, Pointer, Accounted, Stored, Live,
                      Serving, tableVars, serverVars, workerVars
  <2>3. QED
    BY <2>2 DEF SlotInv
<1>6. QED
  BY <1>3, <1>4, <1>5 DEF Next

-----------------------------------------------------------------------------
(* The chunks in the queue. *)

\* The positions from a on that hold a chunk of connection c.
ChunksOf(q, a, c) == {b \in a .. Len(q) : q[b].conn = c}
InQueue(c) == Cardinality(ChunksOf(cmd_queue, 1, c))
InHand(c) == IF wpc[c] = "push" THEN 1 ELSE 0

\* Nothing of c's message has come to the server.
Unsent(c) == InQueue(c) = 0 /\ unread[c] = 0 /\ wpc[c] # "push"

PartsInv ==
  ~overflow =>
    /\ PartsInOrder
    /\ \A c \in Senders :
         /\ client[c] \in {"idle", "connected"} => Unsent(c)
         /\ Unsent(c) \/ InQueue(c) + InHand(c) + unread[c] = Chunks[c]
         /\ wpc[c] = "push" => wbuf[c].part = InQueue(c) + 1

\* A set of positions and the set one position further on have the same size.
LEMMA ShiftedSet ==
  ASSUME NEW S \in SUBSET Int, IsFiniteSet(S)
  PROVE  LET T == {b + 1 : b \in S}
         IN  IsFiniteSet(T) /\ Cardinality(T) = Cardinality(S)
<1> DEFINE T == {b + 1 : b \in S}
           f == [b \in S |-> b + 1]
<1>1. f \in Bijection(S, T)
  BY DEF Bijection, Injection, Surjection, IsInjective
<1> QED
  BY <1>1, FS_Bijection DEF ExistsBijection

LEMMA ChunksFinite ==
  ASSUME NEW q \in Seq(Element), NEW a \in Nat, NEW c
  PROVE  /\ ChunksOf(q, a, c) \in SUBSET Int
         /\ IsFiniteSet(ChunksOf(q, a, c))
         /\ Cardinality(ChunksOf(q, a, c)) \in Nat
<1>1. Len(q) \in Nat
  BY LenProperties
<1>2. IsFiniteSet(a .. Len(q))
  BY <1>1, FS_Interval
<1>3. ChunksOf(q, a, c) \in SUBSET (a .. Len(q))
  BY DEF ChunksOf
<1>4. IsFiniteSet(ChunksOf(q, a, c))
  BY <1>2, <1>3, FS_Subset
<1> QED
  BY <1>3, <1>4, FS_CardinalityType

\* push_front: the chunks in the queue move one position back, and the first
\* position is one more of its connection.
LEMMA PushedChunks ==
  ASSUME NEW q \in Seq(Element), NEW x \in Element, NEW c \in Senders
  PROVE  LET r == <<x>> \o q
         IN  /\ r \in Seq(Element) /\ Len(r) = Len(q) + 1 /\ r[1] = x
             /\ \A k \in 1 .. Len(q) : r[k + 1] = q[k]
             /\ \A a \in 1 .. Len(q) :
                  Cardinality(ChunksOf(r, a + 1, c)) = Cardinality(ChunksOf(q, a, c))
             /\ Cardinality(ChunksOf(r, 1, c)) =
                  IF x.conn = c THEN Cardinality(ChunksOf(q, 1, c)) + 1
                  ELSE Cardinality(ChunksOf(q, 1, c))
<1> DEFINE r == <<x>> \o q
<1>1. Len(q) \in Nat
  BY LenProperties
<1>2. <<x>> \in Seq(Element) /\ Len(<<x>>) = 1 /\ <<x>>[1] = x
  OBVIOUS
<1>3. /\ r \in Seq(Element) /\ Len(r) = Len(q) + 1
      /\ \A k \in 1 .. Len(q) + 1 : r[k] = IF k <= 1 THEN <<x>>[k] ELSE q[k - 1]
  <2>1. /\ r \in Seq(Element) /\ Len(r) = 1 + Len(q)
        /\ \A k \in 1 .. 1 + Len(q) : r[k] = IF k <= 1 THEN <<x>>[k] ELSE q[k - 1]
    BY <1>2, ConcatProperties
  <2> QED
    BY <1>1, <2>1
<1> HIDE DEF r
<1>4. r[1] = x /\ \A k \in 1 .. Len(q) : r[k + 1] = q[k]
  BY <1>1, <1>2, <1>3
<1>5. ASSUME NEW a \in 1 .. Len(q) + 1
      PROVE  Cardinality(ChunksOf(r, a + 1, c)) = Cardinality(ChunksOf(q, a, c))
  <2>1. ChunksOf(r, a + 1, c) = {b + 1 : b \in ChunksOf(q, a, c)}
    <3>1. ASSUME NEW b \in ChunksOf(r, a + 1, c)
          PROVE  b \in {d + 1 : d \in ChunksOf(q, a, c)}
      <4>1. b \in a + 1 .. Len(q) + 1 /\ r[b].conn = c
        BY <1>3, <3>1 DEF ChunksOf
      <4>2. b - 1 \in a .. Len(q) /\ b - 1 \in 1 .. Len(q) /\ b = (b - 1) + 1
        BY <1>1, <4>1
      <4>3. r[b] = q[b - 1]
        BY <1>4, <4>2
      <4> QED
        BY <4>1, <4>2, <4>3 DEF ChunksOf
    <3>2. ASSUME NEW b \in ChunksOf(q, a, c) PROVE b + 1 \in ChunksOf(r, a + 1, c)
      <4>1. b \in a .. Len(q) /\ b \in 1 .. Len(q) /\ q[b].conn = c
        BY <1>1, <3>2 DEF ChunksOf
      <4>2. b + 1 \in a + 1 .. Len(r)
        BY <1>1, <1>3, <4>1
      <4> QED
        BY <1>4, <4>1, <4>2 DEF ChunksOf
    <3> QED
      BY <3>1, <3>2
  <2>2. a \in Nat
    BY <1>1
  <2>3. /\ ChunksOf(q, a, c) \in SUBSET Int
        /\ IsFiniteSet(ChunksOf(q, a, c))
    BY <2>2, ChunksFinite
  <2>4. Cardinality({b + 1 : b \in ChunksOf(q, a, c)}) = Cardinality(ChunksOf(q, a, c))
    BY <2>3, ShiftedSet
  <2> QED
    BY <2>1, <2>4
<1>6. Cardinality(ChunksOf(r, 1, c)) =
        IF x.conn = c THEN Cardinality(ChunksOf(q, 1, c)) + 1
        ELSE Cardinality(ChunksOf(q, 1, c))
  <2>1. Cardinality(ChunksOf(r, 2, c)) = Cardinality(ChunksOf(q, 1, c))
    BY <1>1, <1>5
  <2>2. IsFiniteSet(ChunksOf(r, 2, c)) /\ Cardinality(ChunksOf(q, 1, c)) \in Nat
    BY <1>3, ChunksFinite
  <2>3. 1 \notin ChunksOf(r, 2, c)
    BY <1>1, <1>3 DEF ChunksOf
  <2>4. ChunksOf(r, 1, c) = IF x.conn = c THEN ChunksOf(r, 2, c) \cup {1}
                            ELSE ChunksOf(r, 2, c)
    BY <1>1, <1>3, <1>4 DEF ChunksOf
  <2>5. CASE x.conn = c
    <3>1. Cardinality(ChunksOf(r, 2, c) \cup {1}) = Cardinality(ChunksOf(r, 2, c)) + 1
      BY <2>2, <2>3, FS_AddElement
    <3> QED
      BY <2>1, <2>4, <2>5, <3>1
  <2>6. CASE x.conn # c
    BY <2>1, <2>2, <2>4, <2>6
  <2> QED
    BY <2>5, <2>6
<1> QED
  BY <1>3, <1>4, <1>5, <1>6 DEF r

LEMMA InQueueType ==
  ASSUME Typed
  PROVE  \A c : InQueue(c) \in Nat
BY ChunksFinite DEF InQueue, Typed, TypeOK

\* What the invariant says of one sender.
PartsOf(c) ==
  /\ client[c] \in {"idle", "connected"} => Unsent(c)
  /\ Unsent(c) \/ InQueue(c) + InHand(c) + unread[c] = Chunks[c]
  /\ wpc[c] = "push" => wbuf[c].part = InQueue(c) + 1

\* Most steps move no chunk.
LEMMA PartsKept ==
  ASSUME PartsInv, overflow' \/ ~overflow,
         UNCHANGED <<unread, wbuf, cmd_queue>>,
         \A c \in Senders :
           /\ wpc'[c] = "push" <=> wpc[c] = "push"
           /\ client'[c] \in {"idle", "connected"} => client[c] \in {"idle", "connected"}
  PROVE  PartsInv'
<1> SUFFICES ASSUME ~overflow, ~overflow' PROVE PartsInv'
  BY DEF PartsInv
<1>1. PartsInOrder'
  BY DEF PartsInv, PartsInOrder
<1>2. ASSUME NEW c \in Senders PROVE PartsOf(c)'
  <2>1. (Unsent(c)' <=> Unsent(c)) /\ InQueue(c)' = InQueue(c) /\ InHand(c)' = InHand(c)
    BY DEF Unsent, InQueue, InHand
  <2> QED
    BY <2>1 DEF PartsInv, PartsOf
<1> QED
  BY <1>1, <1>2 DEF PartsInv, PartsOf

\* The sender's write hands the whole message to the kernel, or nothing.
LEMMA PartsSend ==
  ASSUME Typed, PartsInv, NEW c \in Conns, Send(c)
  PROVE  PartsInv'
<1> SUFFICES ASSUME ~overflow PROVE PartsInv'
  BY DEF PartsInv, Send, serverVars
<1>1. /\ c \in Senders /\ client[c] = "connected" /\ client'[c] = "written"
      /\ unread'[c] \in {0, Chunks[c]}
      /\ \A d \in Senders \ {c} : client'[d] = client[d] /\ unread'[d] = unread[d]
      /\ UNCHANGED <<wpc, wbuf, cmd_queue, overflow>>
  BY DEF Send, Typed, TypeOK, serverVars, workerVars
<1>2. PartsInOrder'
  BY <1>1 DEF PartsInv, PartsInOrder
<1>3. \A d \in Senders : InQueue(d)' = InQueue(d) /\ InHand(d)' = InHand(d)
  BY <1>1 DEF InQueue, InHand
<1>4. Unsent(c) /\ InHand(c) = 0 /\ InQueue(c) = 0
  BY <1>1 DEF PartsInv, Unsent, InHand
<1>5. Chunks[c] \in Nat
  BY <1>1, ServerAssumption
<1>6. PartsOf(c)'
  BY <1>1, <1>3, <1>4, <1>5 DEF PartsOf, Unsent
<1>7. \A d \in Senders \ {c} : PartsOf(d)'
  BY <1>1, <1>3 DEF PartsInv, PartsOf, Unsent
<1> QED
  BY <1>2, <1>6, <1>7 DEF PartsInv, PartsOf

\* A read takes the next chunk of the thread's own connection into its hand.
LEMMA PartsRead ==
  ASSUME Typed, SlotInv, PartsInv, NEW c \in Conns, ReadData(c)
  PROVE  PartsInv'
<1> SUFFICES ASSUME ~overflow PROVE PartsInv'
  BY DEF PartsInv, ReadData, serverVars
<1>1. wpc[c] = "blocked" /\ won[c] = c
  BY DEF ReadData, Running, SlotInv, Own
<1>2. c \in Senders /\ unread[c] \in Nat \ {0}
  BY <1>1 DEF ReadData, Typed, TypeOK, Conns
<1>3. /\ wpc' = [wpc EXCEPT ![c] = "push"]
      /\ wbuf' = [wbuf EXCEPT ![c] = [conn |-> c, part |-> Chunks[c] - unread[c] + 1]]
      /\ unread' = [unread EXCEPT ![c] = unread[c] - 1]
      /\ UNCHANGED <<client, cmd_queue, overflow>>
  BY <1>1 DEF ReadData, Goto, serverVars
<1>4. /\ wpc'[c] = "push"
      /\ wbuf'[c].part = Chunks[c] - unread[c] + 1
      /\ unread'[c] = unread[c] - 1
      /\ \A d \in Senders \ {c} : /\ wpc'[d] = wpc[d] /\ wbuf'[d] = wbuf[d]
                                  /\ unread'[d] = unread[d]
  BY <1>2, <1>3 DEF Typed, TypeOK, Conns
<1>5. PartsInOrder'
  BY <1>3 DEF PartsInv, PartsInOrder
<1>6. \A d \in Senders : InQueue(d)' = InQueue(d)
  BY <1>3 DEF InQueue
<1>7. PartsOf(c)'
  <2>1. client[c] \notin {"idle", "connected"} /\ InHand(c) = 0
    BY <1>1, <1>2 DEF PartsInv, Unsent, InHand
  <2>2. InQueue(c) + unread[c] = Chunks[c] /\ InQueue(c) \in Nat /\ Chunks[c] \in Nat
    BY <1>2, <2>1, InQueueType, ServerAssumption DEF PartsInv, Unsent
  <2>3. InHand(c)' = 1
    BY <1>4 DEF InHand
  <2> QED
    BY <1>2, <1>3, <1>4, <1>6, <2>1, <2>2, <2>3 DEF PartsOf
<1>8. \A d \in Senders \ {c} : PartsOf(d)'
  BY <1>3, <1>4, <1>6 DEF PartsInv, PartsOf, Unsent, InHand
<1> QED
  BY <1>5, <1>7, <1>8 DEF PartsInv, PartsOf

\* The chunk in a thread's hand becomes the newest of its connection.
LEMMA PartsPush ==
  ASSUME Typed, SlotInv, PartsInv, NEW c \in Conns, PushFront(c), ~Fault(c)
  PROVE  PartsInv'
<1> SUFFICES ASSUME ~overflow PROVE PartsInv'
  BY DEF PartsInv, PushFront, serverVars
<1> DEFINE q == cmd_queue
<1>0. PICK x \in Strings(wbuf[c]) : cmd_queue' = <<x>> \o cmd_queue
  BY DEF PushFront
<1>1. /\ wpc[c] = "push" /\ x \in Element /\ x.conn = c /\ c \in Senders
      /\ x.part = wbuf[c].part
      /\ x.overrun => Fills(x)
  <2>1. wpc[c] = "push" /\ wbuf[c] \in Chunk /\ wbuf[c].conn = c
    BY DEF PushFront, Running, SlotInv, Own, Typed
  <2> QED
    BY <1>0, <2>1 DEF Strings, Chunk, Element, Fills
<1>2. /\ q \in Seq(Element) /\ cmd_queue' = <<x>> \o q
      /\ \A d \in Senders : wpc'[d] = IF d = c THEN "read" ELSE wpc[d]
      /\ UNCHANGED <<client, unread, wbuf, overflow>>
  BY <1>0 DEF PushFront, Goto, Typed, TypeOK, Conns, clientVars, serverVars
<1>3. /\ Len(cmd_queue') = Len(q) + 1 /\ cmd_queue'[1] = x
      /\ \A k \in 1 .. Len(q) : cmd_queue'[k + 1] = q[k]
      /\ \A d \in Senders : \A a \in 1 .. Len(q) :
           Cardinality(ChunksOf(cmd_queue', a + 1, d)) = Cardinality(ChunksOf(q, a, d))
      /\ \A d \in Senders : Cardinality(ChunksOf(cmd_queue', 1, d)) =
                  IF c = d THEN Cardinality(ChunksOf(q, 1, d)) + 1
                  ELSE Cardinality(ChunksOf(q, 1, d))
  <2>1. q \in Seq(Element) /\ x \in Element /\ cmd_queue' = <<x>> \o q
    BY <1>1, <1>2
  <2> HIDE DEF q
  <2>2. ASSUME NEW d \in Senders
        PROVE  LET r == <<x>> \o q
               IN  /\ Len(r) = Len(q) + 1 /\ r[1] = x
                   /\ \A k \in 1 .. Len(q) : r[k + 1] = q[k]
                   /\ \A a \in 1 .. Len(q) :
                        Cardinality(ChunksOf(r, a + 1, d)) = Cardinality(ChunksOf(q, a, d))
                   /\ Cardinality(ChunksOf(r, 1, d)) =
                        IF x.conn = d THEN Cardinality(ChunksOf(q, 1, d)) + 1
                        ELSE Cardinality(ChunksOf(q, 1, d))
    BY <2>1, PushedChunks
  <2>3. x.conn = c
    BY <1>1
  <2> QED
    BY <2>1, <2>2, <2>3
<1>4. \A d \in Senders : InQueue(d)' = IF c = d THEN InQueue(d) + 1 ELSE InQueue(d)
  BY <1>3 DEF InQueue
<1>5. x.part = InQueue(c) + 1
  BY <1>1 DEF PartsInv
<1>6. PartsInOrder'
  <2>1. \A a \in 1 .. Len(q) :
          /\ q[a].part = Cardinality(ChunksOf(q, a, q[a].conn))
          /\ q[a].overrun => Fills(q[a])
    BY DEF PartsInv, PartsInOrder, ChunksOf
  <2> SUFFICES ASSUME NEW a \in 1 .. Len(cmd_queue')
               PROVE  /\ cmd_queue'[a].part =
                           Cardinality(ChunksOf(cmd_queue', a, cmd_queue'[a].conn))
                      /\ cmd_queue'[a].overrun => Fills(cmd_queue'[a])
    BY DEF PartsInOrder, ChunksOf, Fills
  <2>2. CASE a = 1
    BY <1>1, <1>3, <1>5, <2>2 DEF InQueue
  <2>3. CASE a # 1
    <3>1. Len(q) \in Nat
      BY <1>2, LenProperties
    <3>2. a - 1 \in 1 .. Len(q) /\ a = (a - 1) + 1
      BY <1>3, <2>3, <3>1
    <3> DEFINE k == a - 1
    <3>3. /\ cmd_queue'[k + 1] = q[k]
          /\ q[k].part = Cardinality(ChunksOf(q, k, q[k].conn))
          /\ q[k].overrun => Fills(q[k])
      BY <1>3, <2>1, <3>2
    <3>4. q[k].conn \in Senders
      <4>1. q[k] \in Element
        BY <1>2, <3>2, ElementOfSeq
      <4> QED
        BY <4>1 DEF Element
    <3>5. Cardinality(ChunksOf(cmd_queue', k + 1, q[k].conn))
            = Cardinality(ChunksOf(q, k, q[k].conn))
      BY <1>3, <3>2, <3>4
    <3> QED
      BY <3>2, <3>3, <3>5
  <2> QED
    BY <2>2, <2>3
<1>7. PartsOf(c)'
  <2>1. ~Unsent(c) /\ InHand(c) = 1 /\ InHand(c)' = 0
    BY <1>1, <1>2 DEF Unsent, InHand
  <2>2. InQueue(c) \in Nat /\ unread[c] \in Nat
    BY <1>1, InQueueType DEF Typed, TypeOK, Conns
  <2>3. client[c] \notin {"idle", "connected"} /\ InQueue(c) + 1 + unread[c] = Chunks[c]
    BY <1>1, <2>1 DEF PartsInv
  <2>4. InQueue(c)' = InQueue(c) + 1
    BY <1>1, <1>4
  <2> QED
    BY <1>1, <1>2, <2>1, <2>2, <2>3, <2>4 DEF PartsOf
<1>8. \A d \in Senders \ {c} : PartsOf(d)'
  <2> SUFFICES ASSUME NEW d \in Senders \ {c} PROVE PartsOf(d)'
    OBVIOUS
  <2>1. InQueue(d)' = InQueue(d)
    BY <1>4, InQueueType
  <2> QED
    BY <1>2, <2>1 DEF PartsInv, PartsOf, Unsent, InHand
<1> QED
  BY <1>6, <1>7, <1>8 DEF PartsInv, PartsOf

LEMMA PartsNext ==
  ASSUME Typed, Fresh, SlotInv, PartsInv, [Next]_vars
  PROVE  PartsInv'
<1> USE DEF clientVars, serverVars, workerVars
<1>1. overflow' \/ ~overflow
  BY DEF Next, Server, ServerStep, Client, Worker, Connect, ConnectFail, Send, Close,
         Listen, ScanSlot, ScanEnd, Accept, AcceptFail, Spawn, SpawnFail,
         ReadCall, ReadData, ReadEof, PushFront, Fault, CloseFd, ClearSlot,
         vars, Typed, TypeOK
<1>2. CASE Server
  <2>1. UNCHANGED <<client, unread, wbuf, cmd_queue>>
    BY <1>2 DEF Server, ServerStep, Listen, ScanSlot, ScanEnd, Accept, AcceptFail,
                Spawn, SpawnFail
  <2>2. \A c \in Senders : wpc'[c] = "push" <=> wpc[c] = "push"
    BY <1>2 DEF Server, ServerStep, Listen, ScanSlot, ScanEnd, Accept, AcceptFail,
                Spawn, SpawnFail, Typed, TypeOK, Fresh, Untouched, Conns
  <2> QED
    BY <1>1, <2>1, <2>2, PartsKept
<1>3. ASSUME NEW c \in Conns, Client(c) PROVE PartsInv'
  <2>1. CASE Send(c)
    BY <2>1, PartsSend
  <2>2. CASE Connect(c) \/ ConnectFail(c) \/ Close(c)
    <3>1. UNCHANGED <<unread, wpc, wbuf, cmd_queue>>
      BY <2>2 DEF Connect, ConnectFail, Close
    <3>2. \A d \in Senders :
            client'[d] \in {"idle", "connected"} => client[d] \in {"idle", "connected"}
      BY <2>2 DEF Connect, ConnectFail, Close, Typed, TypeOK, Conns
    <3> QED
      BY <1>1, <3>1, <3>2, PartsKept
  <2> QED
    BY <1>3, <2>1, <2>2 DEF Client
<1>4. ASSUME NEW c \in Conns, Worker(c) PROVE PartsInv'
  <2>1. CASE ReadData(c)
    BY <2>1, PartsRead
  <2>2. CASE PushFront(c)
    <3>1. CASE Fault(c)
      <4>1. UNCHANGED <<client, unread, wbuf, cmd_queue, wpc>>
        BY <2>2, <3>1 DEF PushFront, Fault
      <4> QED
        BY <1>1, <4>1, PartsKept
    <3> QED
      BY <2>2, <3>1, PartsPush
  <2>3. CASE ReadCall(c) \/ ReadEof(c) \/ CloseFd(c) \/ ClearSlot(c)
    <3>1. UNCHANGED <<client, unread, wbuf, cmd_queue>>
      BY <2>3 DEF ReadCall, ReadEof, CloseFd, ClearSlot
    <3>2. \A d \in Senders : wpc'[d] = "push" <=> wpc[d] = "push"
      BY <2>3 DEF ReadCall, ReadEof, CloseFd, ClearSlot, Goto, Running, Typed,
                  TypeOK, Conns
    <3> QED
      BY <1>1, <3>1, <3>2, PartsKept
  <2> QED
    BY <1>4, <2>1, <2>2, <2>3 DEF Worker
<1>5. CASE UNCHANGED vars
  BY <1>1, <1>5, PartsKept DEF vars
<1> QED
  BY <1>2, <1>3, <1>4, <1>5 DEF Next

LEMMA PartsInit == Init => PartsInv
<1> SUFFICES ASSUME Init PROVE PartsInv
  OBVIOUS
<1>1. Len(cmd_queue) = 0 /\ \A c : ChunksOf(cmd_queue, 1, c) = {}
  BY DEF Init, ChunksOf
<1>2. \A c : InQueue(c) = 0
  BY <1>1, FS_EmptySet DEF InQueue
<1>3. \A c \in Senders : Unsent(c)
  BY <1>2 DEF Init, Unsent, Conns
<1>4. PartsInOrder
  BY <1>1 DEF PartsInOrder
<1> QED
  BY <1>3, <1>4 DEF PartsInv, Unsent

-----------------------------------------------------------------------------
(* Receivers. *)

\* Connection c waits in listen()'s queue, or is between accept and its thread.
Waiting(c) ==
  \/ \E k \in 1 .. Len(backlog) : backlog[k] = c
  \/ srv = "spawn" /\ accepted = c

WaitInv ==
  /\ srv = "start" => backlog = <<>> /\ \A c \in Conns : wpc[c] = "none"
  /\ ~overflow => \A c \in Receivers :
       /\ wpc[c] \in {"none", "read", "blocked"}
       /\ client[c] = "closed" /\ srv # "exited" => wpc[c] = "none" /\ ~Waiting(c)

LEMMA WaitInit == Init => WaitInv
  BY DEF Init, WaitInv, Waiting, Conns

\* A receiver gives up only when the server has closed its end.
LEMMA WaitClient ==
  ASSUME Typed, Fresh, SlotInv, WaitInv, NEW c \in Conns, Client(c)
  PROVE  WaitInv'
<1> USE DEF clientVars, serverVars, workerVars, tableVars
<1>1. /\ UNCHANGED <<wpc, srv, accepted, overflow>>
      /\ \A d \in Conns \ {c} : client'[d] = client[d]
  BY DEF Client, Connect, ConnectFail, Send, Close, Typed, TypeOK
<1>2. CASE Connect(c)
  <2>1. /\ srv # "start" /\ client'[c] = "connected"
        /\ Len(backlog') = Len(backlog) + 1
        /\ \A k \in 1 .. Len(backlog) : backlog'[k] = backlog[k]
        /\ backlog'[Len(backlog) + 1] = c
    BY <1>2 DEF Connect, Listening, Typed, TypeOK
  <2>2. Len(backlog) \in Nat
    BY LenProperties DEF Typed, TypeOK
  <2>3. \A d \in Conns \ {c} : Waiting(d)' => Waiting(d)
    BY <1>1, <2>1, <2>2 DEF Waiting
  <2> QED
    BY <1>1, <2>1, <2>3 DEF WaitInv, Conns
<1>3. CASE ConnectFail(c) \/ Send(c) \/ Close(c)
  <2>1. UNCHANGED backlog /\ \A d \in Conns : Waiting(d)' <=> Waiting(d)
    BY <1>1, <1>3 DEF ConnectFail, Send, Close, Waiting
  <2>2. ASSUME c \in Receivers, client'[c] = "closed", srv # "exited", ~overflow
        PROVE  wpc[c] = "none" /\ ~Waiting(c)
    <3>1. CASE srv = "start"
      BY <3>1, EmptySeq DEF WaitInv, Waiting, Conns
    <3>2. CASE Send(c)
      BY <2>2, <3>2, ServerAssumption DEF Send
    <3>3. CASE ConnectFail(c) /\ srv # "start"
      BY <2>2, <3>3 DEF ConnectFail, Listening
    <3>4. CASE Close(c) /\ srv # "start"
      <4>1. Listening /\ ~ServerEnd(c)
        BY <2>2, <3>4, ServerAssumption DEF Close, Listening
      <4>2. /\ \A k \in 1 .. Len(backlog) : backlog[k] # c
            /\ \A f \in Fds : fdtab[f] # c
        BY <4>1 DEF ServerEnd
      <4>3. ~Waiting(c)
        BY <2>2, <4>2 DEF Waiting, SlotInv, Pointer
      <4>4. wpc[c] \notin {"read", "blocked"}
        BY <2>2, <4>2 DEF SlotInv, Own, Live, Serving
      <4> QED
        BY <2>2, <4>3, <4>4 DEF WaitInv
    <3> QED
      BY <1>3, <3>1, <3>2, <3>3, <3>4
  <2> QED
    BY <1>1, <2>1, <2>2 DEF WaitInv, Conns
<1> QED
  BY <1>2, <1>3 DEF Client

\* The server starts a thread only for a connection whose client still waits.
LEMMA WaitServer ==
  ASSUME Typed, WaitInv, Server
  PROVE  WaitInv'
<1> USE DEF clientVars, serverVars, workerVars, tableVars
<1>1. client' = client /\ srv' # "start" /\ (overflow' \/ ~overflow)
  BY DEF Server, ServerStep, Listen, ScanSlot, ScanEnd, Accept, AcceptFail, Spawn,
         SpawnFail, NextIteration, Typed, TypeOK
<1>2. CASE Listen \/ ScanSlot \/ ScanEnd \/ AcceptFail
  <2>1. UNCHANGED <<wpc, backlog>> /\ srv # "exited" /\ srv' # "spawn"
    BY <1>2 DEF Listen, ScanSlot, ScanEnd, AcceptFail
  <2>2. \A c : Waiting(c)' => Waiting(c)
    BY <2>1 DEF Waiting
  <2> QED
    BY <1>1, <2>1, <2>2 DEF WaitInv
<1>3. CASE Accept
  <2>1. /\ backlog # <<>> /\ accepted' = backlog[1]
        /\ Len(backlog') = Len(backlog) - 1
        /\ \A k \in 1 .. Len(backlog') : backlog'[k] = backlog[k + 1]
        /\ srv = "accept" /\ UNCHANGED <<wpc, overflow>>
    BY <1>3 DEF Accept, Typed, TypeOK
  <2>2. Len(backlog) \in Nat \ {0}
    BY <2>1, EmptySeq DEF Typed, TypeOK
  <2>3. \A c : Waiting(c)' => Waiting(c)
    BY <2>1, <2>2 DEF Waiting
  <2> QED
    BY <1>1, <2>1, <2>3 DEF WaitInv
<1>4. CASE Spawn \/ SpawnFail
  <2>1. /\ srv = "spawn" /\ srv' = "scan" /\ UNCHANGED <<backlog, overflow>>
        /\ wpc' = wpc \/ wpc' = [wpc EXCEPT ![accepted] = "read"]
    BY <1>4 DEF Spawn, SpawnFail, NextIteration
  <2>4. \A c \in Conns : wpc'[c] = wpc[c] \/ (c = accepted /\ wpc'[c] = "read")
    <3>1. DOMAIN wpc = Conns
      BY DEF Typed, TypeOK
    <3> QED
      BY <2>1, <3>1
  <2>2. \A c : Waiting(c)' => Waiting(c)
    BY <2>1 DEF Waiting
  <2>3. Waiting(accepted)
    BY <2>1 DEF Waiting
  <2> QED
    BY <1>1, <2>1, <2>2, <2>3, <2>4 DEF WaitInv, Conns
<1> QED
  BY <1>2, <1>3, <1>4 DEF Server, ServerStep

\* A receiver's thread finds its descriptor open and nothing to read.
LEMMA WaitWorker ==
  ASSUME Typed, SlotInv, WaitInv, NEW c \in Conns, Worker(c)
  PROVE  WaitInv'
<1> USE DEF clientVars, serverVars, workerVars, tableVars
<1>1. /\ UNCHANGED <<client, backlog, accepted, overflow>>
      /\ srv' \in {srv, "exited"}
      /\ srv # "exited" /\ wpc[c] # "none"
  BY DEF Worker, ReadCall, ReadData, ReadEof, PushFront, Fault, CloseFd, ClearSlot,
         Running
<1>6. \A d \in Conns \ {c} : wpc'[d] = wpc[d]
  BY DEF Worker, ReadCall, ReadData, ReadEof, PushFront, Fault, CloseFd, ClearSlot,
         Goto, Typed, TypeOK
<1>2. srv # "start" /\ srv' # "start"
  BY <1>1 DEF WaitInv
<1>3. ASSUME c \in Receivers, ~overflow
      PROVE  wpc'[c] = "blocked"
  <2>1. wpc[c] \in {"read", "blocked"} /\ client[c] # "closed"
    BY <1>1, <1>3 DEF WaitInv
  <2>2. CASE ReadCall(c)
    <3>1. Open(clientFds[wslot[c]])
      BY <1>3, <2>1, ServerAssumption DEF SlotInv, Own, Live, Serving, Open, Conns
    <3> QED
      BY <2>2, <3>1 DEF ReadCall, Goto, Typed, TypeOK
  <2>3. CASE wpc[c] = "blocked"
    <3>1. won[c] = c /\ unread[c] = 0
      BY <1>3, <2>3 DEF SlotInv, Own, Typed
    <3> QED
      BY <2>1, <2>3, <3>1 DEF Worker, ReadCall, ReadData, ReadEof, PushFront,
         CloseFd, ClearSlot, Running
  <2> QED
    BY <2>1, <2>2, <2>3 DEF Worker, ReadData, ReadEof, PushFront, CloseFd,
       ClearSlot, Running
<1>4. \A d : Waiting(d)' => Waiting(d)
  BY <1>1 DEF Waiting
<1>5. ASSUME NEW d \in Receivers, ~overflow
      PROVE  /\ wpc'[d] \in {"none", "read", "blocked"}
             /\ client'[d] = "closed" => wpc'[d] = "none" /\ ~Waiting(d)'
  <2>1. CASE d = c
    BY <1>1, <1>3, <1>5, <2>1 DEF WaitInv
  <2>2. CASE d # c
    BY <1>1, <1>4, <1>5, <1>6, <2>2 DEF WaitInv, Conns
  <2> QED
    BY <2>1, <2>2
<1> QED
  BY <1>1, <1>2, <1>5 DEF WaitInv

LEMMA WaitNext ==
  ASSUME Typed, Fresh, SlotInv, WaitInv, [Next]_vars
  PROVE  WaitInv'
<1>1. CASE UNCHANGED vars
  BY <1>1 DEF vars, clientVars, serverVars, workerVars, WaitInv, Waiting
<1> QED
  BY <1>1, WaitClient, WaitServer, WaitWorker DEF Next

-----------------------------------------------------------------------------
(* The theorems. *)

IInv == Typed /\ Fresh /\ SlotInv /\ PartsInv /\ WaitInv

LEMMA Inductive == Spec => []IInv
<1>1. Init => IInv
  BY TypedInit, FreshInit, SlotInit, PartsInit, WaitInit DEF IInv
<1>2. IInv /\ [Next]_vars => IInv'
  BY TypedNext, FreshNext, SlotNext, PartsNext, WaitNext DEF IInv
<1>3. QED
  BY <1>1, <1>2, PTL DEF Spec

\* As long as no scan has run past a full table, two threads never share an
\* entry of clientFds.
THEOREM SlotsAreExclusive == Spec => []SlotExclusive
<1>1. IInv => SlotExclusive
  BY DEF IInv, SlotInv, Exclusive, SlotExclusive
<1>2. QED
  BY <1>1, Inductive, PTL

\* With the same proviso, every read() and close() of a thread is on the
\* connection it was started for.
THEOREM ConnectionsAreOwn == Spec => []OwnConnection
<1>1. IInv => OwnConnection
  BY DEF IInv, SlotInv, Own, OwnConnection, Serving, Live
<1>2. QED
  BY <1>1, Inductive, PTL

\* With the same proviso, no descriptor is lost: it is stored in the table, and
\* a thread is going to close it unless its pthread_create failed.
THEOREM DescriptorsAreKept == Spec => []NoDescriptorLeak
<1>1. IInv => NoDescriptorLeak
  BY DEF IInv, SlotInv, Accounted, Stored, Serving, NoDescriptorLeak
<1>2. QED
  BY <1>1, Inductive, PTL

\* With the same proviso, the chunks of a message that spans several reads enter
\* the queue in order and without a gap, and only a chunk that filled the buffer
\* can have bytes behind it that nobody sent.
THEOREM PartsEnterInOrder == Spec => []PartsInOrder
<1>1. IInv => PartsInOrder
  BY DEF IInv, PartsInv, PartsInOrder
<1>2. QED
  BY <1>1, Inductive, PTL

\* With the same proviso, recv_unix_msg never returns while the server runs.
THEOREM ReceiversWait == Spec => []ReceiverWaits
<1>1. IInv => ReceiverWaits
  BY DEF IInv, WaitInv, ReceiverWaits
<1>2. QED
  BY <1>1, Inductive, PTL
=============================================================================
