--------------------------- MODULE CommandServer ---------------------------
(***************************************************************************)
(* The command server of the daemon: startServer() accepts connections on  *)
(* a Unix stream socket and starts one thread per connection, which runs   *)
(* cmd_input_func().  The threads are handed a POINTER to an entry of      *)
(* clientFds: server and thread share that entry, without a lock, for the  *)
(* life of the connection.  An entry of -1 is free.                        *)
(*                                                                         *)
(* The clients are the two functions of myUnixSocketCli.c: a sender        *)
(* connects, writes one message and closes; a receiver connects and reads. *)
(*                                                                         *)
(* cmd_queue is only filled here: CommandQueue models its consumer and the *)
(* races inside push_front, which is one step in this module.              *)
(***************************************************************************)
EXTENDS Naturals, Sequences, FiniteSets

CONSTANTS
  Senders,      \* calls of send_unix_msg_onetime
  Receivers,    \* calls of recv_unix_msg
  MaxClient,    \* MAX_CLIENT, the number of entries of clientFds
  Fds,          \* descriptor numbers the process can have open
  Chunks,       \* Chunks[c]: reads of MAX_BUF_SIZ bytes that c's message takes
  Filling,      \* senders whose message fills the buffer in the last read too
  NoConn,       \* no connection
  NoFd          \* -1: the entry is free

Conns == Senders \cup Receivers
Slots == 0 .. MaxClient - 1

ASSUME ServerAssumption ==
  /\ MaxClient \in Nat \ {0}
  /\ NoFd \notin Fds
  /\ Chunks \in [Senders -> Nat \ {0}]
  /\ Filling \subseteq Senders
  /\ NoConn \notin Conns
  /\ Senders \cap Receivers = {}

VARIABLES
  client,         \* client[c]: how far the client function has got
  unread,         \* unread[c]: chunks the kernel holds for the server's end
  backlog,        \* connections waiting in listen()'s queue
  fdtab,          \* fdtab[fd]: connection fd is open on, or NoConn
  clientFds,      \* the shared table
  client_sockfd,  \* the entry the server thread points at
  srv,            \* program counter of the server thread
  i,              \* its scan index
  accepted,       \* connection accept() returned last
  wpc,            \* wpc[c]: program counter of the thread started for c
  wslot,          \* wslot[c]: the entry that thread was handed
  won,            \* won[c]: connection its blocked read() is on
  wbuf,           \* wbuf[c]: its buf, the chunk read and not yet queued
  cmd_queue,      \* the command queue, front first
  found,          \* history: this scan has met a free entry
  overflow,       \* history: some scan met none
  orphans         \* history: connections whose pthread_create failed

clientVars == <<client, unread, backlog>>
tableVars  == <<clientFds, fdtab>>
serverVars == <<client_sockfd, srv, i, accepted, found, overflow, orphans>>
workerVars == <<wpc, wslot, won, wbuf, cmd_queue>>
vars == <<clientVars, tableVars, serverVars, workerVars>>

Chunk == [conn : Senders, part : Nat]
NoChunk == [conn |-> NoConn, part |-> 0]

\* An element of cmd_queue; overrun: with bytes behind it that nobody sent.
Element == [conn : Senders, part : Nat, overrun : BOOLEAN]

\* Has the read of x filled buf, so that no byte of the memset is left in it?
Fills(x) == x.part < Chunks[x.conn] \/ x.conn \in Filling

Live(c) == wpc[c] \notin {"none", "done"}

Init ==
  /\ client = [c \in Conns |-> "idle"]
  /\ unread = [c \in Conns |-> 0]
  /\ backlog = <<>>
  /\ fdtab = [f \in Fds |-> NoConn]
  /\ clientFds = [s \in Slots |-> NoFd]
  /\ client_sockfd \in Slots            \* uninitialised
  /\ srv = "start"
  /\ i = 0
  /\ accepted = NoConn
  /\ wpc = [c \in Conns |-> "none"]
  /\ wslot = [c \in Conns |-> 0]
  /\ won = [c \in Conns |-> NoConn]
  /\ wbuf = [c \in Conns |-> NoChunk]
  /\ cmd_queue = <<>>
  /\ found = FALSE
  /\ overflow = FALSE
  /\ orphans = {}

-----------------------------------------------------------------------------
(* The client functions. *)

Listening == srv \notin {"start", "exited"}

\* connect(): succeeds once the server listens and its queue has room.
Connect(c) ==
  /\ client[c] = "idle"
  /\ Listening
  /\ Len(backlog) <= MaxClient
  /\ client' = [client EXCEPT ![c] = "connected"]
  /\ backlog' = Append(backlog, c)
  /\ UNCHANGED <<unread, tableVars, serverVars, workerVars>>

\* connect() is refused: the function closes its socket and returns -1.
ConnectFail(c) ==
  /\ client[c] = "idle"
  /\ ~Listening
  /\ client' = [client EXCEPT ![c] = "closed"]
  /\ UNCHANGED <<unread, backlog, tableVars, serverVars, workerVars>>

\* Has the server not yet closed its end of connection c?
ServerEnd(c) ==
  /\ Listening
  /\ \/ \E k \in 1 .. Len(backlog) : backlog[k] = c
     \/ \E f \in Fds : fdtab[f] = c

\* A sender's only write(); its result is ignored.
Send(c) ==
  /\ c \in Senders
  /\ client[c] = "connected"
  /\ client' = [client EXCEPT ![c] = "written"]
  /\ unread' = [unread EXCEPT ![c] = IF ServerEnd(c) THEN Chunks[c] ELSE 0]
  /\ UNCHANGED <<backlog, tableVars, serverVars, workerVars>>

\* A sender closes after its write; a receiver when its read() returns, which
\* is at the server's close, because the server never writes.
Close(c) ==
  /\ \/ c \in Senders /\ client[c] = "written"
     \/ c \in Receivers /\ client[c] = "connected" /\ ~ServerEnd(c)
  /\ client' = [client EXCEPT ![c] = "closed"]
  /\ UNCHANGED <<unread, backlog, tableVars, serverVars, workerVars>>

-----------------------------------------------------------------------------
(* The server thread, startServer(). *)

\* unlink, socket, bind, listen; any failure ends the process.
Listen ==
  /\ srv = "start"
  /\ srv' \in {"scan", "exited"}
  /\ UNCHANGED <<clientVars, tableVars, workerVars,
                 client_sockfd, i, accepted, found, overflow, orphans>>

\* Mutant of ScanSlot: whether the entry is free is not looked at.
ScanSlot_AnyEntry ==
  /\ srv = "scan"
  /\ i < MaxClient
  /\ client_sockfd' = i
  /\ found' = TRUE
  /\ i' = i + 1
  /\ UNCHANGED <<clientVars, tableVars, workerVars,
                 srv, accepted, overflow, orphans>>

\* One iteration of the loop that looks for a free entry; the last one wins.
ScanSlot ==
  /\ srv = "scan"
  /\ i < MaxClient
  /\ IF clientFds[i] = NoFd
     THEN client_sockfd' = i /\ found' = TRUE
     ELSE UNCHANGED <<client_sockfd, found>>
  /\ i' = i + 1
  /\ UNCHANGED <<clientVars, tableVars, workerVars,
                 srv, accepted, overflow, orphans>>

\* The loop ends.  Nothing looks at whether it met a free entry: with none,
\* client_sockfd is uninitialised and points to whatever entry it happens to,
\* the one of the iteration before for example, or the process faults.
ScanEnd ==
  /\ srv = "scan"
  /\ i = MaxClient
  /\ \/ found /\ srv' = "accept" /\ UNCHANGED client_sockfd
     \/ ~found /\ srv' \in {"accept", "exited"} /\ client_sockfd' \in Slots
  /\ overflow' = (overflow \/ ~found)
  /\ UNCHANGED <<clientVars, tableVars, workerVars,
                 i, accepted, found, orphans>>

Accept ==
  /\ srv = "accept"
  /\ backlog # <<>>
  /\ \E f \in Fds :
       /\ fdtab[f] = NoConn
       /\ fdtab' = [fdtab EXCEPT ![f] = Head(backlog)]
       /\ clientFds' = [clientFds EXCEPT ![client_sockfd] = f]
  /\ accepted' = Head(backlog)
  /\ backlog' = Tail(backlog)
  /\ srv' = "spawn"
  /\ UNCHANGED <<client, unread, workerVars,
                 client_sockfd, i, found, overflow, orphans>>

\* accept() fails: -1 is stored in the entry and the process exits.
AcceptFail ==
  /\ srv = "accept"
  /\ clientFds' = [clientFds EXCEPT ![client_sockfd] = NoFd]
  /\ srv' = "exited"
  /\ UNCHANGED <<clientVars, fdtab, workerVars,
                 client_sockfd, i, accepted, found, overflow, orphans>>

NextIteration == srv' = "scan" /\ i' = 0 /\ found' = FALSE

\* Mutant of Spawn: the thread is handed the entry the scan looked at last.
Spawn_LastScanned ==
  /\ srv = "spawn"
  /\ wpc' = [wpc EXCEPT ![accepted] = "read"]
  /\ wslot' = [wslot EXCEPT ![accepted] = MaxClient - 1]
  /\ NextIteration
  /\ UNCHANGED <<clientVars, tableVars, won, wbuf, cmd_queue,
                 client_sockfd, accepted, overflow, orphans>>

Spawn ==
  /\ srv = "spawn"
  /\ wpc' = [wpc EXCEPT ![accepted] = "read"]
  /\ wslot' = [wslot EXCEPT ![accepted] = client_sockfd]
  /\ NextIteration
  /\ UNCHANGED <<clientVars, tableVars, won, wbuf, cmd_queue,
                 client_sockfd, accepted, overflow, orphans>>

\* pthread_create() reports failure with a positive number, the code compares
\* with -1: it goes on as if the thread ran.
SpawnFail ==
  /\ srv = "spawn"
  /\ orphans' = orphans \cup {accepted}
  /\ NextIteration
  /\ UNCHANGED <<clientVars, tableVars, workerVars,
                 client_sockfd, accepted, overflow>>

-----------------------------------------------------------------------------
(* A connection's thread, cmd_input_func(); it is named after the connection *)
(* it was started for, and reads its descriptor anew from its entry in every *)
(* call.                                                                     *)

Goto(c, pc) == wpc' = [wpc EXCEPT ![c] = pc]
Running(c, pc) == srv # "exited" /\ wpc[c] = pc

Open(f) == f # NoFd /\ fdtab[f] # NoConn

\* read() is called; on a descriptor that is not open it fails.
ReadCall(c) ==
  /\ Running(c, "read")
  /\ LET f == clientFds[wslot[c]] IN
       \/ /\ Open(f)
          /\ won' = [won EXCEPT ![c] = fdtab[f]]
          /\ Goto(c, "blocked")
       \/ /\ ~Open(f)
          /\ Goto(c, "close")
          /\ UNCHANGED won
  /\ UNCHANGED <<clientVars, tableVars, serverVars, wslot, wbuf, cmd_queue>>

\* read() returns up to MAX_BUF_SIZ bytes.
ReadData(c) ==
  /\ Running(c, "blocked")
  /\ LET d == won[c] IN
       /\ unread[d] > 0
       /\ wbuf' = [wbuf EXCEPT
                    ![c] = [conn |-> d, part |-> Chunks[d] - unread[d] + 1]]
       /\ unread' = [unread EXCEPT ![d] = @ - 1]
  /\ Goto(c, "push")
  /\ UNCHANGED <<client, backlog, tableVars, serverVars, wslot, won, cmd_queue>>

\* Mutant of ReadEof: the thread gives up on a client that is merely slow.
ReadEof_Impatient(c) ==
  /\ Running(c, "blocked")
  /\ unread[won[c]] = 0
  /\ Goto(c, "close")
  /\ UNCHANGED <<clientVars, tableVars, serverVars, wslot, won, wbuf, cmd_queue>>

\* Mutant of ReadEof: a closed client is noticed before its data are read.
ReadEof_DropsData(c) ==
  /\ Running(c, "blocked")
  /\ client[won[c]] = "closed"
  /\ Goto(c, "close")
  /\ UNCHANGED <<clientVars, tableVars, serverVars, wslot, won, wbuf, cmd_queue>>

\* Mutant of ReadEof: the loop ends for read() < 0 only.
ReadEof_Again(c) ==
  /\ Running(c, "blocked")
  /\ unread[won[c]] = 0
  /\ client[won[c]] = "closed"
  /\ Goto(c, "read")
  /\ UNCHANGED <<clientVars, tableVars, serverVars, wslot, won, wbuf, cmd_queue>>

\* read() returns 0 at the end of the stream.
ReadEof(c) ==
  /\ Running(c, "blocked")
  /\ unread[won[c]] = 0
  /\ client[won[c]] = "closed"
  /\ Goto(c, "close")
  /\ UNCHANGED <<clientVars, tableVars, serverVars, wslot, won, wbuf, cmd_queue>>

\* cmd_queue.push_front(string(buf)).  The string ends at the first NUL, and
\* there is none in a buf that a read has filled: printf and string(buf) run on
\* into what lies behind buf, meet a NUL there at once or later, or fault.
Strings(x) == [conn : {x.conn}, part : {x.part},
               overrun : IF Fills(x) THEN BOOLEAN ELSE {FALSE}]

Fault(c) ==
  /\ Fills(wbuf[c])
  /\ srv' = "exited"
  /\ UNCHANGED <<tableVars, client_sockfd, i, accepted, found, overflow, orphans,
                 workerVars>>

\* Mutant of PushFront: push_back.
PushFront_Back(c) ==
  /\ Running(c, "push")
  /\ \/ /\ \E e \in Strings(wbuf[c]) : cmd_queue' = Append(cmd_queue, e)
        /\ Goto(c, "read")
        /\ UNCHANGED <<tableVars, serverVars, wslot, won, wbuf>>
     \/ Fault(c)
  /\ UNCHANGED clientVars

PushFront(c) ==
  /\ Running(c, "push")
  /\ \/ /\ \E e \in Strings(wbuf[c]) : cmd_queue' = <<e>> \o cmd_queue
        /\ Goto(c, "read")
        /\ UNCHANGED <<tableVars, serverVars, wslot, won, wbuf>>
     \/ Fault(c)
  /\ UNCHANGED clientVars

\* Mutant of CloseFd: the entry is cleared before the descriptor is closed.
CloseFd_AfterClear(c) ==
  /\ Running(c, "close")
  /\ clientFds' = [clientFds EXCEPT ![wslot[c]] = NoFd]
  /\ Goto(c, "clear")
  /\ UNCHANGED <<clientVars, fdtab, serverVars, wslot, won, wbuf, cmd_queue>>

\* close(*sockfd)
CloseFd(c) ==
  /\ Running(c, "close")
  /\ LET f == clientFds[wslot[c]] IN
       fdtab' = IF f = NoFd THEN fdtab ELSE [fdtab EXCEPT ![f] = NoConn]
  /\ Goto(c, "clear")
  /\ UNCHANGED <<clientVars, clientFds, serverVars, wslot, won, wbuf, cmd_queue>>

\* *sockfd = -1 and the thread returns
ClearSlot(c) ==
  /\ Running(c, "clear")
  /\ clientFds' = [clientFds EXCEPT ![wslot[c]] = NoFd]
  /\ Goto(c, "done")
  /\ UNCHANGED <<clientVars, fdtab, serverVars, wslot, won, wbuf, cmd_queue>>

-----------------------------------------------------------------------------

Client(c) == Connect(c) \/ ConnectFail(c) \/ Send(c) \/ Close(c)
ServerStep == Listen \/ ScanSlot \/ ScanEnd \/ Accept \/ Spawn \/ SpawnFail
Server == ServerStep \/ AcceptFail
Worker(c) == ReadCall(c) \/ ReadData(c) \/ ReadEof(c) \/ PushFront(c)
             \/ CloseFd(c) \/ ClearSlot(c)

Next == Server \/ \E c \in Conns : Client(c) \/ Worker(c)

Spec == Init /\ [][Next]_vars

NoFdLeft == \A f \in Fds : fdtab[f] # NoConn

\* The threads of the daemon are scheduled; a client that has written goes on
\* to close.  Nobody has to connect or to write.  accept() need not fail, except
\* that it does when the process has no descriptor left.
Fairness ==
  /\ WF_vars(ServerStep)
  /\ WF_vars(NoFdLeft /\ AcceptFail)
  /\ \A c \in Conns : WF_vars(Worker(c)) /\ WF_vars(Close(c))

FairSpec == Spec /\ Fairness

-----------------------------------------------------------------------------
(* Properties. *)

TypeOK ==
  /\ client \in [Conns -> {"idle", "connected", "written", "closed"}]
  /\ unread \in [Conns -> Nat]
  /\ backlog \in Seq(Conns)
  /\ fdtab \in [Fds -> Conns \cup {NoConn}]
  /\ clientFds \in [Slots -> Fds \cup {NoFd}]
  /\ client_sockfd \in Slots
  /\ srv \in {"start", "scan", "accept", "spawn", "exited"}
  /\ i \in 0 .. MaxClient
  /\ accepted \in Conns \cup {NoConn}
  /\ wpc \in [Conns -> {"none", "read", "blocked", "push", "close", "clear",
                        "done"}]
  /\ wslot \in [Conns -> Slots]
  /\ won \in [Conns -> Conns \cup {NoConn}]
  /\ wbuf \in [Conns -> Chunk \cup {NoChunk}]
  /\ cmd_queue \in Seq(Element)
  /\ found \in BOOLEAN
  /\ overflow \in BOOLEAN
  /\ orphans \subseteq Conns

\* SAFETY.  As long as no scan has run past a full table, two threads never
\* share an entry of clientFds: "if (clientFds[i] == -1)" is enough, without a
\* lock, because a thread's store of -1 is its last access.
SlotExclusive ==
  overflow \/ \A c, d \in Conns :
                Live(c) /\ Live(d) /\ wslot[c] = wslot[d] => c = d

\* SAFETY.  A thread reads and closes the connection it was started for, though
\* it looks its descriptor up in the shared table at every read() and close(),
\* and though descriptor numbers are used again.
OwnConnection ==
  overflow \/ \A c \in Conns :
    /\ wpc[c] \in {"read", "blocked", "push", "close"} =>
         /\ clientFds[wslot[c]] \in Fds
         /\ fdtab[clientFds[wslot[c]]] = c
    /\ wpc[c] = "blocked" => won[c] = c
    /\ wpc[c] = "push" => wbuf[c].conn = c

\* SAFETY.  As long as the process runs, every open descriptor is in the table
\* and somebody is going to close it: the thread of its connection, or the one
\* about to be started.
\* The exceptions are the connections whose pthread_create failed unnoticed.
NoDescriptorLeak ==
  overflow \/ srv = "exited" \/ \A f \in Fds :
    LET c == fdtab[f] IN
    c # NoConn =>
      \E s \in Slots :
        /\ clientFds[s] = f
        /\ \/ wpc[c] \in {"read", "blocked", "push", "close"} /\ wslot[c] = s
           \/ srv = "spawn" /\ accepted = c
           \/ c \in orphans

\* SAFETY.  The chunks of a message that spans several reads enter the queue
\* in order and without a gap, whatever the reads that fill the buffer do to
\* their text: behind the k-th chunk there are k - 1 others.  Bytes that nobody
\* sent stand only behind a chunk that filled the buffer, so never behind the
\* last one of a message, unless that fills it too.
PartsInOrder ==
  overflow \/ \A a \in 1 .. Len(cmd_queue) :
    /\ cmd_queue[a].part =
         Cardinality({b \in a .. Len(cmd_queue) :
                        cmd_queue[b].conn = cmd_queue[a].conn})
    /\ cmd_queue[a].overrun => Fills(cmd_queue[a])

\* SAFETY.  recv_unix_msg never returns while the server runs: client and
\* thread both wait in read() for the other, and the entry stays taken.
ReceiverWaits ==
  overflow \/ \A c \in Receivers :
    /\ wpc[c] \in {"none", "read", "blocked"}
    /\ client[c] = "closed" => wpc[c] = "none" \/ srv = "exited"

Queued(c) == \A k \in 1 .. Chunks[c] :
  \E a \in 1 .. Len(cmd_queue) : cmd_queue[a] \in Strings([conn |-> c, part |-> k])

\* LIVENESS.  A message whose write() succeeded reaches the queue, every part of
\* it intact that left room for a NUL, unless the table overflowed, the thread
\* of its connection could not be started, or the process ended.
Delivered ==
  \A c \in Senders :
    (unread[c] > 0) ~> (Queued(c) \/ overflow \/ c \in orphans
                        \/ srv = "exited")

\* LIVENESS.  When the client is gone its thread ends, and gives back
\* descriptor and entry, with the same exceptions.
Reclaimed ==
  \A c \in Senders :
    (client[c] = "closed" /\ Live(c)) ~> (wpc[c] = "done" \/ overflow
                                          \/ srv = "exited")
=============================================================================
