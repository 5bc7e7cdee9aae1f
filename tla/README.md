# TLA+ models of openflowAP

openflowAP is a daemon for OpenWrt access points. It takes configuration
commands over a Unix socket, stages and commits them, and lets a small neural
network decide from the stations' traffic when to raise or lower the transmit
power. Beside the daemon the repository holds a library: a leak detector, string and
process helpers, a linked queue, and clients of ubus and uci that serialise
their calls with a System V semaphore.

This directory holds TLA+ modules for the parts of it that are hard to test,
TLC configurations that check them on small instances, and proofs checked by
TLAPS that hold for instances of every size.

## Inventory

### The running daemon

`main` (`openflowAP.cpp`) reads the list of powers, sets the highest, starts three
threads and waits for the first of them.

| Component | Code | State | Operations | What is hard | What makes it correct |
|---|---|---|---|---|---|
| Command server | `lib/tools/myUnixSocketServer.c`, `cmd_input_func` | `clientFds[MAX_CLIENT]`, the descriptors, one thread per connection | scan for a free entry, accept, start a thread; read, queue, close, clear the entry | server and threads share the table without a lock; a thread gets a *pointer* to its entry; descriptor numbers are used again; no free entry, failed accept, failed pthread_create | a thread serves its own connection and shares its entry with nobody; nothing leaks; what is written gets queued |
| Unix socket client | `lib/tools/myUnixSocketCli.c` | one socket | send one message; receive one | the server never answers | a receiver waits as long as the server runs |
| Command queue and command thread | `cmd_queue`, `cmd_input_func`, `cmd_poll_func` | a `std::deque<string>`; a flag; uci's staged and committed settings | push_front; back, pop_back, run; commit, reload | an unlocked deque with several writers and a reader; a commit that fails for some packages, a reload that fails; stoi that throws | first in, first out; everything staged is committed and put in force, failures apart |
| Transmit power control | `lib/wireless/wdev_extend.cpp`, `wireless_poll_func`, `main` | list of powers, window of three samples, the radio's power | init, sample, raise, lower, set from a command | three callers, read-modify-write through shell commands; a query that fails | one level at a time, no flapping, follows lasting traffic |
| Traffic model | `lib/AI/tfLiteModel.cpp` | previous counters of the stations, TensorFlow interpreter | collect, difference, infer | stations come and go, counters restart, queries yield nothing | a difference is the traffic since the round before; nothing counts twice |
| Wireless queries | `lib/wireless/wdev.c` | the caller's buffer, an array of strings | ask ubus, iwinfo and uci through the shell; send settings to the daemon, each over a connection of its own | an answer put together from two queries in buffers of fixed size, one failure path for all; settings that overtake each other | the answer is whole or empty, nothing leaks; what is sent later overrides what was sent before |
| Shell helpers | `lib/tools/myprocess.c` | none | run a command, keep its last line or all of its output | more lines than the array holds, a line longer than the buffer | the lines kept are counted right |
| String helpers | `lib/tools/mystrTools.c` | a static buffer in `number2comma` | copy, append, split | sizes at the limit, freeing | nothing is written outside of a buffer |
| Leak detector | `lib/tools/myleak_detector_c.c` | a linked list: `ptr_start`, `ptr_next`, one record per block | xmalloc, xcalloc, xfree, report | pointers that are not updated | the list names exactly the blocks in use |

The threads interact through `cmd_queue` (connection threads to the command
thread), `clientFds` (server to connection threads and back) and the radio's
power, which the AI loop and the command thread both write.

### The library around it

| Component | Code | State | Operations | What is hard | What makes it correct |
|---|---|---|---|---|---|
| Ubus semaphore | `lib/tools/mysemaphore.c` | a System V semaphore, shared by processes | create or open, set to 1, take; give back, **remove** | every release removes the semaphore; creation takes two steps; failures are ignored | one process on the bus at a time |
| Ubus client | `lib/openwrt/myubus.c` | global result buffer, static blob buffer | call, just_call (under the semaphore); listen, wait_for, monitor | leaves with the semaphore taken, waits without a limit | calls come to an end |
| Uci client | `lib/openwrt/myuci.c` | configuration files and files of changes, shared by processes; a context with copies of packages, one per process | get, set, delete, revert, commit, batch; add, rename, reorder, import | copies in memory that are out of date; a call that fails, a process that ends between two calls; commits of several packages | a change is seen at once and alone, only a commit puts it in force, what a command reports is true |
| Linked queue | `lib/tools/myqueue.c` | a linked list | enqueue, dequeue, free | the ends of the list | first in, first out |
| Json helpers | `lib/tools/myjson.c` | none | look up, convert | | |

The makefile does not compile `lib/openwrt`; `mysemaphore` and `myqueue`
are linked into the daemon and used by nothing in it. Within the daemon the only
function that goes through the leak detector is `freeStrings`, which frees blocks
the detector has never seen.

## Modules

| Module | Models |
|---|---|
| `CommandServer` | the command server with its clients |
| `CommandServerProofs` | theorems about it |
| `CommandQueue` | the deque at the level of its loads and stores, and the command thread with uci's staging |
| `CommandQueueProofs` | theorems about it, the refinement of `CommandLog` among them |
| `CommandLog` | what the command queue promises: the abstract specification that `CommandQueue` implements |
| `DeviceSettings` | settings on their way from `setWirelessUcis` and `setSSID` through threads, queue and commits; composes with `CommandLog` |
| `DeviceSettingsProofs` | theorems about it |
| `TxPower` | the transmit power and its three writers |
| `TxPowerProofs` | theorems about it |
| `TrafficInput` | the differences of the stations' counters that the network is fed with |
| `TrafficInputProofs` | theorems about it |
| `WirelessUcis` | `getWirelessUcis` with `systemEx`, `strcat_safe`, `copyString_m` and `freeStrings` under it |
| `WirelessUcisProofs` | theorems about it |
| `UbusCall` | processes that call ubus under the semaphore |
| `UciCli` | processes that change, read and commit options with the uci client |
| `UciStore` | what the client promises them: the abstract specification that `UciCli` implements |
| `UciCliProofs` | theorems about it, the refinement among them |
| `LeakDetector` | the leak detector's list in a heap that hands freed memory out again |
| `ToolsProofs` | theorems about it and about `UbusCall` |
| `MC...` | constants and symmetry for the runs |

Variables and actions carry the names of the code where TLA+ allows it; the history
variables, which the code does not have and which only properties look at, are
marked `history` where they are declared. A definition whose name has an
underscore and a suffix, such as `ScanSlot_AnyEntry`, is a deliberate mistake: a form
of the definition before the underscore that a plausible bug would give it. No
specification uses these; put in place of the original they break the property
they stand for, which shows that the property can fail. (The names of C functions
in variables, such as `client_sockfd`, are not meant by this.)

### CommandServer

One action is one step that another thread can observe: an iteration of the scan
(`ScanSlot`), its end (`ScanEnd`), `accept` with the store into the entry
(`Accept`), `pthread_create` (`Spawn`, `SpawnFail`); in a connection's thread the
call of `read` with its load of `*sockfd` (`ReadCall`), the return of that call
(`ReadData`, `ReadEof`), `push_front`, `close(*sockfd)`, and `*sockfd = -1`.
`fdtab` is the kernel's side: on which connection a descriptor is open. A
descriptor that is closed may be given out by the next `accept`, which is what
makes the order of `close` and `*sockfd = -1` matter. A message is a number of
chunks, the reads of `MAX_BUF_SIZ` bytes that it takes.

`read` is given the whole of `buf`, so that a chunk that fills it (`Fills`: every chunk of a message but the last,
and the last one if the message is in `Filling`) leaves no NUL of the `memset`. `printf` and `string(buf)` then run
on into what lies behind `buf`, which is undefined: `PushFront` queues the chunk as it is (there
is a NUL right behind), or with bytes nobody sent behind it (`overrun`), or the process faults (`Fault`). What stands
behind `buf` is not modelled further. `PartsInOrder` says what is left to hold: the chunks of a message enter the queue in order and
without a gap, and a chunk that did not fill the buffer is intact.

`client_sockfd` is uninitialised before the first scan has met a free entry and is
not reset between scans. If a scan meets none, the model lets it point to any entry, or
the process die; the history variable `overflow` remembers it, and the
safety properties promise nothing from then on. They hold with 99 connections
open and stop holding with 101; the code does not refuse the surplus.

`pthread_create` reports errors as positive numbers and the code compares with -1.
A thread that could not be started is therefore not noticed (`SpawnFail`,
`orphans`): the descriptor stays open and the entry taken.

### CommandQueue and CommandLog

The daemon's deque is shared without a lock, so the code's own text does not say
what happens; the module follows libstdc++ (external): elements at positions
`start .. finish-1` in nodes of `NodeCap` positions, a push that opens a new node
and one that does not, the two stores of a push in either order. `Kind` sorts
commands by what `cmd_poll_func` takes them for: a uci command, a transmit power, a power
stoi cannot parse, or nothing. The three empty strings `cmd_queue(3)` starts with
are there.

The accesses *collide* (history variable `clash`) when two pushes overlap, when a push and a pop
change the node map at the same time, or when raw memory is taken for a string. The last two take only one push: the poller may find `start` moved
and the cell not yet filled, and copy an empty string, an old command, or fault.
Up to then the deque implements `CommandLog`: `FirstInFirstOut` is that
refinement, with the queue read off the memory by `Queue` and `Pending`. `CommandLog` also has the
set of threads in a push (`pushing`): its promise becomes void (`Void`) only while that is not empty.
After a collision nothing is promised.

The results of `system("uci commit")` and `system("ubus call network reload")` are ignored. `uci commit` without a name
commits package by package and goes on past one that fails, so `Commit` leaves the settings of any set of packages staged
(`commitFailed`); `Reload` may change nothing (`reloadFailed`). Neither is repeated: the next round of the poller that handles something is the next
attempt. These failures, the death of the process, and collisions are what
`NothingForgotten` and `Activated` except. `stoi` of a malformed power ends the process (`Run`), and `NothingForgotten` says what is lost by it in the
configuration: only settings staged in the round under way, whose commit has not come, or left behind by the commit before.

### DeviceSettings

The whole way of a setting: the library's caller (`Send`, one connection for each
setting; neither `setWirelessUcis` nor `setSSID` looks at the result, and `setSSID` returns nothing), the daemon's
thread for that connection (`Read`, `Push`), and the command thread. The queue is
an instance of `CommandLog`, so that only what `CommandQueue` is shown to promise is
used of it: while any push is under way, one is enough, its promise may become void (`Collide`). What the command
thread would then take, an old command for example, is `CommandQueue`'s to say; the model stops there, and where the process dies.

`setWirelessUcis` forwards the pieces of its argument as they are, so a setting (`Kind`) is one of three things to
the command thread: a text without "uci", which does nothing, not even set the flag; one with "uci" and "txpower", whose
number goes to the radio at once (`power`) and is never staged, and of which `stoi` may throw (`Throws`); or a `uci` command, which stages one setting of one option
of some package (`Works`) or fails (`Fails`). `setSSID` composes a command with "uci"; a
network name that has "txpower" in it makes it one of the second kind. `Commit` and `Reload` fail as in `CommandQueue`; `missed` and `reloadFailed` remember it.

Assumed: a piece is one `uci set` of one option if it is a uci command at all; a setting leaves room for a NUL in the buffer of its one read, and
fewer than `MAX_CLIENT` connections are open, see `CommandServer`. What the AI loop and the driver make of the power is in `TxPower`: `power` is what the
command thread gave to `iw` last. Going to sleep takes no step: an empty queue with the flag unset is where the thread sleeps.

### TxPower

The AI loop, the command thread and `main` each run `set_txpower` in steps (which board?,
then `iw`), and the AI loop reads the power before it. `Driver`
(external) takes the highest level it has that is not above what it is asked for. A
query may fail: `get_current_txpower` gives -1, `is_broadcom_chipset` gives -1,
which counts as true, and an answer without a release counts as false.
A sample is 1 if the network says there is traffic, 0 if not. Without a loaded
model `getOutputData` gives -1, which counts as 0.

### TrafficInput

`MakeInputData` is a whole round: the query, parsing, comparing, remembering. The
query may fail, and then `collectRawData` parses a buffer it has not initialised:
either what the stack still holds of the round before (`buffer`), or nothing useful. An
answer that does not fit into the buffer is read in pieces, of which the last stays
and does not parse; `MaxHosts` says how many stations fit. If no station is in both answers,
`max_v` reads the greatest element of an empty vector through a null pointer and the
process dies: it is enough that all stations leave between two rounds.

### UbusCall

One action is one system call. A semaphore exists if the key names it; the
others are identifiers that processes still have of removed ones, and an
identifier may come back once no process has it. That keeps the model finite
without a bound on calls. `Exit` ends a process at any point and gives back
what SEM_UNDO has noted. `semget` failing for lack of resources or permission, and
interrupted system calls, are not modelled. The library installs no signal handlers.

What the history variable `undermined` says is the heart of it: every release *removes* the
semaphore, so a process that was waiting is woken with an error, which is
logged and ignored, and goes on beside whoever creates the next one.
`Exclusion` holds until that has happened to somebody, and `CauseOfOverlap` always.

### UciCli and UciStore

A process calls a command (`Call`), or a batch that reads commands (`ReadLine`), and
goes through `uci_do_section_cmd` or `uci_do_package_cmd` by calls of libuci: look up
(`Lookup`, `NextPackage`: load the package unless the context has it), change the
copy in memory (`ChangeCopy`), save, revert, commit. Any call may fail and any process may end
between two of them (`Die`). `staged` is the file of changes, `committed` the configuration
file, `copy` and `unsaved` the packages in the context.

libuci is external and modelled from how it is used: its calls are atomic, since they lock the files, and
one that fails changes no file. `set` stands for `set` and `add_list`, `get` for `get`, `show`,
`export` and `changes`; a batch line that is not understood changes nothing.
`uci_command_set`, `_del`, `_get`, `_show` and `_commit` pass a single `set`, `del`, `get`,
`show` and `commit`. `batch`, `revert` and `commit` of one package are in
`uci_cmd`, but no function outside the file passes them on; they are modelled because the
table of commands has them, and because what a batch leaves in its context is
the delicate part. What only a batch could get wrong is no hazard of the program as it is. `import`, and the commands that change sections (`add`, `rename`,
`reorder`), are not modelled.

`UciStore` has two values per option, the one that is seen and the one in force. It
takes no notice of files, copies and processes: the refinement mapping reads
`seen` off both files (`View`) and nothing off the contexts, which says that no copy in
memory ever decides what others see.

### WirelessUcis

One call of `getWirelessUcis`: the lines of a command are collected (`SystemEx`), appended
one by one (`AppendLine`) and freed, for the radio and then for the interface
(`Interface`), and the end is appended (`Finish`). Lines are known by query and number,
and of their text only the length matters, for the limits are what can go wrong. `outside` says that a byte
outside of a buffer was written: by an empty line, whose last-but-one character is
the byte in front of it, by a line too long for `tmp`, or by lines that fit into the buffer one by one and
not together, since `strcat_safe` compares each with the whole size. What the
program does then is undefined, and the model stops there. `getBaseUci` finds a
section or does not; `malloc` does not fail.

### LeakDetector

Blocks and records are chunks of one heap. `erase` leaves `ptr_next` alone
when it frees the last record behind another one: from then on (`tailErased`)
`ptr_next` points to freed memory, to a block, or to another record, and `add` writes
there. `index` wraps at `IndexMod` (history variable `wrapped`), and from then on the record of another block may be removed. A fault for lack of memory ends the process, and
so does the report (`clear` leaves `ptr_start` pointing to freed memory; what
a later call does is not modelled).

## Runs

| Run | Instance | Shows |
|---|---|---|
| `server` | 4 senders, 2 entries, 3 descriptors, one message of two reads that both fill the buffer | `SlotExclusive`, `OwnConnection`, `NoDescriptorLeak`, `PartsInOrder` |
| `server_live` | a sender with a message of two reads, 2 receivers, 2 entries, 2 descriptors | `Delivered`, `Reclaimed`; `ReceiverWaits`: receiver and thread wait for each other while the server runs |
| `queue` | 2 writers, one with 2 settings of two packages and one with a malformed power, nodes of 2 | `FirstInFirstOut`, `NothingForgotten`, `OnlyNewestAtRisk`; `Handled`, `Activated` under fairness; types |
| `settings` | 2 callers: one sets an option of each of two packages and the power, one (`setSSID`) the first of these options | `YoungerWins`, `InOrder`; `TakesEffect` under fairness; types |
| `txpower` | levels 0, 1, 2, 4, 5, two operator commands, faults | `OneLevel`, `NoFlapping` |
| `txpower_live` | the same levels on a Broadcom board, no faults | `FollowsTraffic` |
| `traffic` | 3 stations that send up to 2 units each, answers for 2, faults | `NothingTwice`, `DeltaIsTraffic`, `CauseOfDeath` |
| `wireless_ucis` | up to 3 lines of 5 lengths for an array of 2 | `AnswerIsWhole`, `NothingLeaks`, `OutsideOnlyIfUnfit`; types |
| `ubus` | 2 processes | `OneHolder`, `Exclusion`, `CauseOfOverlap`; `GetsOn` under fairness |
| `uci` | 2 processes, 2 packages with an option each | `StoreSpec` (refinement), `StatusIsTrue`, `CommitTakesAll`, `AnswerIsCurrent` |
| `leak` | 6 chunks: 3 blocks with their records; positions modulo 2 | `ListExact`, `OwnMemoryOnly`, `OnlyBlocksInUse`; types |
| `leak_add` | the same, positions modulo 65536 | finds `EveryBlockListed` violated |

The type invariants of `CommandServer`, `UbusCall`, `UciCli`, `TxPower` and `TrafficInput` have no run: they are
proved, see below.

Why the bounds are enough to be interesting:

- `server`: four connections on two entries reach both a table that fills up
  and a scan that overflows; three descriptors are one more than the table has
  entries, so a number can be used again while the entry that held it is not
  yet cleared. Of four messages one fills the buffer twice (`Filling`), the others leave room for a NUL. The constraint `Promised`
  goes no further where a scan has overflowed or the process has exited: the four invariants promise nothing after the one, and nothing they
  speak of moves after the other. `server_live` has no such constraint. The proofs remove the bounds.
- `server_live`: three connections reach, after an overflow, a thread whose descriptor another one has closed. One message takes two reads, so that
  the end of the stream can come before the last of them.
- `queue`: three empty strings and three commands, one of them a malformed power, in nodes of two cross a node
  border on both ends; two writers are enough to collide, and two packages for a commit that fails for one. `Depth` bounds the pushes
  and is the length of the two scripts together (`Script`).
- `settings`: three settings of one caller, which may overtake each other, and one of another caller that overrides one of them.
  There is one of each kind that does something; two packages are one whose commit fails and one whose commit works.
- `txpower`: the list has a gap (3), which is where raising and lowering differ;
  operators ask for a listed power, for one in the gap and for one above all. `MaxCmds` bounds
  the operators' commands; one can interfere with a step of the AI loop, the second
  with another or with the first.
- `traffic`: one station to compare, one that comes and goes, and a third that makes the answer too long.
  `MaxSent` bounds what a station sends; two units tell "since the last round" from "since the first".
- `ubus`: two processes undermine, overlap and starve: one removes while the other waits, and the
  first comes back with a semaphore of its own. Nothing is bounded but the number of processes, and for the
  safety properties the proofs remove that.
- `uci`: two processes are one that reads or commits and one that changes what it reads
  or commits meanwhile; two packages are one that fails and one that goes on, and
  one copy in the context of a batch that is not the one in use. Nothing is bounded but these sets, and
  the proofs remove that.
- `wireless_ucis`: of the five lengths one is the empty line (1), one leaves little (4), one is such
  that two lines and not one fill the buffer of 24 (9), one fits alone (25) and one fits
  neither buffer (40). `MaxOutput` bounds the lines of a command: one more than the array holds.
- `leak`: to erase a record from behind another takes two, to see what a later
  `add` does, a third.

`CHECK_DEADLOCK FALSE` stands in the configurations because these programs really stop: a
process exits or faults, clients need not come, operators need not send, the
bounded commands are used up.

### The violation

`leak_add`: the comment at `myleak_detector_c.c:15` says that `add` "adds allocated
memory info. into the list". After the last of several records has been
erased it does not: `erase` does not move `ptr_next` back, and the new record is
linked to a freed one.

## Fairness

Threads and processes are scheduled by the kernel: weak fairness of the server,
of each connection's thread, of the command thread, of each part of the power
control, of a process that is inside a call. No more than weak fairness is used anywhere: no
lock or queue in the code promises more. Clients and operators are under no
obligation: a writer of the queue need not push, a caller need not send. But a client of the
server that has written closes, because the code does that next, and a push that has begun ends. `accept` waits for clients and is not obliged to fail, except when
the process has no descriptor left: fairness of the server as a whole would force it to
exit, and every liveness property would hold for that reason. Traffic changes when it likes.

## Proofs

Every theorem holds for all values of the constants that satisfy the module's named assumption.

`CommandServerProofs`, for any numbers of clients, entries and descriptors:

- `TypeCorrect`, `SlotsAreExclusive`, `ConnectionsAreOwn`, `DescriptorsAreKept`, `PartsEnterInOrder` and
  `ReceiversWait`: `Spec` implies the invariance of `TypeOK`, `SlotExclusive`, `OwnConnection`,
  `NoDescriptorLeak`, `PartsInOrder` and `ReceiverWaits`. Assumed is what `ServerAssumption` says: there is an entry, -1 is
  no descriptor, messages have a length, senders are not receivers.
- None of these is inductive. That two threads never share an entry depends on the server
  not handing out a taken one, and this on what `client_sockfd` points to between
  scan and `pthread_create`, while threads may change any entry. The
  inductive invariant adds: `Fresh`, that a connection still in the backlog has no thread,
  so that nothing is started twice; `Pointer`, that the entry found free stays
  free until `accept` fills it, because a thread only ever writes to its own entry;
  `Own` and `Accounted`, which tie entries, descriptors and threads to each other in
  both directions. `PartsInv` says that of every message what is in the queue, what its thread has in
  its hand and what is still unread are together all of it, and that the queue holds the chunks in
  order and without a gap, with foreign bytes only behind one that filled the buffer; it needs `Own`, as a thread that read another's connection would take a part away. `WaitInv`
  says that as long as the server runs nothing is left of the connection of a receiver that is gone. The proof has a lemma per group of actions.

`CommandQueueProofs`, for any number of connections and commands and nodes of any size:

- `IsFirstInFirstOut`: `Spec` implies `FirstInFirstOut`, the refinement of `CommandLog`, step by step: the start of a push is `Begin`; the store after which
  an element is both filled and published (`Move`, or `Fill` when `start` has moved first) is `Accept`; the command thread's `Run` is `Handle`; every other step
  leaves the queue that is read off the memory as it was, or is a collision, for which a push must be under way. `NothingIsForgotten`,
  `OlderIsSafe` and `TypeCorrect`: the invariance of `NothingForgotten`, `OnlyNewestAtRisk` and `TypeOK`, whatever commits and reloads fail.
  Assumed is what `QueueAssumption` says of the commands and the node size.
- The refinement needs to know what every cell holds while nothing has collided, `MemoryInv`: one push at a time
  (`OnePush`); the ends where the push under way has seen them (`Ends`, `ViewInv`); strings between them and raw memory in front of them, but for
  the cell that push is at (`CellsInv`); and what the command thread is about to pop is what it
  has copied (`TakenInv`). `ConfigInv` says at which places of the poller something of the round may be staged with the flag still to bring its commit,
  and where something may be saved and not yet active.

`DeviceSettingsProofs`, for any calls with any settings, options in any packages, any failures:

- `YoungerSettingWins`, `AppliedInOrder` and `TypeCorrect`: the invariance of `YoungerWins`, `InOrder` and `TypeOK`. Assumed is that a call has
  a finite number of settings, each of one of the three kinds, and `setSSID` one, whose command contains "uci".
- Both are statements about the sequence `Log` of what has been in the queue, and about where in it the settings stand that uci shows, that are committed,
  and that are active. `Known`: each of them has been handled. `Total`: what uci shows of an option, and the power, is no earlier than any handled setting of it that was not lost;
  that is `YoungerWins` in terms of `Log`. `Complete`: where the committed or the active configuration holds a setting, it holds nothing earlier than the
  settings in front of that one, those of its package and of packages no commit has failed for; a commit of a package keeps this since it takes all that is staged of the package and what
  uci shows is `Total`, a reload since it copies all. `OnceInv` says that a setting comes into the queue once, and `OrderInv` that it stands behind those
  that were in the queue when it was sent, which turns positions in `Log` back into `before`.

`WirelessUcisProofs`, for any sizes of buffers and array and any output:

- `AnswersAreWhole`, `NothingIsLeaked`, `FittingAnswersAreSafe` and `TypeCorrect`: the invariance of `AnswerIsWhole`, `NothingLeaks`,
  `OutsideOnlyIfUnfit` and `TypeOK`. Assumed is that sizes are natural numbers, lines not empty of their line feed, and that the
  start fits into the buffer.
- `Progress` says that the buffer holds the beginning of the answer up to the line the loop is at, `Blocks` that
  what is allocated are the strings of the array and the array. That a write past the end means that the answer as a
  whole is too long is a fact about sums: a beginning is not longer than the whole (`BeginningFits`). `Length` is written as a recursive
  function, and what it computes is proved by induction over sets of natural numbers (`NatInduct`, from the
  well-foundedness of `<`).

`ToolsProofs`, about `UbusCall`, for any number of processes and any number of calls:

- `UbusTypeCorrect`, `HeldByOne`, `OverlapHasCause`, `ExclusiveUntilUndermined`:
  the invariance of `UbusTypeOK`, `OneHolder`, `CauseOfOverlap`, `Exclusion`. Assumed is that
  -1 is no identifier. The names `UbusInit`, `UbusNext`,
  `UbusSpec` leave `Init`, `Next`, `Spec` to `LeakDetector`, which the module extends as well.
- The inductive invariant adds that a semaphore whose value has not been set is
  taken by nobody (`SetvalInv`: otherwise SETVAL would cancel an undo), that whoever is
  inside with the semaphore that exists has really taken it (`InsideInv`), and that
  before anybody is undermined all who rely on a semaphore rely on the one that
  exists (`ReliedInv`).

`UciCliProofs`, for any numbers of processes, options, packages and values:

- `Implements`: `Spec` implies `StoreSpec`, the refinement of `UciStore`;
  `StatusesAreTrue`, `CommitsTakeAll`, `AnswersAreCurrent` and `TypeCorrect`. Assumed is that every
  option has a package that is configured, that there is an option, and that "no staged
  change" is not a value.
- `Sound` says what a context may hold at each step: nothing unsaved except in the
  middle of a `set` or `del`, and then just the option of the command, with its value in the copy. It is what
  makes a save stage one change (`StatusIsTrue`) and a commit stage nothing of its own (the
  refinement). `OwedInv` says that changes owed to a commit belong to packages still to be
  committed or missed, `SinceInv` that the copy a reader has holds a value seen
  since its command began; both need `Sound` for the context of a new command to be empty.

`TxPowerProofs`, for any finite list of levels, both kinds of boards, any operators, with and without faults:

- `LevelByLevel`, `NeverFlaps` and `TypeCorrect`: `OneLevel`, `NoFlapping` and `TypeOK`. Assumed is that
  the driver has a level, finitely many, none negative.
- That the loop goes one level depends on its target being next to the power at the moment of the
  write (`TargetInv`), which only a command can change; that it does not flap, on the samples from before
  its last write being still in the window and pointing the other way (`SinceInv`), while
  a new write needs a window of one kind (`WindowInv`). Least and greatest
  elements of sets of levels exist by well-foundedness of the naturals.

`TrafficInputProofs`, for any number of stations, any traffic and answers of any size:

- `CountedOnce`, `DifferencesAreTraffic`, `DeathHasCause` and `TypeCorrect`: `NothingTwice`, `DeltaIsTraffic`,
  `CauseOfDeath` and `TypeOK`.
- `CountInv` adds to what is counted what the next true answer would add; a counter that restarts makes
  this less. `BufferInv` says that what the stack still holds is the answer of the round before, whose difference
  to itself is nothing. `StayInv` ties the counters of stations that stayed to their traffic.

`ToolsProofs`, about `LeakDetector`, for any heap and any width of `index`:

- `ListIsExact`, `WritesOwnMemory`, `ListsBlocksInUse` and `TypeCorrect`: the invariance of `ListExact`,
  `OwnMemoryOnly`, `OnlyBlocksInUse` and `TypeOK`. Assumed is that the heap is finite, NULL no chunk of it, and
  that `index` counts to something.
- The invariant gives the records that can be reached as a sequence: linked in its order without a circle (`Chain`), with
  `ptr_next` at its end or, once a last record was erased, at none of them (`LastInv`), and about different blocks in use
  (`Addresses`). That `ptr_next` cannot come to point into the *middle* of the list, where `add` would
  cut the rest off, is the heart of it: a lost record may be linked from freed memory, but never into the list.
- `Nth` follows the pointers recursively; that it lists the sequence is proved by induction over
  sets of natural numbers (`ChainIsList`), that a chain is not longer than the heap by counting (`ChainFits`).

Model-checked only: the liveness properties `Delivered`, `Reclaimed`, `Handled`, `Activated`, `TakesEffect`,
`FollowsTraffic` and `GetsOn`, since the proof system has no rule for fairness and ENABLED here. Every invariant a passing run checks, every refinement and every action property is proved.

## Not modelled

- TensorFlow, libjson, libuci, libubus, the shell commands and the kernel: external;
  what the code sees of them is a choice over their answers.
- In `myuci.c`: `import`, the commands that change sections, and the list of type names
  `show` prints. In `myubus.c`: `wait_for`, `listen` and `monitor`, and which call the answer in the
  global result buffer belongs to. In `wdev.c`: the queries that format one command and pass its output on.
  In `mystrTools.c`: `number2comma` and the splitting functions, which the daemon does not call.
- `accumulate` in `mycppTools.h`, which adds 64-bit values up in an `int`, and what the network makes of the mean.
- Formatting, parsing of command output, logging.
- The process after `report_mem_leak`; failure of `malloc` in the deque.
- `test.c`, `testser.sh`: a manual try-out and a build line. `Makefile` and
  `.vscode`: the build.

## Plan

In order:

1. `UbusWait`: `wait_for` with objects that appear between the look-up and the events.
2. `Daemon`: server and queue composed, the chunks of the one being the commands of
   the other.
3. `LeakDetector` after the report: `clear` leaves `ptr_start` on freed memory.
4. `LinkedQueue` and `accumulate`: pure algorithms against reference definitions.
