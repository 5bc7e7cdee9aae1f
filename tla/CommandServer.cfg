SPECIFICATION Spec
CONSTANTS
  c1 = c1
  NoConn = NoConn
  NoFd = NoFd
  Senders = {c1, c2, c3, c4}
  Receivers = {}
  MaxClient = 2
  Fds = {f3, f4, f5}
  Chunks <- MCChunks
  Filling = {c1}
SYMMETRY Symmetry
CONSTRAINT Promised
INVARIANTS SlotExclusive OwnConnection NoDescriptorLeak PartsInOrder
\* the server waits for clients that need not come, or the process has exited
CHECK_DEADLOCK FALSE
