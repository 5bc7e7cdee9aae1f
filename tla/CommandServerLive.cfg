SPECIFICATION FairSpec
CONSTANTS
  c1 = c1
  NoConn = NoConn
  NoFd = NoFd
  Senders = {c1}
  Receivers = {c3, c4}
  MaxClient = 2
  Fds = {f3, f4}
  Chunks <- MCChunks
  Filling = {}
INVARIANTS ReceiverWaits
PROPERTIES Delivered Reclaimed
\* the server waits for clients that need not come, or the process has exited
CHECK_DEADLOCK FALSE
