\* The sessions: two chats, one worker with its one permit, two sockets.
SPECIFICATION Spec
CONSTANTS
  Chats = {c1, c2}
  Workers = {w1}
  NoWorker = NoWorker
  Free = Free
  MaxAddrs = 0
  MaxSockets = 2
  MaxFaults = 1
INVARIANTS TypeOK CleanEndIsWholeEnd OneSessionPerGpu
PROPERTIES PermitsComeBack
\* Every chat may be over.
CHECK_DEADLOCK FALSE
