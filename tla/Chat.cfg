\* The driver: two chats look for two workers, dial them by id or address and
\* lose them again; no engine opens a socket.
SPECIFICATION Spec
CONSTANTS
  Chats = {c1, c2}
  Workers = {w1, w2}
  NoWorker = NoWorker
  Free = Free
  MaxAddrs = 2
  MaxSockets = 0
  MaxFaults = 2
PROPERTIES RunsOnWhatWasAsked LossEndsChat
\* Every chat may be over.
CHECK_DEADLOCK FALSE
