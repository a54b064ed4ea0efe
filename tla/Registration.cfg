SPECIFICATION FairSpec
CONSTANTS
  Workers = {w1, w2}
  Slots = {1, 2}
  None = None
  QueueCap = 1
  MaxFaults = 1
INVARIANTS RegistryNamesCurrent MutuallyIntroduced
PROPERTIES GhostsLeave WorkersRegister
CHECK_DEADLOCK FALSE
