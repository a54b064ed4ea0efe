SPECIFICATION FairSpec
CONSTANTS
  Workers = {w1}
  Nobody = Nobody
  WithCode = FALSE
  MaxFaults = 1
PROPERTIES WorkerJoins
CHECK_DEADLOCK FALSE
