SPECIFICATION FairSpec
CONSTANTS
  Workers = {w1, w2}
  Nobody = Nobody
  WithCode = TRUE
  MaxFaults = 2
INVARIANTS OkMeansBothSaved NoFaultNoSplit
PROPERTIES WorkerJoins
CHECK_DEADLOCK FALSE
