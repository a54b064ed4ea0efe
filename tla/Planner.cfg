SPECIFICATION Spec
CONSTANTS
  Models <- MCModels
  Contexts = {0, 1}
  Gpus <- MCGpus
  MaxGpus = 3
  Reserves = {0, 3}
INVARIANTS TypeOK NextCutExists PlanFits RefusedMeansImpossible
CHECK_DEADLOCK FALSE
