SPECIFICATION Spec
CONSTANTS
  Layers = 2
  Followers = {f1}
  Here = Here
  Runs = {r1, r2}
  Plans <- SharedPlans
  PromptLen = 2
  MaxNew = 3
  NoShard = NoShard
  f1 = f1
  r1 = r1
  r2 = r2
INVARIANTS EveryTokenIsSound
CHECK_DEADLOCK FALSE
