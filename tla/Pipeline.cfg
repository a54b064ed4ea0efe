SPECIFICATION FairSpec
CONSTANTS
  Layers = 2
  Followers = {f1}
  Here = Here
  Runs = {r1, r2}
  Plans <- AnyPlans
  PromptLen = 2
  MaxNew = 3
  NoShard = NoShard
  f1 = f1
  r1 = r1
  r2 = r2
INVARIANTS TypeOK UndisturbedRunIsSound UndisturbedRunIsServed SessionsAreFreed
PROPERTIES RunsEnd
CHECK_DEADLOCK FALSE
