SPECIFICATION AdmissionSpec
CONSTANTS
  Peers = {p1, p2, p3}
  Commands = {c1}
  NoPeer = NoPeer
  MaxRestarts = 1
INVARIANTS OkMeansJudged AdmittedIsTrusted
PROPERTIES EveryDialIsTaken
CHECK_DEADLOCK FALSE
