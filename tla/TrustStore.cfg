SPECIFICATION Spec
CONSTANTS
  Peers = {p1, p2}
  Commands = {c1, c2}
  Handlers = {h1, h2}
  NoHandler = NoHandler
  NoPeer = NoPeer
  MaxFaults = 2
INVARIANTS TypeOK RestartKeepsTrust TornOnlyByInterruption RevocationsLast PairingsLast
PROPERTIES ImplementsTrustMap IntroductionsDefer
SYMMETRY Symmetry
CHECK_DEADLOCK FALSE
