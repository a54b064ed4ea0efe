SPECIFICATION FairSpec
CONSTANTS
  Devices = {d1, d2}
  Streams = {s1, s2}
  Queries = {q1}
  Ports = {p1, p2}
  NoDevice = NoDevice
  NoPort = NoPort
  Free = Free
INVARIANTS MasterOnly GpuExclusive DialsCurrentServer
PROPERTIES ImplementsLease EveryRequestAnswered
