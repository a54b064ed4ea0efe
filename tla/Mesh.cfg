SPECIFICATION Spec
CONSTANTS
  Devices = {1, 2}
  Absent = {3}
  Conns = {c1, c2, c3}
  None = None
  MaxDials = 1
INVARIANTS OneConnectionPerPeer RegistriesAgree SimultaneousOpenSettles
CHECK_DEADLOCK FALSE
