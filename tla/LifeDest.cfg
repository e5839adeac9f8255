\* One system.
CONSTANTS
  soc = soc
  host = host
  NoTid = NoTid
  Tid = {p1, p2}
  Program <- TestProgram
  Follows <- TestOrder
  ReuseTid = TRUE
  Faults = {}
  GenMax = 1
SPECIFICATION Spec
INVARIANT DestStaysSet
CHECK_DEADLOCK FALSE
