\* Two systems one after the other.
CONSTANTS
  soc = soc
  host = host
  NoTid = NoTid
  Tid = {p1, p2, p3}
  Program <- TestProgram
  Follows <- TestOrder
  ReuseTid = TRUE
  Faults = {}
  GenMax = 2
SPECIFICATION Spec
INVARIANT FreshThreadRegisters
CHECK_DEADLOCK FALSE
