\* Any order of calls, two systems, every failure.
CONSTANTS
  soc = soc
  host = host
  NoTid = NoTid
  Tid = {p1, p2, p3}
  Program <- TestProgram
  Follows <- AnyOrder
  ReuseTid = TRUE
  Faults = {"pthread_create", "setname", "config"}
  GenMax = 2
SPECIFICATION Spec
INVARIANTS TypeOK InterruptsFindHandler MainNeedsStart NoUseAfterFree
CHECK_DEADLOCK FALSE
