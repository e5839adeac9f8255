\* Systems that may be stopped at any time, units that wait for one another.
CONSTANTS
  soc = soc
  host = host
  NoTid = NoTid
  Tid = {p1, p2}
  Program <- TwiceProgram
  Follows <- StoppingOrder
  ReuseTid = FALSE
  Faults = {}
  GenMax = 1
SPECIFICATION FairSpec
PROPERTIES HangsOnlyIfSkipped MainCompletes
CHECK_DEADLOCK FALSE
