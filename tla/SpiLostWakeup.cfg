\* The slave waits, any timing.
CONSTANTS
  soc = soc
  host = host
  Dev = {soc, host}
  IsMaster <- HostIsMaster
  Plan <- WaitPlan
  Sizes = {1}
  Patient = FALSE
  Spurious = FALSE
  SigMax = 2
  Crowded = FALSE
SPECIFICATION FairSpec
PROPERTY PostingsComplete
CHECK_DEADLOCK FALSE
