\* Any timing, spurious wakeups.
CONSTANTS
  soc = soc
  host = host
  Dev = {soc, host}
  IsMaster <- HostIsMaster
  Plan <- RacePlan
  Sizes = {0, 1}
  Patient = FALSE
  Spurious = TRUE
  SigMax = 2
  Crowded = TRUE
SPECIFICATION FairSpec
INVARIANTS TypeOK ExchangesPair 
PROPERTIES CopyIsInTime CallsReturn
CHECK_DEADLOCK FALSE
