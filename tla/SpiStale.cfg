\* The calls of test_spi.c, with delays that are long enough.
CONSTANTS
  soc = soc
  host = host
  Dev = {soc, host}
  IsMaster <- HostIsMaster
  Plan <- TestPlan
  Sizes = {1}
  Patient = TRUE
  Spurious = FALSE
  SigMax = 2
  Crowded = FALSE
SPECIFICATION Spec
INVARIANT CallbackReports
CHECK_DEADLOCK FALSE
