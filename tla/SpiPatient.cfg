\* A master that waits long enough, postings with callbacks.
CONSTANTS
  soc = soc
  host = host
  Dev = {soc, host}
  IsMaster <- HostIsMaster
  Plan <- MixedPlan
  Sizes = {1, 2}
  Patient = TRUE
  Spurious = FALSE
  SigMax = 2
  Crowded = FALSE
SPECIFICATION FairSpec
INVARIANTS CallbackReports SlaveReturnsExchanged
PROPERTIES ImplementsRendezvous LinesServe
CHECK_DEADLOCK FALSE
