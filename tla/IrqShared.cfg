\* Two contexts that interrupt the soc, one of them the host as well.
CONSTANTS
  soc = soc
  host = host
  null = null
  hostGpio = hostGpio
  hostSpi = hostSpi
  socGpio = socGpio
  socSpi = socSpi
  t1 = t1
  t2 = t2
  Ctl = {soc, host}
  Irq = {hostGpio, hostSpi}
  Maskable = {hostSpi}
  Ctx = {t1, t2}
  Home <- MCHome
  Dest <- MCDest
  Reach <- MixedReach
  SigMax = 1
  Crowded = TRUE
  CreditMax = 0
SPECIFICATION Spec
CONSTRAINT FewStates
INVARIANTS TypeOK NoLostInterrupt SoleRaiserLosesNothing
PROPERTY ImplementsLine
