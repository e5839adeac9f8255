\* One context that interrupts the soc, two irqs, ghost credit up to three.
CONSTANTS
  soc = soc
  host = host
  null = null
  hostGpio = hostGpio
  hostSpi = hostSpi
  socGpio = socGpio
  socSpi = socSpi
  t1 = t1
  t2 = t2
  Ctl = {soc}
  Irq = {socSpi, socGpio}
  Maskable = {socSpi}
  Ctx = {t1}
  Home <- MCHome
  Dest <- MCDest
  Reach <- MixedReach
  SigMax = 2
  Crowded = TRUE
  CreditMax = 3
SPECIFICATION PlainSpec
PROPERTY HandlesOnlyRaised
