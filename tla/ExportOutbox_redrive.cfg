CONSTANTS
  Targets = {t1}
  Syslog = {t1}
  Sealed = {}
  Observations = {o1}
  Workers = {w1, w2}
  NoDelivery = NoDelivery
  NoWorker = NoWorker
  MaxAttempts = 2
  MaxVersions = 1
  MaxRedrives = 1
  MaxLapses = 1
  MaxFaults = 1
SPECIFICATION FairSpec
PROPERTIES
  EveryDeliverySettles
CHECK_DEADLOCK FALSE
