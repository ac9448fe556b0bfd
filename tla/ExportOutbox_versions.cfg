CONSTANTS
  Targets = {t1}
  Syslog = {}
  Sealed = {}
  Observations = {o1}
  Workers = {w1, w2}
  NoDelivery = NoDelivery
  NoWorker = NoWorker
  MaxAttempts = 2
  MaxVersions = 2
  MaxRedrives = 0
  MaxLapses = 1
  MaxFaults = 1
SPECIFICATION Spec
SYMMETRY Symmetry
INVARIANTS
  SentIsCurrent
CHECK_DEADLOCK FALSE
