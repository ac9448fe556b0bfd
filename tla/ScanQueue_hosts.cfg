CONSTANTS
  Hosts = {h1, h2}
  Jobs = {j1, j2}
  Workers = {w1, w2}
  NoHost = NoHost
  NoJob = NoJob
  NoWorker = NoWorker
  MaxAttempts = 1
  Postgres = TRUE
  MaxLapses = 1
  MaxFaults = 0
SPECIFICATION Spec
SYMMETRY Symmetry
INVARIANTS
  ExclusiveScan
PROPERTIES
  OwnerWrites
CHECK_DEADLOCK FALSE
