CONSTANTS
  Hosts = {h1}
  Jobs = {j1}
  Workers = {w1, w2}
  NoHost = NoHost
  NoJob = NoJob
  NoWorker = NoWorker
  MaxAttempts = 2
  Postgres = TRUE
  MaxLapses = 1
  MaxFaults = 0
SPECIFICATION Spec
PROPERTIES
  NoSupersededFindings
CHECK_DEADLOCK FALSE
