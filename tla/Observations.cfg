CONSTANTS
  Findings = {f1}
  Scans = {s1, s2, s3}
  NoScan = NoScan
  ReopenAfter = 1
  ObservationAge = 1
  ScanAge = 1
  MaxTime = 3
SPECIFICATION Spec
SYMMETRY Symmetry
INVARIANTS
  NoFindingLost
PROPERTIES
  ReturnReopens
  ResolvedNotRefuted
CHECK_DEADLOCK FALSE
