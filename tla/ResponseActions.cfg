CONSTANTS
  Hosts = {h1}
  Actions = {a1}
  Users = {u1, u2}
  Workers = {w1, w2, w3}
  NoHost = NoHost
  NoAction = NoAction
  NoUser = NoUser
  NoWorker = NoWorker
  AllowSelfApproval = FALSE
  MaxLapses = 1
  MaxFaults = 1
SPECIFICATION AnsweringSpec
INVARIANTS
  TwoPersonControl
  RerunsPaidFor
PROPERTIES
  ApprovedActionSettles
CHECK_DEADLOCK FALSE
