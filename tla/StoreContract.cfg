CONSTANTS
  Hosts <- Two
  Creds <- One
  Tags = {"web"}
  Colls <- One
  Scheds <- One
  Rules = {"r1"}
  Users <- Two
  Names = {"ann", "bob"}
  Sessions <- Two
  Tokens <- Two
  Scans <- Two
  Obs <- Two
  Keys = {"k1", "k2"}
  Targets <- One
  Jobs <- Two
  Actions <- Two
  Events <- Three
  Workers = {"w1", "w2"}
  None = None
  ReopenAfter = 1
  AuditCap = 2
  DefaultLimit = 1
  MaxLimit = 1
  AllowSelfApproval = FALSE
  MaxTime = 3
  MaxCount = 2
  Few <- FewRows
SPECIFICATION Spec
INVARIANTS
  AnswersAgree
  StateAgrees
  ReadsAgree
CHECK_DEADLOCK FALSE
