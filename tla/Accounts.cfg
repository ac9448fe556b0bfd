CONSTANTS
    Ids = {u1, u2}
    Secrets = {s1, s2}
    Passwords = {p1, p2}
    Requests = {r1, r2}
    Tokens = {t1}
    None = None
SPECIFICATION Spec
SYMMETRY Symmetric
INVARIANTS
    ToldPasswordsMustChange
    EnabledFactorIsProven
PROPERTIES
    OnlyOverlapLosesChanges
CHECK_DEADLOCK FALSE
CONSTRAINTS
    OneEnrols
    TwoChosen
    OneAccount
    OneThing
