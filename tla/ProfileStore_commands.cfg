SPECIFICATION Spec
CONSTANTS
  Procs = {p1, p2}
  Accounts = {a1}
  NoAccount = none
  MaxLogins = 2
INVARIANTS
  TypeOK AccountApproved OsKeyOutlivesProfile UndisturbedProfileHasItsKey
CHECK_DEADLOCK FALSE
