SPECIFICATION Spec
CONSTANTS
  Procs = {p1}
  Accounts = {a1}
  NoAccount = none
  MaxLogins = 2
INVARIANT ProfileHasItsKey
CHECK_DEADLOCK FALSE
