CONSTANTS
  a1 = a1
  a2 = a2
  t1 = t1
  t2 = t2
  x1 = x1
  x2 = x2
  Accounts = {a1, a2}
  Threads = {t1, t2}
  ChatgptId <- SharedIds
  Kinds = {"poll", "usage", "manual", "analytics", "switch"}
  Users = {"cli", "cliLogin", "login"}
  MaxIssued = 4
  None = None
SPECIFICATION Spec
CHECK_DEADLOCK FALSE
INVARIANTS
  CredentialsNeverCross
