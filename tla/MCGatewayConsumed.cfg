CONSTANTS
  r1 = r1
  r2 = r2
  a1 = a1
  a2 = a2
  Requests = {r1}
  Accounts = {a1, a2}
  Plans <- OnePlan
  Bases = {"chatgpt"}
  MaxInflight = 0
  MaxApis = 1
  Retries = 0
  Key = Key
  None = None
SPECIFICATION Spec
CHECK_DEADLOCK FALSE
INVARIANTS
  RequestInHand
