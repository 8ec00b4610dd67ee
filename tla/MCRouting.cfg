CONSTANTS
  r1 = r1
  r2 = r2
  r3 = r3
  k1 = k1
  l1 = l1
  l2 = l2
  l3 = l3
  l4 = l4
  a1 = a1
  Requests = {r1, r2, r3}
  Keys = {k1}
  Locks = {l1, l2, l3, l4}
  Accounts = {a1}
  Reasons = {"default"}
  Secs <- MCSecs
  Ladder <- MCLadder
  ForgetAfter = 1
  CleanupEvery = 1
  MaxOffenses = 2
  None = None
SPECIFICATION Spec
INVARIANTS
  TypeOK
  GateExclusive
  OffensesDated
PROPERTIES
  CooldownNeverShortened
  WaiterWoken
