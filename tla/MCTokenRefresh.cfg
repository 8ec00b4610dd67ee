CONSTANTS
  c1 = c1
  c2 = c2
  Callers = {c1, c2}
  a1 = a1
  Accounts = {a1}
  Nobody = Nobody
  NoRow = NoRow
  MaxIssued = 3
SPECIFICATION FairSpec
CHECK_DEADLOCK FALSE
INVARIANTS
  TypeOK
  PresentsUnspentToken
  StoredTokenUnspent
PROPERTIES
  OkTokenAccepted
  LockReleased
  RefreshIsSerial
