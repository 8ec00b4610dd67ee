CONSTANTS
  r1 = r1
  r2 = r2
  w1 = w1
  w2 = w2
  a1 = a1
  a2 = a2
  p1 = p1
  p2 = p2
  p3 = p3
  Requesters = {r1, r2}
  Workers = {w1, w2}
  Accounts = {a1, a2}
  None = None
  Order <- MCOrder
  BatchLimit = 2
  PollWorkers = 2
  NoTask = NoTask
SPECIFICATION BothSpec
INVARIANTS
  TypeOK
  OneTaskPerAccount
PROPERTIES
  NeverBarredForEver
  TakesTurns
  EveryoneIsPolled
