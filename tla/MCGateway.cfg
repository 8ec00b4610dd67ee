CONSTANTS
  r1 = r1
  r2 = r2
  a1 = a1
  a2 = a2
  Requests = {r1, r2}
  Accounts = {a1, a2}
  Plans <- MCPlans
  Bases = {"chatgpt", "custom", "openai"}
  MaxInflight = 1
  MaxApis = 1
  Retries = 1
  Key = Key
  None = None
SPECIFICATION Spec
CHECK_DEADLOCK FALSE
INVARIANTS
  TypeOK
  NothingLeaked
  LastCandidateTried
  BindingWasServed
PROPERTIES
  AnsweredOnce
  Terminates
