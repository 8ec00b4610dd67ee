CONSTANTS
  a1 = a1
  t1 = t1
  t2 = t2
  c1 = c1
  Accounts = {a1}
  Threads = {t1, t2}
  Collectors = {c1}
  None = None
SPECIFICATION Spec
SYMMETRY Symmetry
INVARIANTS
  TypeOK
  CacheNotStale
PROPERTIES
  DisabledStays
  ManualRefreshRecovers
