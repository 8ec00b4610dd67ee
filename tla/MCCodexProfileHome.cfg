CONSTANTS
  d1 = d1
  d2 = d2
  acc1 = acc1
  acc2 = acc2
  k1 = k1
  x1 = x1
  x2 = x2
  t1 = t1
  bad = bad
  Dirs = {d1, d2}
  Managed = {acc1, acc2}
  ApiKeys = {}
  Actual = {x1, x2}
  Texts = {t1}
  BrokenTexts = {}
  EmptyText = t1
  ChatgptId <- MCChatgptId
  Matches <- MCMatches
  NoFile = NoFile
  NoId = NoId
  NoOp = NoOp
  Kinds = {"direct"}
  Inherited = FALSE
  Faults = {}
SPECIFICATION MCSpec
PROPERTIES
  RollbackRestoresHome
