CONSTANTS
  s1 = s1
  openai = openai
  cm = cm
  Sessions = {s1}
  Providers = {openai, cm}
  OpenAI = openai
  MinBackups = 1
  MaxBackups = 2
  MaxDirs = 3
  MaxLegacy = 2
  MaxLines = 1
  None = None
  Absent = Absent
SPECIFICATION Spec
INVARIANTS
  TypeOK
  LinesKept
  RecordIsTrue
PROPERTIES
  RunningBackupKept
  RepairAligns
