SPECIFICATION Spec
CONSTANTS
  t1 = t1
  t2 = t2
  s1 = s1
  s2 = s2
  s3 = s3
  Terminals = {t1, t2}
  Sessions = {s1, s2, s3}
  NoSession = NoSession
  MaxRecords = 1
  MaxSaves = 5
SYMMETRY Symmetry
INVARIANT SavedSessionsResume
CHECK_DEADLOCK FALSE
