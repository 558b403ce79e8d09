SPECIFICATION Spec
CONSTANTS
  Address = {a1}
  Absent = Absent
  NoTime = NoTime
  Second = 2
  Results <- MCResults
  Retentions = {3}
  RetryTimeouts = {2}
  MaxTime = 4
  MaxRounds = 3
  MaxEdits = 2
  Worker = {w1, w2}
  Nil = Nil
SYMMETRY Replicas
INVARIANTS
  TypeOK
  SightingKept
PROPERTIES
  StoredIsLedger
CHECK_DEADLOCK FALSE
