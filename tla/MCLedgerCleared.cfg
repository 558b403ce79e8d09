SPECIFICATION HSpec
CONSTANTS
  Address = {a1, a2}
  Absent = Absent
  NoTime = NoTime
  Second = 2
  Results <- MCResults
  Retentions = {0, 3}
  RetryTimeouts = {4}
  MaxTime = 9
INVARIANTS
  ClearedOnFailure
