SPECIFICATION HSpec
CONSTANTS
  Address = {a1, a2}
  Absent = Absent
  NoTime = NoTime
  Second = 2
  Results <- MCResults
  Retentions = {2}
  RetryTimeouts = {6}
  MaxTime = 9
INVARIANTS
  ToleranceHonoured
