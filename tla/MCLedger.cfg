SPECIFICATION HSpec
CONSTANTS
  Address = {a1, a2}
  Absent = Absent
  NoTime = NoTime
  Second = 2
  Results <- MCResults
  Retentions = {0, 5}
  RetryTimeouts = {2, 4}
  MaxTime = 9
INVARIANTS
  TypeOK
  FailingSinceExact
  MissingSinceExact
  RecordedWasSeen
  RecordedForAReason
  ToleranceHonoured
PROPERTIES
  NoEarlyDrop
