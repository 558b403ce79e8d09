SPECIFICATION Spec
CONSTANTS
  s1 = s1
  s2 = s2
  a1 = a1
  Specs = {s1, Empty}
  Empty = Empty
  Drifted = Drifted
  Address = {a1}
  Answers <- MCAnswers
  Nil = Nil
  MayRelist = FALSE
  MaxCreated = 1
  MaxEdits = 1
  MaxDrifts = 0
  MaxFaults = 1
INVARIANTS
  EmptyRevokes
CHECK_DEADLOCK FALSE
