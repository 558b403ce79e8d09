SPECIFICATION FairSpec
CONSTANTS
  s1 = s1
  s2 = s2
  a1 = a1
  Specs = {s1, s2}
  Empty = Empty
  Drifted = Drifted
  Address = {a1}
  Answers = {{a1}}
  Nil = Nil
  MayRelist = TRUE
  MaxCreated = 2
  MaxEdits = 1
  MaxDrifts = 1
  MaxFaults = 1
INVARIANTS
  NeverForgotten
PROPERTIES
  Converges
  StrangerUntouched
CHECK_DEADLOCK FALSE
