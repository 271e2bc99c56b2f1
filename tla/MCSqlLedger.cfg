SPECIFICATION FairSpec
CONSTANTS
  c1 = c1
  c2 = c2
  c3 = c3
  h1 = h1
  h2 = h2
  Callers = {c1, c2, c3}
  Handles = {h1, h2}
  HandleOf <- Shared
  MaxFaults = 1
  NoOne = NoOne
INVARIANTS LoadIsAtomic AnswersAreTrue ConnectionNotShared
PROPERTIES NothingDropped EveryCallEnds
CHECK_DEADLOCK FALSE
