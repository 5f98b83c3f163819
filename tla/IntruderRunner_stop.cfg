SPECIFICATION Spec
CONSTANTS
  a1 = a1
  r1 = r1
  r2 = r2
  h1 = h1
  h2 = h2
  Attacks <- OneAttack
  Runs <- TwoRuns
  Handlers <- TwoHandlers
  Total = 1
  ProgressEvery = 1
  Faults <- Nothing
INVARIANT
  WorkingRunIsShown
