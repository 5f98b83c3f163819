SPECIFICATION IntruderSpec
CONSTANTS
  a1 = a1
  r1 = r1
  r2 = r2
  h1 = h1
  h2 = h2
  Attacks <- OneAttack
  Runs <- TwoRuns
  Handlers <- TwoHandlers
  Total = 2
  ProgressEvery = 1
  MaxJobs = 8
  Drafts <- MCDrafts
  Faults <- Everything
SYMMETRY Symmetry
INVARIANTS
  TypeOK
  SingleRun
  ResultsOfRun
  CountsAreRight
