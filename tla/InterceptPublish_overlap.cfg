SPECIFICATION PublishSpec
CONSTANTS
  i1 = i1
  i2 = i2
  p1 = p1
  p2 = p2
  Items <- MCItems
  Dir <- MCDir
  Publishers <- TwoPublishers
INVARIANT
  QuietViewIsCurrent
