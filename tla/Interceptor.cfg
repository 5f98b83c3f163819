SPECIFICATION Spec
CONSTANTS
  i1 = i1
  i3 = i3
  o1 = o1
  o2 = o2
  Items <- MCItems
  Dir <- MCDir
  Operators <- MCOperators
INVARIANTS
  TypeOK
  ClosedGateHoldsNothing
  OneDecider
  NobodyStranded
PROPERTIES
  TogglesRelease
  DisconnectReleases
  ImplementsGate
