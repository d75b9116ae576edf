SPECIFICATION Spec

CONSTANTS
  Primary = Primary
  Secondary = Secondary
  NoQuery = NoQuery
  NoEcho = NoEcho
  Tests <- DefaultTest
  Deployments = {"own"}
  Duplicating = FALSE

INVARIANTS
  FilteringSound
