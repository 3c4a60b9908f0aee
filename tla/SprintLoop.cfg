\* Two sprints, two edits, a lost attempt and a recovery.
SPECIFICATION SprintSpec
CONSTANTS
  SeedSprintBudget = 12
  Edits = {e1, e2}
  Overlays <- SomeOverlays
  Bundles <- SomeBundles
  LastSprint = 2
  MaxRounds = 2
  Losable <- SomeLosable
  MaxLost = 1
  MaxRecoveries = 1
INVARIANTS
  AttemptsBounded
  HaltsStick
  NoThirdTry
  RejectedForCause
CHECK_DEADLOCK FALSE
