CONSTANTS
  Base = 10
  MaxTicks = 2
  MaxProfile = 12
SPECIFICATION Spec
INVARIANTS TypeOK ReadsAnInstant RetriesOnce ProfilesElapsed
PROPERTY Returns
