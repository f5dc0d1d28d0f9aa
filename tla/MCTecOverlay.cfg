CONSTANTS
  Order <- MCOrder
  None = None
  Interval = 1
  Debounce = 2
  Gap = 2
  MaxTime = 1
  MaxWrites = 2
  MaxChanges = 2
SPECIFICATION FairSpec
INVARIANTS
  TypeOK
  ShownIsSelected
  OverlaysAreHeld
  SettledSelection
PROPERTY DueRequestIsMade
