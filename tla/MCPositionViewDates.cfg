CONSTANTS
  Clocks = 2
  Skews = {0, 1}
  Interval = 2
  MaxEpochs = 2
  MaxPoints = 3
SPECIFICATION Spec
INVARIANTS
  OnePointPerEpoch
