CONSTANTS
  Clocks = 2
  Skews = {0}
  Interval = 2
  MaxEpochs = 2
  MaxPoints = 3
SPECIFICATION FairSpec
INVARIANTS
  TypeOK
  ChangesAreScheduled
  OnePointPerEpoch
  BestSentenceShown
  ReceiverDateKept
PROPERTIES
  EveryChangeIsShown
