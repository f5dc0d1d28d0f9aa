CONSTANTS
  Plugins <- MCPlugins
  Rank <- MCRank
  MaxReloads = 2
  MaxSessions = 2
  logs = logs
  archive = archive
  Roots <- MCRoots
  Stamps = {1, 2}
  MaxFrames = 1
SYMMETRY RootSymmetry
SPECIFICATION RecordingSpec
INVARIANT FiledUnderItsConnection
