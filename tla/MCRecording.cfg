CONSTANTS
  Plugins <- MCPlugins
  Rank <- MCRank
  MaxReloads = 1
  MaxSessions = 2
  logs = logs
  archive = archive
  Roots <- MCRoots
  Stamps = {1}
  MaxFrames = 1
SYMMETRY RootSymmetry
SPECIFICATION RecordingSpec
INVARIANTS
  TypeOK
  ActiveFollowsLock
  LockHeldWhileOpen
  OnlyTcpLocksUnopened
  TwoOpenOnlyByTcp
  SwitchesNeedRoot
  SessionUnderCurrentRoot
  OwnDirectories
  MisfiledOnlyWithTcp
PROPERTY LoneConnectionStartsSession
