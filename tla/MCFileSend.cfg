CONSTANTS
  uart = uart
  tcp = tcp
  Transports <- MCTransports
  InitialTransport = uart
  MaxJobs = 3
  MaxPackets = 2
  MaxDownloads = 1
  MaxRaw = 1
SPECIFICATION FairSpec
INVARIANTS
  TypeOK
  NoStrandedJob
  SendHasAPacket
  FilesInOrder
  GaplessOnOneTransport
  ReportIsTrue
PROPERTIES
  ImplementsFileJobQueue
  EveryJobEnds
