CONSTANTS
  uart = uart
  tcp = tcp
  Transports <- MCTransports
  InitialTransport = uart
  MaxJobs = 1
  MaxPackets = 2
  MaxDownloads = 1
  MaxRaw = 1
SPECIFICATION Spec
INVARIANT PluginSendsStayOutside
