SPECIFICATION FairSpec
CONSTANTS
  ListenSock = 3
  OpenMax = 9
  FdSetSize = 8
  UseSsl = FALSE
  MaxPipelined = 2
  NULL = NULL
INVARIANTS
  TypeOK
  DescriptorsConsistent
  ServersHaveClient
  TunnelsPaired
  OnlyFailuresLeak
PROPERTIES
  ImplementsSessions
  PassEnds
