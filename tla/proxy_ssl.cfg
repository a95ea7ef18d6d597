SPECIFICATION FairSpec
CONSTANTS
  ListenSock = 3
  OpenMax = 7
  FdSetSize = 8
  UseSsl = TRUE
  MaxPipelined = 2
  NULL = NULL
INVARIANT DescriptorsConsistent
PROPERTY PassEnds
