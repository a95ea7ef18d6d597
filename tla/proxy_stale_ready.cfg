SPECIFICATION Spec
CONSTANTS
  ListenSock = 3
  OpenMax = 7
  FdSetSize = 8
  UseSsl = FALSE
  MaxPipelined = 2
  NULL = NULL
INVARIANT ReadsOnlyReported
