SPECIFICATION Spec
CONSTANTS
  ListenSock = 3
  OpenMax = 6
  FdSetSize = 8
  UseSsl = FALSE
  MaxPipelined = 1
  NULL = NULL
INVARIANT RequestLoopKeepsBuffer
