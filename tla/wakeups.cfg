SPECIFICATION Spec
CONSTANTS
  MaxFd = 3
  ClientOf <- MCClientOf
  Connected <- MCConnected
  MaxRecord = 2
  Timeout = 0
  MaxInbox = 1
PROPERTIES
  ClosedOnlyWhenQuiet
  InputHeard
  FurtherInputFlushes
  IdleClosed
