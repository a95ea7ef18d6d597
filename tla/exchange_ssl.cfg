SPECIFICATION Spec
CONSTANTS
  plain = plain
  ssl = ssl
  Clients <- MCClients
  Intercepted <- MCIntercepted
  Patient <- MCPatient
  Asks <- MCAsksAny
  Capacity = 2
  MaxAges = {1}
  MaxRequests = 2
  MaxTime = 1
  NULL = NULL
INVARIANT OwnKey
