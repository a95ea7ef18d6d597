SPECIFICATION Spec
CONSTANTS
  plain = plain
  ssl = ssl
  Clients <- MCClients
  Intercepted <- MCIntercepted
  Patient <- MCPatient
  Asks <- MCAsks
  Capacity = 2
  MaxAges = {1}
  MaxRequests = 2
  MaxTime = 1
  NULL = NULL
INVARIANTS
  TypeOK
  OwnKey
  AnswersMatch
  OnePlace
  PatientInOrder
