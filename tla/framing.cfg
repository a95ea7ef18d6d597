SPECIFICATION Spec
CONSTANTS
  Numeral <- MCNumeral
  DefaultMaxAge = 3600
  Streams <- MCStreams
INVARIANTS
  NothingLost
  RequestsWhole
  TunnelStartsClean
  ChunkedWhole
  LengthAlmostWhole
  HeadersEnd
  HitReplays
