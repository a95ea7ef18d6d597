SPECIFICATION Spec
CONSTANTS
  Numeral <- MCNumeral
  DefaultMaxAge = 3600
  Streams <- MCStreams
INVARIANT
  ResponsesComplete
