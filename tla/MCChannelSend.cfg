SPECIFICATION FairSpec
CONSTANTS
  Chan = {c1, c2}
  MaxSize = 3
  Slack = 0
  Critical = 1
  Overflow = 1
  MaxBytes = 5
INVARIANTS
  TypeOK
  StreamIntact
  CurrentIsLast
PROPERTIES
  Drains
  ImplementsByteStream
