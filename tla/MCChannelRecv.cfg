SPECIFICATION RecvFairSpec
CONSTANTS
  Kinds <- MCKinds
  NoKind = NoKind
  IdSize = 2
  LenSize = 2
  Len1Size = 4
  MaxSize = 3
  MaxMsgs = 2
  MaxPackets = 1
INVARIANTS
  TypeOK
  HandledAsSent
  NothingWithheld
  StaysInStep
  CondemnedClosed
PROPERTIES
  BatchEnds
  ImplementsMessageStream
  NothingAfterRefusal
  HandlerReturns
  EveryMessageHandled
CHECK_DEADLOCK FALSE
