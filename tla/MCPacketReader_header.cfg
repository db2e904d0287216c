SPECIFICATION Spec
CONSTANTS
  Kinds <- MCKinds
  NoKind = NoKind
  IdSize = 2
  LenSize = 2
  Len1Size = 4
  MaxSize = 3
  MaxMsgs = 2
  MaxPackets = 2
INVARIANT HeaderReassembled
CHECK_DEADLOCK FALSE
