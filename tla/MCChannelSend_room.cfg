SPECIFICATION Spec
CONSTANTS
  Chan = {c1, c2}
  MaxSize = 4
  Slack = 1
  Critical = 1
  Overflow = 1
  MaxBytes = 6
INVARIANT RoomIsWritable
