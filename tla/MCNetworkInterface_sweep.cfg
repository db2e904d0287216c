SPECIFICATION Spec
CONSTANTS
  Addr = {1, 2}
  Handler = {h1, h2}
  Chan = {c1, c2}
  NULL = NULL
  Listeners = {"EXTERNAL"}
  Faults = {}
  MaxAccept = 3
  MaxDrift = 2
  MaxFree = 2
INVARIANT LoopsFinish
CHECK_DEADLOCK FALSE
