SPECIFICATION Spec
CONSTANTS
  Addr = {1, 2}
  Handler = {h1, h2}
  Chan = {c1, c2}
  NULL = NULL
  Listeners = {"EXTERNAL", "INTERNAL"}
  Faults = {}
  MaxAccept = 3
  MaxDrift = 2
  MaxFree = 2
INVARIANT CountsExternal
CHECK_DEADLOCK FALSE
