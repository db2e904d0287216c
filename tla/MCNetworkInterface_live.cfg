SPECIFICATION FairSpec
CONSTANTS
  Addr = {1, 2}
  Handler = {h1, h2}
  Chan = {c1, c2}
  NULL = NULL
  Listeners = {"INTERNAL"}
  Faults = {}
  MaxAccept = 2
  MaxDrift = 2
  MaxFree = 2
PROPERTIES
  CondemnedLeaves
  HangupNoticed
  SilenceReaped
CHECK_DEADLOCK FALSE
