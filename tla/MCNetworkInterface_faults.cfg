SPECIFICATION Spec
CONSTANTS
  Addr = {1, 2}
  Handler = {h1, h2}
  Chan = {c1, c2}
  NULL = NULL
  Listeners = {"EXTERNAL", "INTERNAL"}
  Faults = {"open", "peername"}
  MaxAccept = 3
  MaxDrift = 2
  MaxFree = 2
SYMMETRY Symmetry
INVARIANTS
  TypeOK
  RegistrySound
  CallbacksSound
  OpenRegistered
CHECK_DEADLOCK FALSE
