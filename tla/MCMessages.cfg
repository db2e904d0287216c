SPECIFICATION Spec
CONSTANTS
  f1 = f1
  f2 = f2
  a = a
  b = b
  Tables = {t1, t2}
  Names = {f1, f2, a, b}
  NoMsg = NoMsg
  Config <- MCConfig
  Wrap = 5
INVARIANTS
  TypeOK
  IdsByRank
  EndsAgree
  FixedFound
CHECK_DEADLOCK FALSE
