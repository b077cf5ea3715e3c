SPECIFICATION Spec
CONSTANTS
  t1 = t1
  t2 = t2
  r1 = r1
  r2 = r2
  Tok = {t1, t2}
  Req = {r1, r2}
  MaxCrashes = 0
CHECK_DEADLOCK FALSE
INVARIANTS StaysOut
