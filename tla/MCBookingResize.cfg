SPECIFICATION Spec
CONSTANTS
  r1 = r1
  r2 = r2
  r3 = r3
  i1 = i1
  i2 = i2
  i3 = i3
  Req = {r1}
  Id = {i1, i2}
  Close = 3
  Hours <- MCHours
  Durations = {1, 2}
  MaxTime = 1
CHECK_DEADLOCK FALSE
INVARIANTS NoOverlap
