SPECIFICATION PagesSpec
CONSTANTS
  r1 = r1
  r2 = r2
  i1 = i1
  i2 = i2
  i3 = i3
  f1 = f1
  f2 = f2
  Req = {r1, r2}
  Id = {i1, i2, i3}
  Close = 3
  Hours <- MCHours
  Durations = {1, 2}
  MaxTime = 1
  Msg = {r1, r2}
  Custom = {f1, f2}
  MaxUid = 2
  MaxGiven = 4
CHECK_DEADLOCK FALSE
SYMMETRY Symmetry
INVARIANTS NoDoubleBooking BulkHitsChosen
PROPERTIES PageSpec
