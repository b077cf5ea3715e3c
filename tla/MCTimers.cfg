SPECIFICATION TimersSpec
CONSTANTS
  d1 = d1
  c1 = c1
  Proc = {p1, p2, p3}
  MaxAttempts = 5
  Window = 3
  MaxCrashes = 2
  Patcher = {d1}
  Checker = {c1}
  Tracked = {}
  MaxMx = 1
  MaxEdits = 1
  MaxFaults = 1
  m1 = m1
  m2 = m2
  r1 = r1
  Mail = {m1, m2}
  Req = {r1}
  Throttle = 1
  MaxTime = 3
  Ops = {"schedule", "cancel", "flush", "clean"}
  SmtpFails = TRUE
  MaxRestarts = 1
CHECK_DEADLOCK FALSE
INVARIANTS GuessBound MxRowFits
PROPERTIES LockEnds VerdictsSettle OutboxSpec EventuallyHandled
