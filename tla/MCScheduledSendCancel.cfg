SPECIFICATION BesideSpec
CONSTANTS
  m1 = m1
  m2 = m2
  r1 = r1
  r2 = r2
  Mail = {m1}
  Req = {r1, r2}
  DueAt <- MCDueSoon
  Throttle = 1
  MaxTime = 3
  Ops = {"schedule", "cancel", "flush"}
  SmtpFails = FALSE
  MaxCrashes = 0
  MaxSent = 2
CHECK_DEADLOCK FALSE
CONSTRAINT SentBound
PROPERTIES CancelWins
