SPECIFICATION BesideSpec
CONSTANTS
  m1 = m1
  m2 = m2
  r1 = r1
  r2 = r2
  Mail = {m1, m2}
  Req = {r1, r2}
  DueAt <- MCDueAt
  Throttle = 1
  MaxTime = 2
  Ops = {"schedule", "cancel", "flush", "mfa", "put", "clean"}
  SmtpFails = FALSE
  MaxCrashes = 1
  MaxSent = 1
CHECK_DEADLOCK FALSE
CONSTRAINT SentBound
SYMMETRY Symmetry
INVARIANTS NoSilentLoss
