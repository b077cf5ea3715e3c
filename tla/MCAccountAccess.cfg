CONSTANTS
  r1 = r1
  r2 = r2
  t1 = t1
  c1 = c1
  l1 = l1
  Req = {r1, r2}
  Tok = {t1}
  Chal = {c1}
  Link = {l1}
  MaxSetups = 2
  MaxPw = 1
  MaxCrashes = 1
  None = None
SPECIFICATION Spec
SYMMETRY Symmetry
INVARIANTS OldPasswordOut CodeUses EnabledIsVerified
CHECK_DEADLOCK TRUE
