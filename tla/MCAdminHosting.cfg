SPECIFICATION HostingSpec
CONSTANTS
  r1 = r1
  r2 = r2
  a1 = a1
  a2 = a2
  a3 = a3
  n1 = n1
  n2 = n2
  k1 = k1
  k2 = k2
  k3 = k3
  w1 = w1
  w2 = w2
  d1 = d1
  s1 = s1
  Root = Root
  Nobody = Nobody
  Acct = {k1, k2, k3}
  Dom = {d1}
  Work = {w1, w2}
  Limits = {1}
  MaxActs = 4
  Apply = {n1, n2}
  Managed = {"MX", "SPF"}
  Unrelated = {"www"}
  MaxSteps = 3
  Req = {r1, r2}
  Addr = {a1, a2, a3}
  Caps = {1, 2}
  Files <- MCFiles
  Sending = {s1}
  MaxOpens = 1
  MaxPresses = 1
  MaxLosses = 1
SYMMETRY MCSymmetry
CHECK_DEADLOCK FALSE
INVARIANTS Overshoot UnrelatedKept TwoLevels CapPassedByRacesOnly DomainsFrozen ShownIsCurrent
