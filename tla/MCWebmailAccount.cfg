SPECIFICATION AccountSpec
CONSTANTS
  t1 = t1
  t2 = t2
  r1 = r1
  r2 = r2
  h1 = h1
  h2 = h2
  k1 = k1
  task = task
  rule = rule
  blocked = blocked
  allowed = allowed
  tasks = tasks
  autoClean = autoClean
  blockedSenders = blockedSenders
  allowedSenders = allowedSenders
  Tok = {t1, t2}
  Req = {r1, r2}
  MaxCrashes = 1
  Handler = {h1, h2}
  Challenge = {k1}
  MaxWrong = 2
  MaxSecrets = 2
  MaxResends = 1
  Tab = {t1, t2}
  Writer = {r1, r2}
  Entry = {task, rule, blocked, allowed}
  KeyOf <- MCKeyOf
  PageKey = {tasks, autoClean}
  PlainKey = {autoClean, blockedSenders}
  ListKey = {allowedSenders}
  CleanKey = autoClean
  MaxSaves = 3
CHECK_DEADLOCK FALSE
SYMMETRY Symmetry
VIEW View
INVARIANTS EndedIsGone RecoveryOnce ChallengeOnce ToldIsKept
