SPECIFICATION LettersSpec
CONSTANTS
  x1 = x1
  x2 = x2
  x3 = x3
  h1 = h1
  h2 = h2
  n1 = n1
  n2 = n2
  s1 = s1
  s2 = s2
  l1 = l1
  l2 = l2
  Letter = {l1, l2}
  UndoSecs = 1
  MaxCalls = 2
  Run = {n1, n2}
  Source = {s1, s2}
  NoId = {s2}
  Boxes <- MCBoxes
  Rcpt = {x1, x2}
  Req = {h1, h2}
  MaxFaults = 1
CHECK_DEADLOCK FALSE
INVARIANTS SentOnce NobodySkipped CopiedOnce SentAsAsked LetterWhole NothingLost
PROPERTIES SendEnds
