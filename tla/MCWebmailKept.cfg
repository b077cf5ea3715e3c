SPECIFICATION KeptSpec
CONSTANTS
  d1 = d1
  d2 = d2
  home = home
  work = work
  e1 = e1
  k1 = k1
  t1 = t1
  l1 = l1
  m1 = m1
  b1 = b1
  b2 = b2
  a1 = a1
  a2 = a2
  w1 = w1
  Page = {d1, d2}
  Primary = home
  Cal = {home, work}
  Event = {e1}
  Card = {k1}
  Task = {t1}
  List = {l1}
  MaxSaves = 3
  Letter = {m1}
  Shelf = {"INBOX", "Archive"}
  Opening = "INBOX"
  MaxStay = 2
  MaxAsks = 2
  MaxElse = 1
  Browser = {b1, b2}
  Contact = {a1, a2}
  Writer = {w1}
  NagEvery = 1
  MaxPresses = 4
  MaxWires = 2
SYMMETRY Alike
CHECK_DEADLOCK FALSE
INVARIANTS EventsShown LastMade ListFollows UnreadKept ShownAsIs EmailWasProved
