\* One question is enough to show it; Fragile is empty, so no episode is withdrawn.
CONSTANTS
  Turn = {t1}
  Run = {r1}
  Fragile = {}
  Worker = {w1, w2}
  NoTurn = NoTurn
  NoRun = NoRun
  NoWorker = NoWorker
  LeaseTicks = 1
  MaxFaults = 1
SPECIFICATION Spec
INVARIANTS
  QuietChatIsBackedUp
CHECK_DEADLOCK FALSE
