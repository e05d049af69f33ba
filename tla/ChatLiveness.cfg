\* No symmetry: liveness.  One question, a spare worker for one fault.
CONSTANTS
  Turn = {t1}
  Run = {r1}
  Fragile = {r1}
  Worker = {w1, w2}
  NoTurn = NoTurn
  NoRun = NoRun
  NoWorker = NoWorker
  LeaseTicks = 1
  MaxFaults = 1
SPECIFICATION FairSpec
PROPERTIES
  EveryTurnSettles
CHECK_DEADLOCK FALSE
