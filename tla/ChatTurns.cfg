\* Two questions about one episode, two overlapping workers, one fault.
CONSTANTS
  Turn = {t1, t2}
  Run = {r1}
  Fragile = {r1}
  Worker = {w1, w2}
  NoTurn = NoTurn
  NoRun = NoRun
  NoWorker = NoWorker
  LeaseTicks = 1
  MaxFaults = 1
SPECIFICATION Spec
SYMMETRY ChatSymmetry
INVARIANTS
  TypeOK
  OneRequestPerEpisode
  PublicationIsValidated
  HistoryMatchesTurn
  RetryIsSafe
PROPERTIES
  SchemaAcceptsEveryWrite
CHECK_DEADLOCK FALSE
