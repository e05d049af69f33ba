\* No symmetry: liveness.  One job, two retry keys, one fault, a spare worker.
CONSTANTS
  Job = {j1}
  Worker = {w1, w2}
  Key = {k1, k2}
  NoKey = NoKey
  NoWorker = NoWorker
  NoJob = NoJob
  LeaseTicks = 2
  MaxFaults = 1
SPECIFICATION FairSpec
INVARIANTS
  RetryNamesAnAttempt
PROPERTIES
  EveryJobSettles
CHECK_DEADLOCK FALSE
