\* Two requests, two overlapping workers, one fault (crash, stop or stall).
CONSTANTS
  Job = {j1, j2}
  Worker = {w1, w2}
  Key = {k1}
  NoKey = NoKey
  NoWorker = NoWorker
  NoJob = NoJob
  LeaseTicks = 1
  MaxFaults = 1
SPECIFICATION Spec
SYMMETRY JobSymmetry
INVARIANTS
  SingleRunning
  HistoryMatchesJob
  OwnerHoldsCurrentAttempt
  PublishedByCompleteAttempt
  QuietJobsAreBackedUp
PROPERTIES
  HistoryIsFinal
  LeaseProtectsAttempt
  ImplementsQueue
CHECK_DEADLOCK FALSE
