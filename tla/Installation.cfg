\* Volumes: two episodes, five commits of a database, three kills, failed writes or lost
\* volumes.  Providers: two keys and two models; two replacements, one job, one test, one new
\* deployment and one stop, damaged file or failed write.
CONSTANTS
  Episode = {e1, e2}
  MaxCommits = 5
  MaxMishaps = 3
  Key = {k1, k2}
  NoKey = NoKey
  Damaged = Damaged
  Model = {m1, m2}
  MaxReplacements = 2
  MaxJobs = 1
  MaxTests = 1
  MaxDeployments = 1
  MaxFaults = 1
SPECIFICATION MCSpec
SYMMETRY InstallationSymmetry
INVARIANTS
  RunningHasItsMedia
  HalfInstalledOnlyByDamage
  LiveMeansVerified
PROPERTIES
  BackupIsCurrent
  EvidenceSurvives
CHECK_DEADLOCK FALSE
