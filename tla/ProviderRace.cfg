\* Two keys; the key is replaced while a job or a test with the old one is under way.
CONSTANTS
  Key = {k1, k2}
  NoKey = NoKey
  Damaged = Damaged
  Model = {m1, m2}
  MaxReplacements = 2
  MaxJobs = 1
  MaxTests = 1
  MaxDeployments = 0
  MaxFaults = 0
SPECIFICATION Spec
SYMMETRY KeySymmetry
INVARIANT ReplacedKeyIsUsable
CHECK_DEADLOCK FALSE
