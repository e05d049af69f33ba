\* Two tabs, or one reloaded; a question, one retry of it and a competing question; one fault.
CONSTANTS
  Tab = {a, b}
  Key = {k1, k2}
  NoKey = NoKey
  MaxTurns = 1
  MaxMounts = 2
  MaxFaults = 1
SPECIFICATION Spec
SYMMETRY ViewSymmetry
INVARIANTS
  TypeOK
PROPERTIES
  HistoryNeverGoesBack
  UncertaintyIsKept
CHECK_DEADLOCK FALSE
