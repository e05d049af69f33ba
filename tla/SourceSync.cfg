\* One source, two addresses, one API sync and two worker syncs, one fault; beside it three fetches,
\* one slot and one place to wait, a public and an allow-listed private page.
CONSTANTS
  Url = {u1, u2}
  ApiSync = {a1}
  WorkerSync = {w1, w2}
  NoSync = NoSync
  LeaseTicks = 1
  MaxVersion = 2
  MaxEdits = 2
  MaxFaults = 1
  Fetch = {f1, f2, f3}
  Page = {p1, p2}
  NoPage = NoPage
  PrivatePage = {p2}
  MaxFetches = 1
  MaxQueued = 1
  MaxRedirects = 1
  MaxETag = 2
SPECIFICATION MCSpec
SYMMETRY SourceSymmetry
INVARIANTS
  HealthAgrees
  FetchesDoNotOverlap
  SlotsAreAccounted
  ReportsAreTrue
PROPERTIES
  ItemsNeverGoBack
  EditsFenceFetches
CHECK_DEADLOCK FALSE
