\* One address, one worker sync and an edit that keeps the URL.
CONSTANTS
  Url = {u1}
  ApiSync = {}
  WorkerSync = {w1}
  NoSync = NoSync
  LeaseTicks = 1
  MaxVersion = 1
  MaxEdits = 0
  MaxFaults = 0
  Fetch = {}
  Page = {p1}
  NoPage = NoPage
  PrivatePage = {}
  MaxFetches = 1
  MaxQueued = 1
  MaxRedirects = 1
  MaxETag = 2
SPECIFICATION MCSpec
INVARIANTS
  ValidatorIsOfStoredItems
CHECK_DEADLOCK FALSE
