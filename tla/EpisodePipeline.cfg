\* One captured source, two workers, two possible scripts, two attempts (a retry or a
\* recovery), two edits or foreign synchronizations and one stall, stop or crash.
CONSTANTS
  Worker = {w1, w2}
  NoWorker = NoWorker
  Source = {s1}
  Url = {u1, u2}
  CapturedUrl = u1
  NoUrl = NoUrl
  Script = {t1, t2}
  NoScript = NoScript
  MinRows = 1
  MaxAttempts = 2
  MaxEdits = 2
  MaxFaults = 1
  MaxExcerpt = 6
  MinExcerpt = 3
  MaxCitations = 2
  MaxChunk = 6
  MaxChunks = 3
  BodyBound = 9
  SegmentBound = 5
  WordBound = 2200
  FileBound = 4
SPECIFICATION MCSpec
SYMMETRY PipelineSymmetry
INVARIANTS
  EvidenceIsOfCapturedUrl
  OpenAiSeesPublicOnly
  PublishedAudioIsServed
  LengthContractIsSatisfiable
  CatalogIsCitable
  ReferencesResolve
  ChunksSpeakTheScript
  RangesLieInTheFile
PROPERTIES
  EvidenceIsFrozen
CHECK_DEADLOCK FALSE
