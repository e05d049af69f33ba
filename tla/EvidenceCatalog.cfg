\* Bodies of up to nine units; a run of three blanks is a long one.
CONSTANTS
  MaxExcerpt = 6
  MinExcerpt = 3
  MaxCitations = 2
  MaxChunk = 6
  MaxChunks = 3
  BodyBound = 9
  SegmentBound = 5
  WordBound = 2200
  FileBound = 4
SPECIFICATION MCSpec
INVARIANT LongBodiesAreSplit
CHECK_DEADLOCK FALSE
