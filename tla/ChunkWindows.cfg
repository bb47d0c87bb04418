SPECIFICATION Spec
CONSTANTS
  MaxLength = 6
  Text <- ShortTexts
  ChunkSizes = {3, 4}
  Overlaps = {0, 2, 5}
INVARIANTS TypeOK EveryWordChunked ChunksBounded ExcerptIsRange StartsInTime TidyLinesExact
CHECK_DEADLOCK FALSE
