SPECIFICATION Spec
CONSTANTS
  none = none
  Path <- Mixed
  Directory <- OneDirectory
  Above <- AboveMixed
  MaxRevision = 3
  NoPath = none
  BlankFiles = FALSE
  RacingReads = FALSE
  KeepsResumeFile = TRUE
INVARIANTS TypeOK LogIsDifference IndexedIsSearchable
PROPERTIES DeletedFilesPurged
