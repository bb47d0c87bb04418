SPECIFICATION FairSpec
CONSTANTS
  none = none
  Path <- Folders
  Directory <- TwoDirectories
  Above <- AboveFolders
  MaxRevision = 2
  NoPath = none
  BlankFiles = TRUE
  RacingReads = FALSE
  KeepsResumeFile = TRUE
INVARIANTS IndexedIsSearchable
PROPERTIES Converges
