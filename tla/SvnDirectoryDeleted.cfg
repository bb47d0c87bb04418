SPECIFICATION Spec
CONSTANTS
  none = none
  Path <- Folder
  Directory <- OneDirectory
  Above <- AboveFolder
  MaxRevision = 2
  NoPath = none
  BlankFiles = FALSE
  RacingReads = FALSE
  KeepsResumeFile = TRUE
PROPERTIES DeletedFilesLeaveNothing
