------------------------------ MODULE MCSvnIndex ------------------------------
(* A file in a directory; the same beside a file at the top; and two directories  *)
(* with a file each.                                                              *)
EXTENDS SvnIndex
CONSTANT none

OneDirectory == {1}
Folder == 1..2
AboveFolder == <<{}, {1}>>
Mixed == 1..3
AboveMixed == <<{}, {1}, {}>>

TwoDirectories == {1, 3}
Folders == 1..4
AboveFolders == <<{}, {1}, {}, {3}>>
=============================================================================
