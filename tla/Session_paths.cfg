SPECIFICATION Spec
CONSTANTS
  Chars <- MCChars
  Typed <- MCTyped
  TypedLength = 2
  Longer = TRUE
  Folders <- MCFolders
  Files <- MCFiles
  Entries <- MCEntries
  MaxLength = 5
  MaxLost = 2
  MaxRenamed = 2
INVARIANTS
  CwdIsAPath
  CwdNamesADirectory
  UpIsParent
  UndeleteLooksForTyped
  MarksWhatItFrees
