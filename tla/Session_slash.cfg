SPECIFICATION Spec
CONSTANTS
  Chars <- MCChars
  Typed <- MCTyped
  TypedLength = 4
  Longer = FALSE
  Folders <- MCFolders
  Files <- MCFiles
  Entries <- MCEntries
  MaxLength = 8
  MaxLost = 4
  MaxRenamed = 2
INVARIANTS
  FixesAfterLastSlash
