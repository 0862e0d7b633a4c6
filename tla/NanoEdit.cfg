SPECIFICATION FairSpec
CONSTANTS
  Letters = {"a"}
  Files = {"f"}
  Texts <- Texts1
  Outputs <- Outputs1
  Terms <- LetterTerms
  Repls <- LetterRepls
  Page = 2
  Fill = 3
  TabWidth = 1
  MaxUndo = 1
  MaxEdits = 2
  NoName = "no name"
INVARIANTS
  CursorKept
  QuitKeepsText
PROPERTIES
  TextRecoverable
  ReplaceAllEnds
  ReplaceAllIsComplete
CHECK_DEADLOCK FALSE
