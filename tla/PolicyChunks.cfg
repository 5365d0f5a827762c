SPECIFICATION Spec
CONSTANTS
  ParentMaxChars = 7
  ChildWindowChars = 5
  ChildStrideChars = 4
  MinParentChars = 3
  MaxChars = 16
INVARIANTS
  PhrasesKeptWhole
  NoWindowWithinAnother
  OnlyScrapsDropped
CHECK_DEADLOCK FALSE
