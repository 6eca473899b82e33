\* Every key and two timers at a time.
SPECIFICATION Spec
CONSTANTS
  Chars <- MCChars
  Label <- MCLabel
  Typed <- MCTyped
  Pressed <- MCPressed
  searchData <- MCsearchData
  SelectItemCount = 2
  MaxTimers = 2
INVARIANT TypeOK
INVARIANT ClosedForgets
INVARIANT PageAnswersLast
INVARIANT FocusVisible
INVARIANT NothingLeft
INVARIANT NavInDocumentOrder
