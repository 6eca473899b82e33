\* What the timers and the frame eventually do, two timers at a time.
SPECIFICATION Spec
CONSTANTS
  Chars <- MCChars
  Label <- MCLabel
  Typed <- MCTyped
  Pressed <- MCFewKeys
  searchData <- MCsearchData
  SelectItemCount = 2
  MaxTimers = 2
PROPERTY QueryAnswered
