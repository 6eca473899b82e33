SPECIFICATION Spec
CONSTANTS
  None = None
  Endpoints = 2
  ServerMayFail = FALSE
  MaxLines = 2
  MaxPrinted = 3
  MaxCommands = 2
  MaxKills = 0
  SessionIds <- MCSessionIds
  BodyLengths <- MCBodyLengths
CHECK_DEADLOCK FALSE
PROPERTY QuitEnds
