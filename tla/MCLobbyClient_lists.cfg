SPECIFICATION Spec
CONSTANTS
  None = None
  Endpoints = 2
  ServerMayFail = TRUE
  MaxLines = 2
  MaxPrinted = 3
  MaxCommands = 4
  MaxKills = 1
  SessionIds <- MCSessionIds
  BodyLengths <- MCBodyLengths
INVARIANT TypeOK
INVARIANT CommandsInOrder
INVARIANT OneAnswer
INVARIANT AnswerShown
INVARIANT HeaderSurvives
PROPERTY ImplementsCommandQueue
PROPERTY MenuReturns
PROPERTY DaemonEnds
CHECK_DEADLOCK FALSE
