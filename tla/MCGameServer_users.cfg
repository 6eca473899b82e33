\* One user who logs in, plays, asks and logs out, over two server processes.
CONSTANTS
  c1 = c1
  Null = Null
  Conn <- OneConn
  Login <- Logins
  Name <- Single
  User <- Logins
  Game = {1}
  StoredGame <- NobodyPlays
  GameIdx = {1, 9}
  ClientTypes = {"MT_SET_NAME", "MT_DISCONNECT", "MT_BEGIN_GAME", "MT_END_GAME", "MT_GET_USERS", "MT_BCAST", "MT_GET_GAMES"}
  BodyLengths = {1}
  PeerId = {2}
  OuterException = {"NullArchive", "NullResults", "NullName"}
  AcceptMayFail = FALSE
  SqlMayFail = FALSE
  MaxSend = 3
  MaxStarts = 2
SPECIFICATION GameSpec
INVARIANTS
  OnlineFollowsLogins
  GameFollowsRequests
  FailuresExplained
  QueryFailuresExplained
  AnswersInOrder
CHECK_DEADLOCK FALSE
