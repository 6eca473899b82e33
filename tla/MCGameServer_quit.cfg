\* A user who logs in, logs out and closes the connection.
CONSTANTS
  c1 = c1
  Null = Null
  Conn <- OneConn
  Login <- Logins
  Name <- Single
  User <- Logins
  Game = {1}
  StoredGame <- NobodyPlays
  GameIdx = {1}
  ClientTypes = {"MT_SET_NAME", "MT_DISCONNECT"}
  BodyLengths = {1}
  PeerId = {2}
  OuterException = {"NullArchive", "NullResults", "NullName"}
  AcceptMayFail = FALSE
  SqlMayFail = FALSE
  MaxSend = 2
  MaxStarts = 1
SPECIFICATION GameSpec
INVARIANTS
  ServesAfterLogout
CHECK_DEADLOCK FALSE
