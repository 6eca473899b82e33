\* A user who logs in, asks and logs out, with statements that fail: the layer
\* below is used as SessionServer describes it, and the listing follows the database.
CONSTANTS
  c1 = c1
  Null = Null
  Conn <- OneConn
  Login <- Logins
  Name <- Single
  User <- Logins
  Game = {1}
  StoredGame <- EverybodyPlays
  GameIdx = {1}
  ClientTypes = {"MT_SET_NAME", "MT_DISCONNECT", "MT_GET_USERS", "MT_UCAST", "MT_SET_ID"}
  BodyLengths = {1}
  PeerId = {2}
  OuterException = {"NullArchive", "NullResults", "NullName"}
  AcceptMayFail = FALSE
  SqlMayFail = TRUE
  MaxSend = 2
  MaxStarts = 1
SPECIFICATION FairGameSpec
INVARIANTS
  GameTypeOK
PROPERTIES
  ListingCatchesUp
  SessionSpec
CHECK_DEADLOCK FALSE
