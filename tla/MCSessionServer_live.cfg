\* What the event loop eventually does for every connection.
CONSTANTS
  c1 = c1
  c2 = c2
  Conn <- TwoConns
  Login <- OneLogin
  Name <- AllNickel
  GameIdx = {1}
  ClientTypes = {"MT_BCAST", "MT_DISCONNECT"}
  BodyLengths = {0, 1}
  PeerId = {2}
  OuterException = {"NullArchive"}
  AcceptMayFail = FALSE
  MaxSend = 1
  MaxStarts = 1
SPECIFICATION FairSessionSpec
PROPERTIES
  DepartureNoticed
  QueueDrains
  ConnectionsAccepted
CHECK_DEADLOCK FALSE
