\* All kinds of packets, bad lengths included, failing accepts, and a second server process.
CONSTANTS
  c1 = c1
  c2 = c2
  Conn <- TwoConns
  Login <- OneLogin
  Name <- AllNickel
  GameIdx = {1}
  ClientTypes = {"MT_BCAST", "MT_UCAST", "MT_DISCONNECT", "MT_GET_GAMES", "MT_SET_NAME"}
  BodyLengths = {1, 513}
  PeerId = {2}
  OuterException = {"NullArchive"}
  AcceptMayFail = TRUE
  MaxSend = 1
  MaxStarts = 2
SPECIFICATION SessionSpec
SYMMETRY ConnSymmetry
INVARIANTS
  TypeOK
  MapConsistent
  MembersAreServed
  SessionInv
  IdAnnounced
PROPERTIES
  ImplementsGroup
CHECK_DEADLOCK FALSE
