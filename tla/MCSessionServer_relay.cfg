\* Two clients that broadcast and send to each other, and may hang up.
CONSTANTS
  c1 = c1
  c2 = c2
  Conn <- TwoConns
  Login <- OneLogin
  Name <- AllNickel
  GameIdx = {1}
  ClientTypes = {"MT_BCAST", "MT_UCAST"}
  BodyLengths = {1}
  PeerId = {2}
  OuterException = {}
  AcceptMayFail = FALSE
  MaxSend = 2
  MaxStarts = 1
SPECIFICATION SessionSpec
SYMMETRY ConnSymmetry
INVARIANTS
  OnlyAddressee
  RelayInOrder
CHECK_DEADLOCK FALSE
