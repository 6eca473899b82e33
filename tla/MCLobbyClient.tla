--------------------------- MODULE MCLobbyClient ----------------------------
(* Values of the constants for TLC: ids up to the last that leaves a blank in  *)
(* its field, and the first that does not.                                     *)
EXTENDS LobbyClient

MCSessionIds == {999, 1000}
MCBodyLengths == {22, 512}
=============================================================================
