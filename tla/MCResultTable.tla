--------------------------- MODULE MCResultTable ---------------------------
(* Values of the constants for TLC.                                          *)
EXTENDS ResultTable, TLC

CONSTANTS u1, u2

MCUser == {u1, u2}
MCColumn == {"login", "name"}

UserSymmetry == Permutations(MCUser)
=============================================================================
