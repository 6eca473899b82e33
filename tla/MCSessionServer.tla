-------------------------- MODULE MCSessionServer ---------------------------
(* Small instances of SessionServer for TLC. *)
EXTENDS SessionServer, TLC

CONSTANTS c1, c2

TwoConns  == {c1, c2}
OneLogin  == {"nickel"}
AllNickel == [c \in Conn |-> "nickel"]

\* In these runs every client uses the same login, so they are
\* interchangeable.
ConnSymmetry == Permutations(Conn)
=============================================================================
