---------------------------- MODULE MCGameServer ----------------------------
(* Small instances of GameServer for TLC. *)
EXTENDS GameServer, TLC

CONSTANT c1

\* One client, whose login is one of two.
OneConn == {c1}
Logins  == {"nickel", "alabama"}
Single  == c1 :> "nickel"

\* The database file at the first start: nobody plays, or everybody does.
NobodyPlays    == [u \in User |-> 0]
EverybodyPlays == [u \in User |-> 1]
=============================================================================
