------------------------------- MODULE Packet -------------------------------
(***************************************************************************)
(* The packets of Common/Packet.h that clients and the server exchange.    *)
(*                                                                         *)
(* A packet is its decoded header and an abstract body.  body_length is 0  *)
(* for a packet sent without PreaperToWrite, above max_body_length for one *)
(* that decode_header refuses, and 1 stands for every other length.  body  *)
(* holds what the handlers read out of the archive: the user's login, or a *)
(* game number and the login.  The content of the replies (the lists) is   *)
(* not represented.                                                        *)
(***************************************************************************)
EXTENDS Integers, Sequences

CONSTANTS
  Login,      \* the names clients introduce themselves with
  GameIdx     \* the game numbers a user may type

ASSUME GameIdxAssumption == GameIdx \subseteq Nat

max_body_length == 512

MsgType ==
  {"MT_NONE", "MT_DISCONNECT", "MT_SET_ID", "MT_SET_NAME", "MT_BCAST",
   "MT_UCAST", "MT_GET_USERS", "MT_GET_GAMES", "MT_BEGIN_GAME", "MT_END_GAME"}

\* The requests a client sends without a body.
Query == {"MT_GET_USERS", "MT_GET_GAMES"}

Body == {<<>>} \cup {<<u>> : u \in Login} \cup (GameIdx \X Login)

Packet ==
  [type : MsgType, senderId : Nat, reciverId : Nat,
   body_length : Nat, body : Body]

\* The header is usable iff the body announced fits the packet's buffer.
decode_header(p) == p.body_length <= max_body_length

\* What Session::Start sends: the session's id, twice, and no body.
SetId(i) ==
  [type |-> "MT_SET_ID", senderId |-> i, reciverId |-> i,
   body_length |-> 0, body |-> <<>>]

\* Mutant of Answer: every list is sent as the list of games.
AnswerGames(p) ==
  [type |-> "MT_GET_GAMES", senderId |-> p.reciverId, reciverId |-> p.senderId,
   body_length |-> 1, body |-> <<>>]

\* The answer to a query: addressed to the id the query claims to come from.
Answer(p) ==
  [type |-> p.type, senderId |-> p.reciverId, reciverId |-> p.senderId,
   body_length |-> 1, body |-> <<>>]

\* What the body of a request of type t holds, sent by user u about game g.
Payload(t, u, g) ==
  CASE t \in {"MT_SET_NAME", "MT_DISCONNECT", "MT_END_GAME"} -> <<u>>
    [] t = "MT_BEGIN_GAME" -> <<g, u>>
    [] OTHER -> <<>>
=============================================================================
