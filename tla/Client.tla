------------------------------- MODULE Client -------------------------------
(***************************************************************************)
(* Client.h: the connection of the daemon to the server.  All handlers run *)
(* on the thread inside io_service::run, one step each, in the order in    *)
(* which their operations complete; write and close only post a handler.   *)
(* OnRecv writes what it has to show into shared memory and blocks that    *)
(* thread until it has: elements holds what is left, and while it is not   *)
(* empty nothing else runs.                                                *)
(*                                                                         *)
(* The server is the environment: it announces the id, answers queries in  *)
(* order, and may be lost.  Packets carry a number that is not in the code,*)
(* the number of the GUI's command they come from.                         *)
(***************************************************************************)
EXTENDS Integers, Sequences, PacketHeader

CONSTANTS
  Endpoints,      \* how many endpoints the resolver returned
  SessionIds,     \* the ids the server may give the session
  BodyLengths,    \* the lengths the body of a packet may have
  ServerMayFail,  \* whether the connection may be lost
  MaxLines        \* bound: the lines of a list

ASSUME ClientAssumption ==
  /\ Endpoints \in Nat \ {0}
  /\ SessionIds \subseteq Nat \ {0}
  /\ BodyLengths \subseteq 0 .. max_body_length
  /\ ServerMayFail \in BOOLEAN
  /\ MaxLines \in Nat

VARIABLES
  run,         \* the io_service has not run out of work
  posted,      \* handlers posted and not run yet: packets to write, or Close
  socket,      \* "opening", "open" or "closed"
  connecting,  \* an async_connect is pending
  endpoints,   \* how many endpoints have not been tried
  reading,     \* the read pending: "header", "body", "other" (the body of a
               \* packet of which the type was misread) or "none"
  writing,     \* an async_write is pending
  write_msgs,  \* the packets to write, the one being written first
  id,          \* the session id, 0 until it is announced
  elements,    \* what OnRecv has still to write into shared memory
  server,      \* "up" or "lost"
  sessionId,   \* the id the server has given the session, or 0
  up,          \* the packets that reached the server, in order
  answered,    \* how many of them the server has handled
  down         \* the packets on their way to the client

asyncVars  == <<run, posted, connecting, endpoints>>
socketVars == <<socket, reading, writing, write_msgs>>
serverVars == <<server, sessionId, up, answered, down>>
clientVars == <<asyncVars, socketVars, id, elements, serverVars>>

Close == [type |-> "close", n |-> 0, id |-> 0]

SetId == [type |-> "MT_SET_ID", n |-> 0, lines |-> 0]

Query == {"MT_GET_USERS", "MT_GET_GAMES"}

RequestType == {"MT_SET_NAME", "MT_BEGIN_GAME", "MT_DISCONNECT"} \cup Query

ClientInit ==
  /\ run = TRUE
  /\ posted = << >>
  /\ socket = "opening"
  /\ connecting = TRUE
  /\ endpoints = Endpoints - 1
  /\ reading = "none"
  /\ writing = FALSE
  /\ write_msgs = << >>
  /\ id = 0
  /\ elements = << >>
  /\ server = "up"
  /\ sessionId = 0
  /\ up = << >>
  /\ answered = 0
  /\ down = << >>

Handles == run /\ elements = << >>     \* the thread is free to call a handler

(* Whether an operation of the socket may complete with an error.          *)
Broken == socket # "open" \/ server = "lost"

-----------------------------------------------------------------------------
write(m) == posted' = Append(posted, m)

close == posted' = Append(posted, Close)

(* A socket closed after the connect has completed stays closed.           *)
HandleConnect ==
  /\ Handles /\ connecting
  /\ server = "up"
  /\ connecting' = FALSE
  /\ socket' = IF socket = "opening" THEN "open" ELSE socket
  /\ reading' = "header"
  /\ sessionId' \in SessionIds
  /\ down' = <<SetId>>
  /\ UNCHANGED <<run, posted, endpoints, writing, write_msgs, id, elements, server, up, answered>>

(* The next endpoint is tried, and after the last one nothing is done.     *)
HandleConnectFails ==
  /\ Handles /\ connecting
  /\ connecting' = (endpoints > 0)
  /\ socket' = IF endpoints > 0 THEN "opening" ELSE socket
  /\ endpoints' = IF endpoints > 0 THEN endpoints - 1 ELSE 0
  /\ UNCHANGED <<run, posted, reading, writing, write_msgs, id, elements, serverVars>>

(* The header of a packet that carries the id of the session twice, and    *)
(* what a reader may make of it: where the compiler puts the arrays of     *)
(* decode_header is open.                                                  *)
HeaderOf(type, sid, length) ==
  [type |-> MsgNumber(type), senderId |-> sid, reciverId |-> sid, body_length |-> length]

Decoded ==
  [type \in RequestType \cup {"MT_SET_ID"} |-> [sid \in SessionIds \cup {0} |->
     {decode_header(encode_header(HeaderOf(type, sid, length)), layout) :
        length \in BodyLengths, layout \in Layout}]]

(* A type that is misread is the number of no packet.                      *)
HandleReadHeader ==
  /\ Handles /\ reading = "header"
  /\ socket = "open" /\ down # << >>
  /\ \E h \in Decoded[Head(down).type][sessionId] :
       \/ ~Accepted(h) /\ socket' = "closed" /\ reading' = "none"
       \/ /\ Accepted(h)
          /\ reading' = IF h.type = MsgNumber(Head(down).type) THEN "body" ELSE "other"
          /\ UNCHANGED socket
  /\ UNCHANGED <<asyncVars, writing, write_msgs, id, elements, serverVars>>

(* What OnRecv shows of a packet: a list between two marks.  The last mark *)
(* carries the number of lines, which is not in the code.                  *)
Begin(n)   == [type |-> "PT_STRING_BEGIN", n |-> n, line |-> 0]
Line(n, i) == [type |-> "PT_STRING", n |-> n, line |-> i]
End(n, k)  == [type |-> "PT_STRING_END", n |-> n, line |-> k]

\* Mutant of OnRecv: the list is written without the last line.
OnRecvCut(p) ==
  IF p.type \in Query
  THEN <<Begin(p.n)>> \o [i \in 1 .. p.lines - 1 |-> Line(p.n, i)] \o <<End(p.n, p.lines)>>
  ELSE << >>

\* Mutant of OnRecv: the list is written from its end.
OnRecvBackwards(p) ==
  IF p.type \in Query
  THEN <<Begin(p.n)>> \o [i \in 1 .. p.lines |-> Line(p.n, p.lines + 1 - i)] \o <<End(p.n, p.lines)>>
  ELSE << >>

OnRecv(p) ==
  IF p.type \in Query
  THEN <<Begin(p.n)>> \o [i \in 1 .. p.lines |-> Line(p.n, i)] \o <<End(p.n, p.lines)>>
  ELSE << >>

(* The next read starts when OnRecv has returned, see Written.             *)
HandleReadBody ==
  /\ Handles /\ reading \in {"body", "other"}
  /\ socket = "open" /\ down # << >>
  /\ id' = IF reading = "body" /\ Head(down).type = "MT_SET_ID" THEN sessionId ELSE id
  /\ elements' = IF reading = "body" THEN OnRecv(Head(down)) ELSE << >>
  /\ reading' = IF elements' = << >> THEN "header" ELSE "none"
  /\ down' = Tail(down)
  /\ UNCHANGED <<asyncVars, socket, writing, write_msgs, server, sessionId, up, answered>>

(* One element has been written into shared memory.                        *)
Written ==
  /\ elements' = Tail(elements)
  /\ reading' = IF elements' = << >> THEN "header" ELSE "none"
  /\ UNCHANGED <<asyncVars, socket, writing, write_msgs, id, serverVars>>

HandleReadFails ==
  /\ Handles /\ reading # "none"
  /\ Broken
  /\ socket' = "closed"
  /\ reading' = "none"
  /\ UNCHANGED <<asyncVars, writing, write_msgs, id, elements, serverVars>>

\* Mutant of DoWrite: a packet is put before the one being written.
DoWriteFront ==
  /\ Handles /\ posted # << >> /\ Head(posted) # Close
  /\ posted' = Tail(posted)
  /\ write_msgs' = <<Head(posted)>> \o write_msgs
  /\ writing' = TRUE
  /\ UNCHANGED <<run, connecting, endpoints, socket, reading, id, elements, serverVars>>

DoWrite ==
  /\ Handles /\ posted # << >> /\ Head(posted) # Close
  /\ posted' = Tail(posted)
  /\ write_msgs' = Append(write_msgs, Head(posted))
  /\ writing' = (writing \/ write_msgs = << >>)
  /\ UNCHANGED <<run, connecting, endpoints, socket, reading, id, elements, serverVars>>

DoClose ==
  /\ Handles /\ posted # << >> /\ Head(posted) = Close
  /\ posted' = Tail(posted)
  /\ socket' = "closed"
  /\ UNCHANGED <<run, connecting, endpoints, reading, writing, write_msgs, id, elements, serverVars>>

\* Mutants of HandleWrite: it goes on whether or not a packet waits, or only
\* if several do.
HandleWriteAlways ==
  /\ Handles /\ writing /\ socket = "open"
  /\ up' = Append(up, Head(write_msgs))
  /\ write_msgs' = Tail(write_msgs)
  /\ UNCHANGED <<asyncVars, socket, reading, writing, id, elements, server, sessionId,
                 answered, down>>

HandleWriteOnce ==
  /\ Handles /\ writing /\ socket = "open"
  /\ up' = Append(up, Head(write_msgs))
  /\ write_msgs' = Tail(write_msgs)
  /\ writing' = (Len(write_msgs) > 2)
  /\ UNCHANGED <<asyncVars, socket, reading, id, elements, server, sessionId,
                 answered, down>>

HandleWrite ==
  /\ Handles /\ writing /\ socket = "open"
  /\ up' = Append(up, Head(write_msgs))
  /\ write_msgs' = Tail(write_msgs)
  /\ writing' = (Len(write_msgs) > 1)
  /\ UNCHANGED <<asyncVars, socket, reading, id, elements, server, sessionId,
                 answered, down>>

(* The packet stays in the queue, so no later one starts a write again.  A *)
(* write that is too early for the connection may fail, and closes the     *)
(* socket under the connect.                                               *)
HandleWriteFails ==
  /\ Handles /\ writing
  /\ Broken
  /\ writing' = FALSE
  /\ socket' = "closed"
  /\ UNCHANGED <<asyncVars, reading, write_msgs, id, elements, serverVars>>

(* io_service::run returns when there is nothing to wait for.              *)
RunReturns ==
  /\ Handles
  /\ posted = << >> /\ ~connecting /\ ~writing /\ reading = "none"
  /\ run' = FALSE
  /\ UNCHANGED <<posted, connecting, endpoints, socketVars, id, elements, serverVars>>

-----------------------------------------------------------------------------
(* The server hangs up on a header it cannot read.  It answers a query it  *)
(* recognizes, and ends when the query carries no id it has given (Session *)
(* HandleReadHeader; GameServer, RecvGet).                                 *)
Answers(p) ==
  \/ /\ p.id = sessionId
     /\ \E k \in 0 .. MaxLines :
          down' = Append(down, [type |-> p.type, n |-> p.n, lines |-> k])
     /\ server' = server
  \/ p.id # sessionId /\ server' = "lost" /\ down' = down

ServerReads ==
  /\ server = "up"
  /\ answered < Len(up)
  /\ answered' = answered + 1
  /\ LET p == up[answered + 1]
     IN  \E h \in Decoded[p.type][p.id] :
           \/ ~Accepted(h) /\ server' = "lost" /\ down' = down
           \/ /\ Accepted(h)
              /\ p.type \notin Query \/ h.type # MsgNumber(p.type)
              /\ UNCHANGED <<server, down>>
           \/ Accepted(h) /\ p.type \in Query /\ h.type = MsgNumber(p.type) /\ Answers(p)
  /\ UNCHANGED <<asyncVars, socketVars, id, elements, sessionId, up>>

ServerLost ==
  /\ ServerMayFail
  /\ server = "up"
  /\ server' = "lost"
  /\ UNCHANGED <<asyncVars, socketVars, id, elements, sessionId, up, answered, down>>

-----------------------------------------------------------------------------
IoThread ==
  \/ HandleConnect
  \/ HandleConnectFails
  \/ HandleReadHeader
  \/ HandleReadBody
  \/ HandleReadFails
  \/ DoWrite
  \/ DoClose
  \/ HandleWrite
  \/ HandleWriteFails
  \/ RunReturns

Server == ServerReads \/ ServerLost
=============================================================================
