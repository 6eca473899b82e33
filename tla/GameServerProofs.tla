-------------------------- MODULE GameServerProofs --------------------------
(***************************************************************************)
(* Proofs about the server process: GameServer uses the connection layer   *)
(* as SessionServer describes it, so that everything proved of SessionSpec *)
(* holds of GameSpec, and GameTypeOK, QueryFailuresExplained,              *)
(* AnswersInOrder and, as long as no SQL statement fails,                  *)
(* OnlineFollowsLogins and GameFollowsRequests are invariants, for every   *)
(* value of the constants.                                                 *)
(***************************************************************************)
EXTENDS GameServer, SessionHistoryProofs

-----------------------------------------------------------------------------
(* GameServer implements SessionServer.                                    *)

\* What OnRecv and printGames raise is what SessionServer lets them raise.
LEMMA GameOutcomes ==
  /\ \A p : ReadOutcome(p) \in Outcome
  /\ getGamesListOutcome \in Outcome
  /\ getUsersListOutcome \in Outcome
  /\ printGamesOutcome \in {"running"} \cup OuterException
BY GameServerAssumption
DEF ReadOutcome, getGamesListOutcome, getUsersListOutcome, printGamesOutcome,
    numRowsOutcome, Outcome

\* RecvOther for some types is RecvOther for all.
LEMMA RecvOtherMore ==
  ASSUME NEW c \in Conn, NEW types \in SUBSET MsgType, NEW out, RecvOther(c, types, out)
  PROVE  RecvOther(c, MsgType, out)
BY DEF RecvOther, BodyArrives

\* A case of OnRecv is a HandleReadBody of SessionServer with some outcome.
LEMMA GameReadBodySession ==
  ASSUME NEW c \in Conn, GameReadBody(c)
  PROVE  HandleReadBody(c)
<1> DEFINE out == ReadOutcome(Incoming(c))
<1>1. out \in Outcome /\ "running" \in Outcome
  BY GameOutcomes DEF Outcome
<1>2. CASE RecvSetName(c) \/ RecvBeginGame(c) \/ RecvEndGame(c)
  <2>1. \E types \in SUBSET MsgType : RecvOther(c, types, out)
    BY <1>2 DEF RecvSetName, RecvBeginGame, RecvEndGame, MsgType
  <2>2. RecvOther(c, MsgType, out)
    BY <2>1, RecvOtherMore
  <2>3. QED
    BY <1>1, <2>2 DEF HandleReadBody
<1>3. CASE RecvLogout(c)
  BY <1>1, <1>3 DEF RecvLogout, HandleReadBody
<1>4. ASSUME NEW type \in Query, NEW listOutcome \in Outcome,
             RecvGet(c, type, listOutcome)
      PROVE  HandleReadBody(c)
  <2>1. CASE listOutcome = "running"
    <3>1. RecvQuery(c, {type})
      BY <1>4, <2>1 DEF RecvGet
    <3>2. RecvQuery(c, Query)
      BY <3>1 DEF RecvQuery, BodyArrives
    <3>3. QED
      BY <3>2 DEF HandleReadBody
  <2>2. CASE listOutcome # "running"
    <3>1. RecvOther(c, {type}, listOutcome) /\ {type} \in SUBSET MsgType
      BY <1>4, <2>2 DEF RecvGet, Query, MsgType
    <3>2. RecvOther(c, MsgType, listOutcome)
      BY <3>1, RecvOtherMore
    <3>3. QED
      BY <1>4, <3>2 DEF HandleReadBody
  <2>3. QED
    BY <2>1, <2>2
<1>5. CASE RecvRelay(c)
  BY <1>1, <1>5 DEF RecvRelay, HandleReadBody
<1>6. CASE RecvIgnored(c)
  <2>1. \E types \in SUBSET MsgType : \E o \in Outcome : RecvOther(c, types, o)
    BY <1>1, <1>6 DEF RecvIgnored, MsgType
  <2>2. \E o \in Outcome : RecvOther(c, MsgType, o)
    BY <2>1, RecvOtherMore
  <2>3. QED
    BY <2>2 DEF HandleReadBody
<1>7. CASE HandleReadBodyFails(c)
  BY <1>7 DEF HandleReadBody
<1>8. "MT_GET_GAMES" \in Query /\ "MT_GET_USERS" \in Query
  BY DEF Query
<1>9. QED
  BY <1>2, <1>3, <1>4, <1>5, <1>6, <1>7, <1>8, GameOutcomes DEF GameReadBody

\* Every step of the process is a step of the connection layer or a stutter.
LEMMA GameStepSession ==
  ASSUME [GameNext]_allVars
  PROVE  [SessionNext]_vars
<1>1. ASSUME NEW c \in Conn, GameReadBody(c)
      PROVE  SessionNext
  BY <1>1, GameReadBodySession DEF SessionNext
<1>2. CASE ConsoleGames
  <2>1. CASE printGamesOutcome = "running"
    BY <1>2, <2>1 DEF ConsoleGames, vars, Running
  <2>2. CASE printGamesOutcome \in OuterException
    <3>1. OtherThreadThrows
      BY <1>2, <2>2 DEF ConsoleGames, OtherThreadThrows
    <3>2. QED
      BY <3>1 DEF SessionNext
  <2>3. QED
    BY <2>1, <2>2, GameOutcomes
<1>3. CASE refreshData \/ UNCHANGED allVars
  BY <1>3 DEF refreshData, RefreshAllUsers, RefreshOnlineUsers, RefreshGames, allVars
<1>4. CASE RestartGame
  BY <1>4 DEF RestartGame, SessionNext
<1>5. QED
  BY <1>1, <1>2, <1>3, <1>4 DEF GameNext, SessionNext

\* The server process keeps to the connection layer's specification.
THEOREM GameImplementsSession == GameSpec => SessionSpec
<1>1. GameInit => SessionInit
  BY DEF GameInit
<1>2. [GameNext]_allVars => [SessionNext]_vars
  BY GameStepSession
<1>3. QED
  BY <1>1, <1>2, PTL DEF GameSpec, SessionSpec

\* With the real OnRecv, too, failures of Leave and Ucast are explained.
THEOREM GameFailuresAreExplained == GameSpec => []FailuresExplained
BY GameImplementsSession, FailuresAreExplained, PTL

-----------------------------------------------------------------------------
(* What requests carry, and the types of the tables.                       *)

\* The body of every packet a client has sent is the one its type has.
BodiesRight ==
  \A c \in Conn : \A k \in DOMAIN sent[c] :
    \E g \in GameIdx : sent[c][k].body = Payload(sent[c][k].type, Name[c], g)

\* Only clients add packets, with the bodies readDeamon makes.
LEMMA BodiesRightStep ==
  ASSUME SessionInv, BodiesRight, [SessionNext]_vars
  PROVE  BodiesRight'
<1>1. CASE UNCHANGED sent
  BY <1>1 DEF BodiesRight
<1>2. ASSUME NEW c \in Conn, NEW p \in ClientPacket(c), ClientSend(c, p)
      PROVE  BodiesRight'
  <2>1. /\ sent[c] \in Seq(Packet) /\ p \in Packet
        /\ sent'[c] = Append(sent[c], p)
        /\ \A d \in Conn \ {c} : sent'[d] = sent[d]
    BY <1>2, ClientPacketType DEF ClientSend, SessionInv, TypeOK
  <2>2. /\ Len(sent[c]) \in Nat /\ DOMAIN sent[c] = 1..Len(sent[c])
        /\ DOMAIN sent'[c] = 1..Len(sent[c]) + 1
        /\ \A k \in 1..Len(sent[c]) : sent'[c][k] = sent[c][k]
        /\ sent'[c][Len(sent[c]) + 1] = p
    BY <2>1, AppendProperties, LenProperties
  <2>3. \E g \in GameIdx : p.body = Payload(p.type, Name[c], g)
    BY DEF ClientPacket
  <2>4. ASSUME NEW k \in DOMAIN sent'[c]
        PROVE  \E g \in GameIdx : sent'[c][k].body = Payload(sent'[c][k].type, Name[c], g)
    <3>1. CASE k \in 1..Len(sent[c])
      <4>1. \E g \in GameIdx : sent[c][k].body = Payload(sent[c][k].type, Name[c], g)
        BY <2>2, <3>1 DEF BodiesRight
      <4>2. sent'[c][k] = sent[c][k]
        BY <2>2, <3>1
      <4>3. QED
        BY <4>1, <4>2, Zenon
    <3>2. CASE k = Len(sent[c]) + 1
      <4>1. sent'[c][k] = p
        BY <2>2, <3>2
      <4>2. QED
        BY <2>3, <4>1, Zenon
    <3>3. QED
      BY <2>2, <3>1, <3>2
  <2>5. ASSUME NEW d \in Conn, NEW k \in DOMAIN sent'[d]
        PROVE  \E g \in GameIdx : sent'[d][k].body = Payload(sent'[d][k].type, Name[d], g)
    <3>1. CASE d = c
      BY <2>4, <3>1, Zenon
    <3>2. CASE d # c
      <4>1. sent'[d] = sent[d]
        BY <2>1, <3>2
      <4>2. QED
        BY <2>5, <4>1, Zenon DEF BodiesRight
    <3>3. QED
      BY <3>1, <3>2
  <2>6. QED
    BY <2>5, Zenon DEF BodiesRight
<1>3. CASE Restart
  BY <1>3 DEF Restart, BodiesRight
<1>4. \/ UNCHANGED sent
      \/ Restart
      \/ \E c \in Conn : \E p \in ClientPacket(c) : ClientSend(c, p)
  BY DEF SessionNext, HandleAccept, HandleReadHeader, HandleReadHeaderFails,
         DropSession, HandleReadBody, HandleReadBodyFails, RecvBcast, RecvUcast,
         RecvDisconnect, RecvOther, RecvQuery, BodyHandled, HandleWrite,
         HandleWriteFails, Client, Connect, LearnId, ClientClose,
         HandleAcceptFails, Quit, OtherThreadThrows, vars, clientVars
<1>5. QED
  BY <1>1, <1>2, <1>3, <1>4

LEMMA BodiesStayRight == SessionSpec => []BodiesRight
<1>1. SessionInit => BodiesRight
  BY DEF SessionInit, BodiesRight
<1>2. SessionInv /\ BodiesRight /\ [SessionNext]_vars => BodiesRight'
  BY BodiesRightStep
<1>3. QED
  BY <1>1, <1>2, SessionInvInvariant, PTL DEF SessionSpec

\* So the handlers read the login of the client, and the number of a game.
LEMMA IncomingBody ==
  ASSUME SessionInv, BodiesRight, NEW c \in Conn, Unread(c)
  PROVE  /\ Incoming(c).type \in {"MT_SET_NAME", "MT_DISCONNECT", "MT_END_GAME"}
              => Incoming(c).body[1] = Name[c]
         /\ Incoming(c).type = "MT_BEGIN_GAME"
              => Incoming(c).body[2] = Name[c] /\ Incoming(c).body[1] \in Nat
<1>1. taken[c] + 1 \in DOMAIN sent[c]
  BY IncomingType, LenProperties DEF SessionInv, TypeOK, Unread
<1>2. PICK g \in GameIdx : Incoming(c).body = Payload(Incoming(c).type, Name[c], g)
  BY <1>1 DEF BodiesRight, Incoming
<1>3. g \in Nat
  BY GameIdxAssumption
<1>4. QED
  BY <1>2, <1>3 DEF Payload

-----------------------------------------------------------------------------
(* What a step of the process does to the requests read and to dbFile.     *)

Requests == {"MT_SET_NAME", "MT_DISCONNECT", "MT_BEGIN_GAME", "MT_END_GAME"}

\* The next packet of c is read, and, unless the process ends in this step,
\* done what it asks.
Handles(c) ==
  LET p == Incoming(c) IN
  /\ Running
  /\ Unread(c)
  /\ taken' = [taken EXCEPT ![c] = @ + 1] /\ UNCHANGED sent
  /\ p.type \notin Requests => UNCHANGED dbFile
  /\ p.type \in Requests =>
       \/ ~Running' /\ UNCHANGED dbFile
       \/ p.type = "MT_SET_NAME"   /\ loginUser(Name[c])
       \/ p.type = "MT_DISCONNECT" /\ logoutUser(Name[c])
       \/ p.type = "MT_BEGIN_GAME" /\ beginGame(Name[c], p.body[1])
       \/ p.type = "MT_END_GAME"   /\ endGame(Name[c])

\* No packet is read and the database is left alone.
Idles ==
  /\ UNCHANGED <<taken, dbFile>>
  /\ \A c \in Conn : \A k \in 1..taken[c] : sent'[c][k] = sent[c][k]
  /\ Running' => Running

\* A packet that is read is handled as its type says, or the read fails.
LEMMA GameReadBodyHandles ==
  ASSUME SessionInv, BodiesRight, NEW c \in Conn, GameReadBody(c)
  PROVE  Handles(c) \/ (HandleReadBodyFails(c) /\ UNCHANGED gameVars)
<1> DEFINE p == Incoming(c)
<1> SUFFICES ASSUME ~(HandleReadBodyFails(c) /\ UNCHANGED gameVars)
             PROVE  Handles(c)
  OBVIOUS
<1>1. /\ Running /\ phase[c] = "body" /\ BodyHandled(c)
      /\ \/ RecvSetName(c) /\ p.type = "MT_SET_NAME"
         \/ RecvBeginGame(c) /\ p.type = "MT_BEGIN_GAME"
         \/ RecvEndGame(c) /\ p.type = "MT_END_GAME"
         \/ RecvLogout(c) /\ p.type = "MT_DISCONNECT"
         \/ UNCHANGED gameVars /\ p.type \notin Requests
  BY DEF GameReadBody, RecvSetName, RecvBeginGame, RecvEndGame, RecvLogout,
         RecvGet, RecvRelay, RecvIgnored, RecvOther, RecvQuery, RecvDisconnect,
         RecvBcast, RecvUcast, BodyArrives, Requests
<1>2. /\ Running /\ Unread(c)
      /\ taken' = [taken EXCEPT ![c] = @ + 1] /\ UNCHANGED sent
  BY <1>1 DEF BodyHandled, SessionInv, Pending
<1>3. /\ p.type \in {"MT_SET_NAME", "MT_DISCONNECT", "MT_END_GAME"}
           => p.body[1] = Name[c]
      /\ p.type = "MT_BEGIN_GAME" => p.body[2] = Name[c]
  BY <1>2, IncomingBody
<1>4. CASE UNCHANGED gameVars /\ p.type \notin Requests
  BY <1>2, <1>4 DEF Handles, gameVars
<1>5. CASE RecvSetName(c) /\ p.type = "MT_SET_NAME"
  BY <1>2, <1>3, <1>5 DEF Handles, RecvSetName, Requests, Running
<1>6. CASE RecvBeginGame(c) /\ p.type = "MT_BEGIN_GAME"
  BY <1>2, <1>3, <1>6 DEF Handles, RecvBeginGame, Requests, Running
<1>7. CASE RecvEndGame(c) /\ p.type = "MT_END_GAME"
  BY <1>2, <1>3, <1>7 DEF Handles, RecvEndGame, Requests, Running
<1>8. CASE RecvLogout(c) /\ p.type = "MT_DISCONNECT"
  BY <1>2, <1>3, <1>8 DEF Handles, RecvLogout, Requests, Running
<1>9. QED
  BY <1>1, <1>4, <1>5, <1>6, <1>7, <1>8

\* Every step of the process handles a request, idles or is a new start.
LEMMA GameStepKinds ==
  ASSUME SessionInv, BodiesRight, [GameNext]_allVars
  PROVE  \/ \E c \in Conn : Handles(c)
         \/ Idles
         \/ Restart /\ Open
<1> USE DEF SessionInv
<1>1. ASSUME NEW c \in Conn, HandleReadBodyFails(c) /\ UNCHANGED gameVars
      PROVE  Idles
  <2>1. UNCHANGED <<taken, sent, dbFile>> /\ Running
    BY <1>1 DEF HandleReadBodyFails, DropSession, clientVars, gameVars
  <2>2. QED
    BY <2>1 DEF Idles
<1>2. ASSUME NEW c \in Conn, UNCHANGED gameVars,
             \/ HandleAccept(c) \/ HandleReadHeader(c) \/ HandleReadHeaderFails(c)
             \/ HandleWrite(c) \/ HandleWriteFails(c) \/ Client(c)
      PROVE  Idles
  <2>1. /\ UNCHANGED <<taken, dbFile>> /\ Running
        /\ \/ UNCHANGED sent
           \/ \E p \in ClientPacket(c) : sent' = [sent EXCEPT ![c] = Append(@, p)]
    BY <1>2 DEF HandleAccept, HandleReadHeader, HandleReadHeaderFails, DropSession,
                HandleWrite, HandleWriteFails, Client, Connect, LearnId, ClientSend,
                ClientClose, clientVars, gameVars
  <2>2. ASSUME NEW d \in Conn, NEW k \in 1..taken[d]
        PROVE  sent'[d][k] = sent[d][k]
    <3>1. sent[d] \in Seq(Packet) /\ k \in 1..Len(sent[d])
      BY DEF TypeOK
    <3>2. \/ sent'[d] = sent[d]
          \/ \E p \in Packet : sent'[d] = Append(sent[d], p)
      <4>1. ASSUME NEW p \in ClientPacket(c), sent' = [sent EXCEPT ![c] = Append(@, p)]
            PROVE  sent'[d] = sent[d] \/ (p \in Packet /\ sent'[d] = Append(sent[d], p))
        BY <4>1, ClientPacketType DEF TypeOK
      <4>2. QED
        BY <2>1, <4>1
    <3>3. QED
      BY <3>1, <3>2, AppendProperties
  <2>3. QED
    BY <2>1, <2>2 DEF Idles
<1>3. CASE \/ (HandleAcceptFails \/ Quit) /\ UNCHANGED gameVars
           \/ refreshData \/ ConsoleGames \/ UNCHANGED allVars
  <2>1. UNCHANGED <<taken, sent, dbFile>> /\ (Running' => Running)
    BY <1>3 DEF HandleAcceptFails, Quit, refreshData, RefreshAllUsers,
                RefreshOnlineUsers, RefreshGames, ConsoleGames, clientVars, vars,
                allVars, gameVars, Running
  <2>2. QED
    BY <2>1 DEF Idles
<1>4. CASE RestartGame
  BY <1>4 DEF RestartGame
<1>5. ASSUME NEW c \in Conn, GameReadBody(c)
      PROVE  Handles(c) \/ Idles
  BY <1>1, <1>5, GameReadBodyHandles DEF GameReadBody
<1>6. QED
  BY <1>2, <1>3, <1>4, <1>5 DEF GameNext

-----------------------------------------------------------------------------
(* GameTypeOK.                                                             *)

\* A statement sets the columns it names, or fails.
LEMMA DbFileType ==
  ASSUME GameTypeOK, NEW u, NEW g \in Nat,
         \/ loginUser(u) \/ logoutUser(u) \/ beginGame(u, g) \/ endGame(u)
         \/ Open \/ UNCHANGED dbFile
  PROVE  online' \in [User -> BOOLEAN] /\ current_game' \in [User -> Nat]
<1>1. online \in [User -> BOOLEAN] /\ current_game \in [User -> Nat]
  BY DEF GameTypeOK
<1>2. ASSUME NEW on \in [User -> BOOLEAN], NEW game \in [User -> Nat], execDML(on, game)
      PROVE  online' \in [User -> BOOLEAN] /\ current_game' \in [User -> Nat]
  BY <1>1, <1>2 DEF execDML, dbFile
<1>3. /\ [x \in User |-> x = u \/ online[x]] \in [User -> BOOLEAN]
      /\ [x \in User |-> x # u /\ online[x]] \in [User -> BOOLEAN]
      /\ [x \in User |-> FALSE /\ current_game[x] = 0] \in [User -> BOOLEAN]
  OBVIOUS
<1>4. /\ [x \in User |-> IF x = u THEN g ELSE current_game[x]] \in [User -> Nat]
      /\ [x \in User |-> IF x = u THEN 0 ELSE current_game[x]] \in [User -> Nat]
  BY <1>1
<1>5. QED
  BY <1>1, <1>2, <1>3, <1>4
  DEF loginUser, logoutUser, beginGame, endGame, Open, dbFile

\* The rows of a listing are made of users and games.
LEMMA OnlineRowsType == OnlineRows \subseteq Row
BY DEF OnlineRows, Row

\* Every step keeps the types of the tables.
LEMMA GameTypeStep ==
  ASSUME SessionInv, BodiesRight, GameTypeOK, [GameNext]_allVars
  PROVE  GameTypeOK'
<1>1. online' \in [User -> BOOLEAN] /\ current_game' \in [User -> Nat]
  <2>1. ASSUME NEW c \in Conn, Handles(c)
        PROVE  online' \in [User -> BOOLEAN] /\ current_game' \in [User -> Nat]
    <3>1. CASE Incoming(c).type = "MT_BEGIN_GAME" /\ beginGame(Name[c], Incoming(c).body[1])
      <4>1. Incoming(c).body[1] \in Nat
        BY <2>1, <3>1, IncomingBody DEF Handles
      <4>2. QED
        BY <3>1, <4>1, DbFileType
    <3>2. CASE loginUser(Name[c]) \/ logoutUser(Name[c]) \/ endGame(Name[c])
               \/ UNCHANGED dbFile
      <4>1. 0 \in Nat
        OBVIOUS
      <4>2. QED
        BY <3>2, <4>1, DbFileType
    <3>3. QED
      BY <2>1, <3>1, <3>2 DEF Handles
  <2>2. CASE Idles \/ Open
    <3>1. 0 \in Nat
      OBVIOUS
    <3>2. QED
      BY <2>2, <3>1, DbFileType DEF Idles, dbFile
  <2>3. QED
    BY <2>1, <2>2, GameStepKinds
<1>2. /\ usersTable' \in {Null, User}
      /\ onlineUsersTable' = Null \/ onlineUsersTable' \subseteq Row
      /\ gamesTable' \in {Null, Game}
      /\ refresher' \in {"fetchAllUsers", "fetchOnlineUsers", "fetchGames"}
  <2>1. CASE UNCHANGED <<tables, refresher>>
    BY <2>1 DEF tables, GameTypeOK
  <2>2. CASE refreshData
    BY <2>2, OnlineRowsType
    DEF refreshData, RefreshAllUsers, RefreshOnlineUsers, RefreshGames,
        fetchAllUsers, fetchOnlineUsers, fetchGames, GameTypeOK
  <2>3. CASE RestartGame
    BY <2>3 DEF RestartGame, Open, NoTables
  <2>4. UNCHANGED <<tables, refresher>> \/ refreshData \/ RestartGame
    BY DEF GameNext, GameReadBody, RecvSetName, RecvBeginGame, RecvEndGame,
           RecvLogout, RecvGet, RecvRelay, RecvIgnored, ConsoleGames, gameVars,
           allVars
  <2>5. QED
    BY <2>1, <2>2, <2>3, <2>4
<1>3. QED
  BY <1>1, <1>2 DEF GameTypeOK

\* What was proved of the connection layer, for the whole server.
LEMMA GameBodiesRight == GameSpec => [](SessionInv /\ BodiesRight)
BY GameImplementsSession, SessionInvInvariant, BodiesStayRight, PTL

\* Type correctness of the database and the tables.
THEOREM GameTypeCorrect == GameSpec => []GameTypeOK
<1>1. GameInit => GameTypeOK
  BY DBProviderAssumption DEF GameInit, DBInit, GameTypeOK
<1>2. SessionInv /\ BodiesRight /\ GameTypeOK /\ [GameNext]_allVars => GameTypeOK'
  BY GameTypeStep
<1>3. QED
  BY <1>1, <1>2, GameBodiesRight, PTL DEF GameSpec

-----------------------------------------------------------------------------
(* The last request of a client, and the columns online and current_game.  *)

\* What is the last packet of one of the types changes only when the server
\* reads such a packet: it then is this one.
LEMMA LastOfStep ==
  ASSUME SessionInv, NEW d \in Conn, NEW types,
         \A k \in 1..taken[d] : sent'[d][k] = sent[d][k]
  PROVE  /\ taken'[d] = taken[d]
              => \A k : LastOf(d, types, k)' <=> LastOf(d, types, k)
         /\ taken'[d] = taken[d] + 1 /\ sent'[d] = sent[d]
              => \A k : LastOf(d, types, k)' <=>
                          IF Incoming(d).type \in types THEN k = taken[d] + 1
                                                        ELSE LastOf(d, types, k)
<1>1. taken[d] \in Nat
  BY DEF SessionInv, TypeOK
<1>2. ASSUME taken'[d] = taken[d], NEW k
      PROVE  LastOf(d, types, k)' <=> LastOf(d, types, k)
  <2>1. \A j \in k + 1..taken[d] : k \in 1..taken[d] => j \in 1..taken[d]
    BY <1>1
  <2>2. QED
    BY <1>2, <2>1 DEF LastOf
<1>3. ASSUME taken'[d] = taken[d] + 1, sent'[d] = sent[d], NEW k
      PROVE  LastOf(d, types, k)' <=>
               IF Incoming(d).type \in types THEN k = taken[d] + 1
                                             ELSE LastOf(d, types, k)
  <2> DEFINE t == taken[d] + 1
  <2>1. /\ 1..t = 1..taken[d] \cup {t} /\ t \notin 1..taken[d]
        /\ \A j \in 1..taken[d] : j + 1..t = (j + 1..taken[d]) \cup {t}
        /\ t + 1..t = {}
    BY <1>1
  <2>2. Incoming(d) = sent[d][t]
    BY DEF Incoming
  <2>3. LastOf(d, types, k)' <=> /\ k \in 1..t
                                 /\ sent[d][k].type \in types
                                 /\ \A j \in k + 1..t : sent[d][j].type \notin types
    BY <1>3 DEF LastOf
  <2>4. CASE Incoming(d).type \in types
    BY <2>1, <2>2, <2>3, <2>4
  <2>5. CASE Incoming(d).type \notin types
    BY <2>1, <2>2, <2>3, <2>5 DEF LastOf
  <2>6. QED
    BY <2>4, <2>5
<1>4. QED
  BY <1>2, <1>3

\* When a request of c is handled, nobody else's last request changes.
LEMMA HandlesLastOf ==
  ASSUME SessionInv, NEW c \in Conn, Handles(c), NEW types
  PROVE  /\ \A d \in Conn \ {c} : \A k : LastOf(d, types, k)' <=> LastOf(d, types, k)
         /\ \A k : LastOf(c, types, k)' <=>
                     IF Incoming(c).type \in types THEN k = taken[c] + 1
                                                   ELSE LastOf(c, types, k)
<1>1. /\ taken'[c] = taken[c] + 1 /\ sent' = sent
      /\ \A d \in Conn \ {c} : taken'[d] = taken[d]
  BY DEF Handles, SessionInv, TypeOK
<1>2. QED
  BY <1>1, LastOfStep

\* A client is logged in from its MT_SET_NAME to its MT_DISCONNECT.
LEMMA HandlesLoggedIn ==
  ASSUME SessionInv, NEW c \in Conn, Handles(c)
  PROVE  /\ \A d \in Conn \ {c} : LoggedIn(d)' <=> LoggedIn(d)
         /\ Incoming(c).type = "MT_SET_NAME" => LoggedIn(c)'
         /\ Incoming(c).type = "MT_DISCONNECT" => ~LoggedIn(c)'
         /\ Incoming(c).type \notin {"MT_SET_NAME", "MT_DISCONNECT"}
              => (LoggedIn(c)' <=> LoggedIn(c))
<1> DEFINE types == {"MT_SET_NAME", "MT_DISCONNECT"}
<1>1. /\ \A d \in Conn \ {c} : \A k : LastOf(d, types, k)' <=> LastOf(d, types, k)
      /\ \A k : LastOf(c, types, k)' <=>
                  IF Incoming(c).type \in types THEN k = taken[c] + 1
                                                ELSE LastOf(c, types, k)
  BY HandlesLastOf
<1>2. /\ taken'[c] = taken[c] + 1 /\ taken[c] \in Nat /\ sent' = sent
      /\ Incoming(c) = sent[c][taken[c] + 1]
  BY DEF Handles, SessionInv, TypeOK, Incoming
<1>3. taken[c] + 1 \in 1..taken'[c]
  BY <1>2
<1>4. \A d \in Conn : /\ LoggedIn(d) <=>
                            \E k : LastOf(d, types, k) /\ sent[d][k].type = "MT_SET_NAME"
                      /\ LoggedIn(d)' <=>
                            \E k : LastOf(d, types, k)' /\ sent[d][k].type = "MT_SET_NAME"
  BY <1>2 DEF LoggedIn, LastOf
<1>5. QED
  BY <1>1, <1>2, <1>4

\* A step that idles changes no client's last request.
LEMMA IdlesLastOf ==
  ASSUME SessionInv, Idles, NEW d \in Conn
  PROVE  /\ \A types : \A k : LastOf(d, types, k)' <=> LastOf(d, types, k)
         /\ LoggedIn(d)' <=> LoggedIn(d)
<1>1. taken'[d] = taken[d] /\ \A k \in 1..taken[d] : sent'[d][k] = sent[d][k]
  BY DEF Idles
<1>2. \A types : \A k : LastOf(d, types, k)' <=> LastOf(d, types, k)
  BY <1>1, LastOfStep
<1>3. LoggedIn(d)' <=> LoggedIn(d)
  BY <1>1, <1>2 DEF LoggedIn
<1>4. QED
  BY <1>2, <1>3

\* A login or logout is the last one of its client once it has been read.
LEMMA OnlineStep ==
  ASSUME ~SqlMayFail, SessionInv, BodiesRight, OnlineFollowsLogins,
         [GameNext]_allVars
  PROVE  OnlineFollowsLogins'
<1> SUFFICES ASSUME Running', NEW u \in User
             PROVE  /\ online'[u] => \E c \in Of(u) : LoggedIn(c)'
                    /\ Of(u) # {} /\ (\A c \in Of(u) : LoggedIn(c)') => online'[u]
  BY DEF OnlineFollowsLogins, Of
<1>1. Of(u) \subseteq Conn /\ \A c \in Conn : c \in Of(u) <=> Name[c] = u
  BY DEF Of
<1>2. ASSUME Running
      PROVE  /\ online[u] => \E c \in Of(u) : LoggedIn(c)
             /\ Of(u) # {} /\ (\A c \in Of(u) : LoggedIn(c)) => online[u]
  BY <1>2 DEF OnlineFollowsLogins
<1>3. CASE Idles
  <2>1. online' = online /\ Running
    BY <1>3 DEF Idles, dbFile
  <2>2. \A c \in Of(u) : LoggedIn(c)' <=> LoggedIn(c)
    BY <1>1, <1>3, IdlesLastOf
  <2>3. QED
    BY <1>2, <2>1, <2>2
<1>4. ASSUME NEW c \in Conn, Handles(c)
      PROVE  /\ online'[u] => \E d \in Of(u) : LoggedIn(d)'
             /\ Of(u) # {} /\ (\A d \in Of(u) : LoggedIn(d)') => online'[u]
  <2> DEFINE t == Incoming(c).type
  <2>1. /\ \A d \in Conn \ {c} : LoggedIn(d)' <=> LoggedIn(d)
        /\ t = "MT_SET_NAME" => LoggedIn(c)'
        /\ t = "MT_DISCONNECT" => ~LoggedIn(c)'
        /\ t \notin {"MT_SET_NAME", "MT_DISCONNECT"} => (LoggedIn(c)' <=> LoggedIn(c))
    BY <1>4, HandlesLoggedIn
  <2>2. /\ t = "MT_SET_NAME" => online'[u] = (u = Name[c] \/ online[u])
        /\ t = "MT_DISCONNECT" => online'[u] = (u # Name[c] /\ online[u])
        /\ t \notin {"MT_SET_NAME", "MT_DISCONNECT"} => online' = online
    BY <1>4 DEF Handles, Requests, loginUser, logoutUser, beginGame, endGame,
                execDML, dbFile
  <2>3. Running
    BY <1>4 DEF Handles
  <2>4. CASE t = "MT_SET_NAME"
    BY <1>1, <1>2, <2>1, <2>2, <2>3, <2>4
  <2>5. CASE t = "MT_DISCONNECT"
    BY <1>1, <1>2, <2>1, <2>2, <2>3, <2>5
  <2>6. CASE t \notin {"MT_SET_NAME", "MT_DISCONNECT"}
    <3>1. \A d \in Of(u) : LoggedIn(d)' <=> LoggedIn(d)
      BY <1>1, <2>1, <2>6
    <3>2. QED
      BY <1>2, <2>2, <2>3, <2>6, <3>1
  <2>7. QED
    BY <2>4, <2>5, <2>6
<1>5. CASE Restart /\ Open
  <2>1. online' = [x \in User |-> FALSE]
    BY <1>5 DEF Open, execDML
  <2>2. \A c \in Conn : ~LoggedIn(c)'
    <3>1. \A c \in Conn : taken'[c] = 0
      BY <1>5 DEF Restart
    <3>2. QED
      BY <3>1 DEF LoggedIn
  <2>3. QED
    BY <1>1, <2>1, <2>2
<1>6. QED
  BY <1>3, <1>4, <1>5, GameStepKinds

\* As long as no statement fails, a user is online only if a client of his has
\* logged in and not out, and surely if all of them have.
THEOREM OnlineStaysRight ==
  ASSUME ~SqlMayFail
  PROVE  GameSpec => []OnlineFollowsLogins
<1>1. GameInit => OnlineFollowsLogins
  <2> SUFFICES ASSUME GameInit PROVE OnlineFollowsLogins
    OBVIOUS
  <2>1. online = [x \in User |-> FALSE] /\ \A c \in Conn : taken[c] = 0
    BY DEF GameInit, DBInit, SessionInit
  <2>2. \A c \in Conn : ~LoggedIn(c)
    BY <2>1 DEF LoggedIn
  <2>3. QED
    BY <2>1, <2>2 DEF OnlineFollowsLogins, Of
<1>2. SessionInv /\ BodiesRight /\ OnlineFollowsLogins /\ [GameNext]_allVars
        => OnlineFollowsLogins'
  BY OnlineStep
<1>3. QED
  BY <1>1, <1>2, GameBodiesRight, PTL DEF GameSpec

\* So is a request that begins or ends a game.
LEMMA GamesStep ==
  ASSUME ~SqlMayFail, SessionInv, BodiesRight, GameTypeOK, GameFollowsRequests,
         [GameNext]_allVars
  PROVE  GameFollowsRequests'
<1> DEFINE types == {"MT_BEGIN_GAME", "MT_END_GAME"}
           Game0(c, k) == IF sent[c][k].type = "MT_END_GAME" THEN 0
                          ELSE sent[c][k].body[1]
<1> SUFFICES ASSUME Running', NEW u \in User, NEW c \in Of(u), NEW k \in 1..taken'[c],
                    Of(u) = {c}, LastOf(c, types, k)'
             PROVE  current_game'[u] = Game0(c, k)'
  BY DEF GameFollowsRequests, Of
<1>1. c \in Conn /\ Name[c] = u /\ \A d \in Conn \ {c} : Name[d] # u
  BY DEF Of
<1>2. ASSUME Running, LastOf(c, types, k)
      PROVE  current_game[u] = Game0(c, k)
  BY <1>2 DEF GameFollowsRequests, LastOf
<1>3. taken[c] \in Nat /\ current_game \in [User -> Nat]
  BY <1>1 DEF SessionInv, TypeOK, GameTypeOK
<1>4. CASE Idles
  <2>1. LastOf(c, types, k) /\ Running /\ current_game' = current_game
    BY <1>1, <1>4, IdlesLastOf DEF Idles, dbFile
  <2>2. k \in 1..taken[c] /\ sent'[c][k] = sent[c][k]
    BY <1>1, <1>4, <2>1 DEF Idles, LastOf
  <2>3. QED
    BY <1>2, <2>1, <2>2
<1>5. ASSUME NEW d \in Conn \ {c}, Handles(d)
      PROVE  current_game'[u] = Game0(c, k)'
  <2>1. LastOf(c, types, k) /\ Running /\ sent' = sent
    BY <1>1, <1>5, HandlesLastOf DEF Handles
  <2>2. current_game'[u] = current_game[u]
    BY <1>1, <1>3, <1>5
    DEF Handles, loginUser, logoutUser, beginGame, endGame, execDML, dbFile
  <2>3. QED
    BY <1>2, <2>1, <2>2
<1>6. CASE Handles(c)
  <2> DEFINE t == Incoming(c).type
  <2>1. /\ IF t \in types THEN k = taken[c] + 1 ELSE LastOf(c, types, k)
        /\ Running /\ sent' = sent /\ Incoming(c) = sent[c][taken[c] + 1]
    BY <1>1, <1>6, HandlesLastOf DEF Handles, Incoming
  <2>2. CASE t \in types
    <3>1. current_game'[u] = IF t = "MT_END_GAME" THEN 0 ELSE Incoming(c).body[1]
      BY <1>1, <1>3, <1>6, <2>2
      DEF Handles, Requests, beginGame, endGame, execDML, dbFile
    <3>2. QED
      BY <2>1, <2>2, <3>1
  <2>3. CASE t \notin types
    <3>1. current_game' = current_game
      BY <1>6, <2>3 DEF Handles, loginUser, logoutUser, execDML, dbFile
    <3>2. QED
      BY <1>2, <2>1, <2>3, <3>1
  <2>4. QED
    BY <2>2, <2>3
<1>7. CASE Restart
  <2>1. taken'[c] = 0
    BY <1>1, <1>7 DEF Restart
  <2>2. QED
    BY <2>1
<1>8. QED
  BY <1>4, <1>5, <1>6, <1>7, GameStepKinds

\* As long as no statement fails, the game of a user with one connection is
\* the one he last asked for.
THEOREM GamesStayRight ==
  ASSUME ~SqlMayFail
  PROVE  GameSpec => []GameFollowsRequests
<1>1. GameInit => GameFollowsRequests
  <2> SUFFICES ASSUME GameInit PROVE GameFollowsRequests
    OBVIOUS
  <2>1. \A c \in Conn : taken[c] = 0
    BY DEF GameInit, SessionInit
  <2>2. QED
    BY <2>1 DEF GameFollowsRequests, Of
<1>2. SessionInv /\ BodiesRight /\ GameTypeOK /\ GameFollowsRequests
        /\ [GameNext]_allVars => GameFollowsRequests'
  BY GamesStep
<1>3. QED
  BY <1>1, <1>2, GameBodiesRight, GameTypeCorrect, PTL DEF GameSpec

-----------------------------------------------------------------------------
(* QueryFailuresExplained.                                                 *)

SomeLogin == (\E c \in Conn : HasRead(c, {"MT_SET_NAME"})) \/ SqlMayFail

\* Whoever is online, or listed as online, has logged in; and the refresher
\* lists the online users before it lists the games.
QueryInv ==
  /\ QueryFailuresExplained
  /\ (\E u \in User : online[u]) => SomeLogin
  /\ onlineUsersTable \notin {Null, {}} => SomeLogin
  /\ onlineUsersTable = Null => gamesTable = Null \/ SqlMayFail
  /\ refresher = "fetchGames" => onlineUsersTable # Null \/ SqlMayFail

\* What the exceptions of a query say of the tables.
LEMMA QueryOutcomes ==
  ASSUME [GameNext]_allVars, server' # server, server' \in {"NullName", "NullResults"}
  PROVE  /\ Running /\ UNCHANGED <<tables, refresher>>
         /\ server' = "NullName" => onlineUsersTable \notin {Null, {}}
         /\ server' = "NullResults" => Null \in {onlineUsersTable, gamesTable}
<1>1. /\ getUsersListOutcome = "NullName" => onlineUsersTable \notin {Null, {}}
      /\ getUsersListOutcome = "NullResults" => onlineUsersTable = Null
      /\ getGamesListOutcome = "NullResults" => gamesTable = Null
      /\ printGamesOutcome = "NullResults" => gamesTable = Null
      /\ getGamesListOutcome # "NullName" /\ printGamesOutcome # "NullName"
      /\ \A p : ReadOutcome(p) \notin {"NullName", "NullResults"}
  BY DEF getUsersListOutcome, getGamesListOutcome, printGamesOutcome,
         numRowsOutcome, ReadOutcome
<1>2. ASSUME NEW c \in Conn, GameReadBody(c)
      PROVE  /\ Running /\ UNCHANGED <<tables, refresher>>
             /\ server' \in {getUsersListOutcome, getGamesListOutcome}
  <2>1. CASE \/ RecvSetName(c) \/ RecvBeginGame(c) \/ RecvEndGame(c) \/ RecvLogout(c)
             \/ RecvRelay(c) \/ RecvIgnored(c)
    BY <1>1, <2>1
    DEF RecvSetName, RecvBeginGame, RecvEndGame, RecvLogout, RecvRelay, RecvIgnored,
        RecvOther, RecvDisconnect, RecvBcast, RecvUcast, LeaveOutcome, UcastOutcome
  <2>2. CASE HandleReadBodyFails(c)
    BY <2>2 DEF HandleReadBodyFails, DropSession, LeaveOutcome
  <2>3. ASSUME NEW type, NEW out, RecvGet(c, type, out)
        PROVE  Running /\ UNCHANGED <<tables, refresher>> /\ server' = out
    BY <2>3 DEF RecvGet, RecvOther, RecvQuery, BodyArrives, UcastOutcome, gameVars
  <2>4. QED
    BY <1>2, <2>1, <2>2, <2>3 DEF GameReadBody
<1>3. CASE ConsoleGames
  BY <1>1, <1>3 DEF ConsoleGames, gameVars
<1>4. ASSUME NEW c \in Conn,
             \/ HandleAccept(c) \/ HandleReadHeader(c) \/ HandleReadHeaderFails(c)
             \/ HandleWrite(c) \/ HandleWriteFails(c) \/ Client(c)
      PROVE  FALSE
  BY <1>4 DEF HandleAccept, HandleReadHeader, HandleReadHeaderFails, DropSession,
              LeaveOutcome, HandleWrite, HandleWriteFails, Client, Connect, LearnId,
              ClientSend, ClientClose
<1>5. CASE \/ (HandleAcceptFails \/ Quit) /\ UNCHANGED gameVars
           \/ refreshData \/ RestartGame \/ UNCHANGED allVars
  BY <1>5 DEF HandleAcceptFails, Quit, refreshData, RefreshAllUsers,
              RefreshOnlineUsers, RefreshGames, RestartGame, Restart, allVars, vars
<1>6. QED
  BY <1>1, <1>2, <1>3, <1>4, <1>5 DEF GameNext

\* A login that has been handled stays handled until the next start.
LEMMA SomeLoginStep ==
  ASSUME SessionInv, SomeLogin, [GameNext]_allVars, ~Restart
  PROVE  SomeLogin'
BY GameStepSession, Remembered DEF SomeLogin

\* The handled requests put nobody online but by a login.
LEMMA OnlineCause ==
  ASSUME SessionInv, BodiesRight, GameTypeOK, QueryInv, [GameNext]_allVars, ~Restart,
         NEW u \in User, online'[u]
  PROVE  SomeLogin'
<1>1. CASE online[u]
  BY <1>1, SomeLoginStep DEF QueryInv
<1>2. ASSUME NEW c \in Conn, Handles(c), ~online[u]
      PROVE  SomeLogin'
  <2>1. Incoming(c).type = "MT_SET_NAME"
    BY <1>2 DEF Handles, Requests, loginUser, logoutUser, beginGame, endGame,
                execDML, dbFile
  <2>2. /\ taken[c] \in Nat /\ taken'[c] = taken[c] + 1
        /\ sent'[c][taken[c] + 1] = Incoming(c)
    BY <1>2 DEF Handles, SessionInv, TypeOK, Incoming
  <2>3. taken[c] + 1 \in 1..taken'[c]
    BY <2>2
  <2>4. HasRead(c, {"MT_SET_NAME"})'
    BY <2>1, <2>2, <2>3 DEF HasRead
  <2>5. QED
    BY <2>4 DEF SomeLogin
<1>3. CASE Idles
  BY <1>1, <1>3 DEF Idles, dbFile
<1>4. QED
  BY <1>1, <1>2, <1>3, GameStepKinds

\* What explains the exception of a query is there before the query.
LEMMA QueryInvStep ==
  ASSUME SessionInv, BodiesRight, GameTypeOK, QueryInv, [GameNext]_allVars
  PROVE  QueryInv'
<1>1. CASE RestartGame
  <2>1. /\ server' = "running" /\ refresher' = "fetchAllUsers"
        /\ onlineUsersTable' = Null /\ gamesTable' = Null
        /\ SqlMayFail \/ online' = [x \in User |-> FALSE]
    BY <1>1 DEF RestartGame, Restart, Open, NoTables, execDML
  <2>2. (\E u \in User : online'[u]) => SqlMayFail
    BY <2>1
  <2>3. QED
    BY <2>1, <2>2 DEF QueryInv, QueryFailuresExplained, SomeLogin
<1>2. CASE ~RestartGame
  <2>1. ~Restart
    BY <1>2 DEF GameNext, GameReadBody, RecvSetName, RecvBeginGame, RecvEndGame,
                RecvLogout, RecvGet, RecvRelay, RecvIgnored, RecvOther, RecvQuery,
                RecvDisconnect, RecvBcast, RecvUcast, BodyArrives,
                HandleReadBodyFails, HandleAccept, HandleReadHeader,
                HandleReadHeaderFails, HandleWrite, HandleWriteFails, Client,
                Connect, LearnId, ClientSend, ClientClose, HandleAcceptFails, Quit,
                refreshData, RefreshAllUsers, RefreshOnlineUsers, RefreshGames,
                ConsoleGames, Restart, Running, allVars, vars
  <2>2. (\E u \in User : online'[u]) => SomeLogin'
    BY <2>1, OnlineCause
  <2>3. SomeLogin => SomeLogin'
    BY <2>1, SomeLoginStep
  <2>4. \/ UNCHANGED <<tables, refresher>>
        \/ refreshData
    BY <1>2 DEF GameNext, GameReadBody, RecvSetName, RecvBeginGame, RecvEndGame,
                RecvLogout, RecvGet, RecvRelay, RecvIgnored, ConsoleGames, gameVars,
                allVars
  <2>5. /\ onlineUsersTable' \notin {Null, {}} => SomeLogin'
        /\ onlineUsersTable' = Null => gamesTable' = Null \/ SqlMayFail
        /\ refresher' = "fetchGames" => onlineUsersTable' # Null \/ SqlMayFail
    <3>1. CASE UNCHANGED <<tables, refresher>>
      BY <2>3, <3>1 DEF QueryInv, tables
    <3>2. CASE RefreshAllUsers \/ RefreshGames
      BY <2>3, <3>2 DEF QueryInv, RefreshAllUsers, RefreshGames, fetchAllUsers, fetchGames
    <3>3. CASE RefreshOnlineUsers
      <4>1. OnlineRows # Null
        BY OnlineRowsType, DBProviderAssumption DEF Row
      <4>2. OnlineRows # {} => SomeLogin
        BY DEF OnlineRows, QueryInv
      <4>3. QED
        BY <2>3, <3>3, <4>1, <4>2 DEF QueryInv, RefreshOnlineUsers, fetchOnlineUsers
    <3>4. QED
      BY <2>4, <3>1, <3>2, <3>3 DEF refreshData
  <2>6. QueryFailuresExplained'
    <3>1. CASE server' = server
      <4>1. server = "NullName" => SomeLogin'
        BY <2>3 DEF QueryInv, QueryFailuresExplained, SomeLogin
      <4>2. server = "NullResults" => gamesTable' = gamesTable
        BY <2>4 DEF tables, refreshData, RefreshAllUsers, RefreshOnlineUsers,
                    RefreshGames, Running
      <4>3. QED
        BY <3>1, <4>1, <4>2 DEF QueryInv, QueryFailuresExplained, SomeLogin
    <3>2. CASE server' # server /\ server' \in {"NullName", "NullResults"}
      BY <2>3, <3>2, QueryOutcomes DEF QueryInv, QueryFailuresExplained, SomeLogin, tables
    <3>3. QED
      BY <3>1, <3>2 DEF QueryFailuresExplained
  <2>7. QED
    BY <2>2, <2>5, <2>6 DEF QueryInv
<1>3. QED
  BY <1>1, <1>2

\* A query can end the process only in the two ways that are explained.
THEOREM QueryFailuresAreExplained == GameSpec => []QueryFailuresExplained
<1>1. GameInit => QueryInv
  <2> SUFFICES ASSUME GameInit PROVE QueryInv
    OBVIOUS
  <2>1. /\ server = "running" /\ refresher = "fetchAllUsers"
        /\ onlineUsersTable = Null /\ gamesTable = Null
        /\ SqlMayFail \/ online = [x \in User |-> FALSE]
    BY DEF GameInit, SessionInit, DBInit
  <2>2. (\E u \in User : online[u]) => SqlMayFail
    BY <2>1
  <2>3. QED
    BY <2>1, <2>2 DEF QueryInv, QueryFailuresExplained, SomeLogin
<1>2. SessionInv /\ BodiesRight /\ GameTypeOK /\ QueryInv /\ [GameNext]_allVars
        => QueryInv'
  BY QueryInvStep
<1>3. QueryInv => QueryFailuresExplained
  BY DEF QueryInv
<1>4. QED
  BY <1>1, <1>2, <1>3, GameBodiesRight, GameTypeCorrect, PTL DEF GameSpec

-----------------------------------------------------------------------------
(* AnswersInOrder.                                                         *)

\* f says which query each answer given to c answers.
Matches(c, f) ==
  /\ f \in [Answered(c) -> Asked(c)]
  /\ \A k \in Answered(c) : Outbox(c)[k].type = sent[c][f[k]].type
  /\ \A k, l \in Answered(c) : k < l => f[k] < f[l]
  /\ \A i \in Asked(c) : \E k \in Answered(c) : f[k] = i

\* A query is handled, with the process going on, only by an answer to the
\* session its sender names, which is in the map.
LEMMA QueryHandled ==
  ASSUME SessionInv, [GameNext]_allVars, Running', ~Restart, NEW c \in Conn,
         taken'[c] # taken[c], Incoming(c).type \in Query
  PROVE  RecvQuery(c, Query) /\ Incoming(c).senderId \in DOMAIN sessions
<1>1. ASSUME NEW d \in Conn, GameReadBody(d)
      PROVE  RecvQuery(c, Query) /\ Incoming(c).senderId \in DOMAIN sessions
  <2>1. c = d
    BY <1>1
    DEF GameReadBody, RecvSetName, RecvBeginGame, RecvEndGame, RecvLogout, RecvGet,
        RecvRelay, RecvIgnored, RecvOther, RecvQuery, RecvDisconnect, RecvBcast,
        RecvUcast, BodyHandled, HandleReadBodyFails, DropSession, clientVars,
        SessionInv, TypeOK
  <2>2. \E type, out : RecvGet(c, type, out)
    BY <1>1, <2>1
    DEF GameReadBody, RecvSetName, RecvBeginGame, RecvEndGame, RecvLogout, RecvRelay,
        RecvIgnored, RecvOther, RecvDisconnect, RecvBcast, RecvUcast, BodyArrives,
        Query, HandleReadBodyFails, DropSession, clientVars
  <2>3. RecvQuery(c, Query)
    BY <2>2 DEF RecvGet, RecvOther, RecvQuery, BodyArrives, Running
  <2>4. Incoming(c).senderId \in DOMAIN sessions
    BY <2>3 DEF RecvQuery, UcastOutcome, Running
  <2>5. QED
    BY <2>3, <2>4
<1>2. ASSUME NEW d \in Conn,
             \/ HandleAccept(d) \/ HandleReadHeader(d) \/ HandleReadHeaderFails(d)
             \/ HandleWrite(d) \/ HandleWriteFails(d) \/ Client(d)
      PROVE  FALSE
  BY <1>2 DEF HandleAccept, HandleReadHeader, HandleReadHeaderFails, DropSession,
              HandleWrite, HandleWriteFails, Client, Connect, LearnId, ClientSend,
              ClientClose, clientVars
<1>3. CASE \/ HandleAcceptFails \/ Quit \/ refreshData \/ ConsoleGames
           \/ RestartGame \/ UNCHANGED allVars
  BY <1>3 DEF HandleAcceptFails, Quit, refreshData, RefreshAllUsers,
              RefreshOnlineUsers, RefreshGames, ConsoleGames, RestartGame,
              clientVars, vars, allVars
<1>4. QED
  BY <1>1, <1>2, <1>3 DEF GameNext

\* The session a query names as its sender, if it is in the map, is its own.
LEMMA QuerySender ==
  ASSUME SessionInv, IdInv, NEW c \in Started, Unread(c),
         Incoming(c).senderId \in DOMAIN sessions
  PROVE  {d \in Members : id[d] = Incoming(c).senderId} = {c}
<1>1. taken[c] + 1 \in DOMAIN sent[c] /\ c \in Conn
  BY IncomingType, LenProperties DEF SessionInv, TypeOK, Unread, Started
<1>2. Incoming(c).senderId \in {0, id[c]}
  BY <1>1 DEF IdInv, SendersKnown, Incoming
<1>3. DOMAIN sessions \subseteq 1..lastId
  BY DEF SessionInv, TypeOK
<1>4. Incoming(c).senderId = id[c]
  BY <1>2, <1>3
<1>5. c \in Members
  BY <1>4, MemberIds
<1>6. \A d \in Members : d \in Started
  BY DEF SessionInv, Seated
<1>7. QED
  BY <1>4, <1>5, <1>6 DEF SessionInv, MapConsistent

\* How the places of the answers change ...
LEMMA AnsweredStep ==
  ASSUME SessionInv, NEW S, NEW p \in Packet, Given(S, p), NEW d \in Conn
  PROVE  /\ \A k \in Answered(d) : Outbox(d)'[k] = Outbox(d)[k]
         /\ d \notin S \/ p.type \notin Query => Answered(d)' = Answered(d)
         /\ d \in S /\ p.type \in Query
              => \E n \in Nat : /\ \A k \in Answered(d) : k \in Nat /\ k <= n
                                /\ Answered(d)' = Answered(d) \cup {n + 1}
                                /\ Outbox(d)'[n + 1] = p
<1>1. PICK n \in Nat :
         /\ DOMAIN Outbox(d) = 1..n
         /\ d \in S => /\ DOMAIN Outbox(d)' = 1..n + 1
                       /\ Outbox(d)'[n + 1] = p
                       /\ \A k \in 1..n : Outbox(d)'[k] = Outbox(d)[k]
  BY GivenOutbox DEF SessionInv
<1>2. d \notin S => Outbox(d)' = Outbox(d)
  BY DEF Given
<1>3. /\ Answered(d) = {k \in 1..n : Outbox(d)[k].type \in Query}
      /\ Answered(d)' = {k \in DOMAIN Outbox(d)' : Outbox(d)'[k].type \in Query}
  BY <1>1 DEF Answered
<1>4. 1..n + 1 = 1..n \cup {n + 1} /\ \A k \in 1..n : k \in Nat /\ k <= n
  OBVIOUS
<1>5. CASE d \notin S
  BY <1>1, <1>2, <1>3, <1>5
<1>6. CASE d \in S
  BY <1>1, <1>3, <1>4, <1>6
<1>7. QED
  BY <1>5, <1>6

\* ... and those of the queries.
LEMMA AskedStep ==
  ASSUME SessionInv, NEW c \in Conn, taken'[c] = taken[c] + 1, UNCHANGED sent
  PROVE  Asked(c)' = IF Incoming(c).type \in Query THEN Asked(c) \cup {taken[c] + 1}
                                                   ELSE Asked(c)
<1>1. taken[c] \in Nat
  BY DEF SessionInv, TypeOK
<1>2. 1..taken'[c] = 1..taken[c] \cup {taken[c] + 1}
  BY <1>1
<1>3. QED
  BY <1>2 DEF Asked, Incoming

\* Nothing changes for c.
LEMMA MatchKept ==
  ASSUME NEW c, NEW f, Matches(c, f),
         Answered(c)' = Answered(c), Asked(c)' = Asked(c),
         \A k \in Answered(c) : Outbox(c)'[k] = Outbox(c)[k],
         \A i \in Asked(c) : sent'[c][i] = sent[c][i]
  PROVE  Matches(c, f)'
<1>1. \A k \in Answered(c) : f[k] \in Asked(c)
  BY DEF Matches
<1>2. QED
  BY <1>1 DEF Matches

\* The answer that has just been given answers the query just read.
LEMMA LastAnswered ==
  ASSUME SessionInv, NEW c \in Conn, NEW f, Matches(c, f), NEW n \in Nat,
         \A k \in Answered(c) : k \in Nat /\ k <= n,
         Answered(c)' = Answered(c) \cup {n + 1},
         Asked(c)' = Asked(c) \cup {taken[c] + 1},
         \A k \in Answered(c) : Outbox(c)'[k] = Outbox(c)[k],
         UNCHANGED sent,
         Outbox(c)'[n + 1].type = sent[c][taken[c] + 1].type
  PROVE  \E g : Matches(c, g)'
<1> DEFINE A == Answered(c)
<1>t. PICK t : t = taken[c] + 1
  OBVIOUS
<1>g. PICK g : g = [k \in A \cup {n + 1} |-> IF k = n + 1 THEN t ELSE f[k]]
  OBVIOUS
<1>1. /\ f \in [A -> Asked(c)]
      /\ \A k \in A : Outbox(c)[k].type = sent[c][f[k]].type
      /\ \A k, l \in A : k < l => f[k] < f[l]
      /\ \A i \in Asked(c) : \E k \in A : f[k] = i
  BY DEF Matches
<1>2. \A i \in Asked(c) : i \in Nat /\ i < t
  <2>1. taken[c] \in Nat
    BY DEF SessionInv, TypeOK
  <2>2. \A i \in 1..taken[c] : i \in Nat /\ i < taken[c] + 1
    BY <2>1
  <2>3. QED
    BY <1>t, <2>2 DEF Asked
<1>3. \A k \in A : k # n + 1 /\ ~(n + 1 < k) /\ g[k] = f[k] /\ g[k] < t
  BY <1>g, <1>1, <1>2
<1>4. g[n + 1] = t
  BY <1>g
<1>5. g \in [A \cup {n + 1} -> Asked(c) \cup {t}]
  BY <1>g, <1>1
<1>6. \A k \in A \cup {n + 1} : Outbox(c)'[k].type = sent[c][g[k]].type
  BY <1>t, <1>1, <1>3, <1>4
<1>7. \A k, l \in A \cup {n + 1} : k < l => g[k] < g[l]
  BY <1>1, <1>3, <1>4
<1>8. \A i \in Asked(c) \cup {t} : \E k \in A \cup {n + 1} : g[k] = i
  BY <1>1, <1>3, <1>4
<1>9. Matches(c, g)'
  BY <1>t, <1>5, <1>6, <1>7, <1>8 DEF Matches
<1>10. QED
  BY <1>9

\* A query that is handled adds its answer, and nothing else adds or takes one.
LEMMA AnswersStep ==
  ASSUME SessionInv, IdInv, AnswersInOrder, [GameNext]_allVars
  PROVE  AnswersInOrder'
<1> SUFFICES ASSUME Running', NEW c \in Conn
             PROVE  \E f : Matches(c, f)'
  BY DEF AnswersInOrder, Matches
<1>1. ASSUME Running
      PROVE  \E f : Matches(c, f)
  BY <1>1 DEF AnswersInOrder, Matches
<1>2. ASSUME Running,
             Answered(c)' = Answered(c), taken'[c] = taken[c],
             \A k \in Answered(c) : Outbox(c)'[k] = Outbox(c)[k],
             \A i \in 1..taken[c] : sent'[c][i] = sent[c][i]
      PROVE  \E f : Matches(c, f)'
  <2>1. PICK f : Matches(c, f)
    BY <1>1, <1>2
  <2>2. Asked(c)' = Asked(c) /\ \A i \in Asked(c) : sent'[c][i] = sent[c][i]
    BY <1>2 DEF Asked
  <2>3. Matches(c, f)'
    BY <1>2, <2>1, <2>2, MatchKept
  <2>4. QED
    BY <2>3
<1>3. CASE Restart
  <2>1. Answered(c)' = {} /\ Asked(c)' = {}
    BY <1>3 DEF Restart, Answered, Asked, Outbox
  <2> DEFINE f == [k \in {} |-> 0]
  <2>2. f \in [{} -> {}]
    OBVIOUS
  <2>3. Matches(c, f)'
    BY <2>1, <2>2 DEF Matches
  <2>4. QED
    BY <2>3
<1>4. ASSUME NEW e \in Conn, Enters(e)
      PROVE  \E f : Matches(c, f)'
  <2> DEFINE p == SetId(lastId + 1)
  <2>1. lastId + 1 \in Nat
    BY DEF SessionInv, TypeOK
  <2>2. p \in Packet /\ p.type \notin Query
    BY <2>1, ServerPacketType DEF SetId, Query
  <2>3. Given({e}, p) /\ Running /\ UNCHANGED <<sent, taken>>
    BY <1>4 DEF Enters
  <2>4. Answered(c)' = Answered(c) /\ \A k \in Answered(c) : Outbox(c)'[k] = Outbox(c)[k]
    BY <2>2, <2>3, AnsweredStep
  <2>5. QED
    BY <1>2, <2>3, <2>4
<1>5. ASSUME NEW e \in Conn, Rests(e) \/ Still
      PROVE  \E f : Matches(c, f)'
  <2>1. Running /\ Outbox(c)' = Outbox(c) /\ taken' = taken
    BY <1>5 DEF Rests, Still, NothingGiven
  <2>2. Answered(c)' = Answered(c)
    BY <2>1 DEF Answered
  <2>3. ASSUME NEW i \in 1..taken[c]
        PROVE  sent'[c][i] = sent[c][i]
    <3>1. sent[c] \in Seq(Packet) /\ i \in 1..Len(sent[c])
      BY DEF SessionInv, TypeOK
    <3>2. \/ sent'[c] = sent[c]
          \/ \E p \in Packet : sent'[c] = Append(sent[c], p)
      BY <1>5 DEF Rests, Still, Learns, Sends, SessionInv, TypeOK
    <3>3. QED
      BY <3>1, <3>2, AppendProperties
  <2>4. taken'[c] = taken[c] /\ \A k \in Answered(c) : Outbox(c)'[k] = Outbox(c)[k]
    BY <2>1
  <2>5. QED
    BY <1>2, <2>1, <2>2, <2>3, <2>4
<1>6. ASSUME NEW e \in Conn, Consumes(e) \/ \E p \in Packet : Serves(e, p)
      PROVE  \E f : Matches(c, f)'
  <2>1. /\ Running /\ e \in Started /\ Unread(e) /\ UNCHANGED sent
        /\ taken'[e] = taken[e] + 1 /\ taken[e] \in Nat
        /\ c # e => taken'[c] = taken[c]
    BY <1>6 DEF Consumes, Serves, SessionInv, TypeOK
  <2>2. CASE Incoming(e).type \notin Query
    <3>1. Answered(c)' = Answered(c) /\ \A k \in Answered(c) : Outbox(c)'[k] = Outbox(c)[k]
      <4>1. CASE Consumes(e)
        BY <4>1 DEF Consumes, NothingGiven, Answered
      <4>2. ASSUME NEW p \in Packet, Serves(e, p)
            PROVE  /\ Answered(c)' = Answered(c)
                   /\ \A k \in Answered(c) : Outbox(c)'[k] = Outbox(c)[k]
        <5>1. Given(Addressees(p), p) /\ p.type \notin Query
          BY <2>2, <4>2 DEF Serves, Answer, Relay, Query
        <5>2. QED
          BY <5>1, AnsweredStep
      <4>3. QED
        BY <1>6, <4>1, <4>2
    <3>2. CASE c # e
      BY <1>2, <2>1, <3>1, <3>2
    <3>3. CASE c = e
      <4>1. Asked(c)' = Asked(c)
        BY <2>1, <2>2, <3>3, AskedStep
      <4>2. PICK f : Matches(c, f)
        BY <1>1, <2>1
      <4>3. Matches(c, f)'
        BY <2>1, <3>1, <4>1, <4>2, MatchKept
      <4>4. QED
        BY <4>3
    <3>4. QED
      BY <3>2, <3>3
  <2>3. CASE Incoming(e).type \in Query
    <3>1. RecvQuery(e, Query) /\ Incoming(e).senderId \in DOMAIN sessions
      <4>1. ~Restart /\ taken'[e] # taken[e]
        BY <2>1 DEF Restart
      <4>2. QED
        BY <2>3, <4>1, QueryHandled
    <3>2. PICK p \in Packet : Serves(e, p)
      BY <3>1, ReadBodyServes
    <3>3. /\ Given(Addressees(p), p)
          /\ p = Answer(Incoming(e)) /\ p.type = Incoming(e).type
          /\ Addressees(p) = {d \in Members : id[d] = Incoming(e).senderId}
      BY <2>3, <3>2 DEF Serves, Answer, Relay, Query, Addressees
    <3>4. Given({e}, p)
      BY <2>1, <3>1, <3>3, QuerySender
    <3>5. CASE c # e
      <4>1. Answered(c)' = Answered(c) /\ \A k \in Answered(c) : Outbox(c)'[k] = Outbox(c)[k]
        BY <3>4, <3>5, AnsweredStep
      <4>2. QED
        BY <1>2, <2>1, <3>5, <4>1
    <3>6. CASE c = e
      <4>1. PICK n \in Nat : /\ \A k \in Answered(c) : k \in Nat /\ k <= n
                             /\ Answered(c)' = Answered(c) \cup {n + 1}
                             /\ Outbox(c)'[n + 1] = p
        BY <2>3, <3>3, <3>4, <3>6, AnsweredStep
      <4>2. \A k \in Answered(c) : Outbox(c)'[k] = Outbox(c)[k]
        BY <3>4, AnsweredStep
      <4>3. Asked(c)' = Asked(c) \cup {taken[c] + 1}
        BY <2>1, <2>3, <3>6, AskedStep
      <4>4. Outbox(c)'[n + 1].type = sent[c][taken[c] + 1].type
        BY <3>3, <3>6, <4>1 DEF Incoming
      <4>5. PICK f : Matches(c, f)
        BY <1>1, <2>1
      <4>6. QED
        BY <2>1, <4>1, <4>2, <4>3, <4>4, <4>5, LastAnswered
    <3>7. QED
      BY <3>5, <3>6
  <2>4. QED
    BY <2>2, <2>3
<1>7. [SessionNext]_vars
  BY GameStepSession
<1>8. QED
  BY <1>3, <1>4, <1>5, <1>6, <1>7, StepKinds

\* Every query is answered, to the client that asked and in its order, and no
\* client gets an answer to a query it has not sent.
THEOREM AnswersStayInOrder == GameSpec => []AnswersInOrder
<1>1. GameInit => AnswersInOrder
  <2> SUFFICES ASSUME GameInit, NEW c \in Conn
               PROVE  \E f : Matches(c, f)
    BY DEF AnswersInOrder, Matches
  <2>1. Answered(c) = {} /\ Asked(c) = {}
    BY DEF GameInit, SessionInit, Answered, Asked, Outbox
  <2>2. [k \in {} |-> 0] \in [{} -> {}]
    OBVIOUS
  <2>3. Matches(c, [k \in {} |-> 0])
    BY <2>1, <2>2 DEF Matches
  <2>4. QED
    BY <2>3
<1>2. SessionInv /\ IdInv /\ AnswersInOrder /\ [GameNext]_allVars => AnswersInOrder'
  BY AnswersStep
<1>3. QED
  BY <1>1, <1>2, GameImplementsSession, SessionInvInvariant, IdInvInvariant, PTL
  DEF GameSpec
=============================================================================
