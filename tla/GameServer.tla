----------------------------- MODULE GameServer -----------------------------
(***************************************************************************)
(* The server process: GameServer, whose OnRecv turns packets into         *)
(* operations of DBProvider, on top of SessionServer, and the threads main *)
(* starts beside it, the one that refreshes the tables and the console.    *)
(***************************************************************************)
EXTENDS SessionServer, DBProvider

ASSUME GameServerAssumption ==
  /\ User \subseteq Login
  /\ {"NullArchive", "NullResults", "NullName"} \subseteq OuterException

VARIABLE refresher   \* the call refreshData makes next

gameVars == <<dbFile, tables, refresher>>
allVars  == <<vars, gameVars>>

GameInit ==
  /\ SessionInit
  /\ DBInit
  /\ refresher = "fetchAllUsers"

-----------------------------------------------------------------------------
(* Session::HandleReadBody with GameServer::OnRecv, a case each.           *)

\* Packet::Read dereferences the archive PreaperToRead made of a body that is
\* not empty.
ReadOutcome(p) == IF p.body_length = 0 THEN "NullArchive" ELSE "running"

\* Mutant of RecvSetName: a break is missing and the packet is broadcast too.
RecvSetNameFallsThrough(c) ==
  /\ BodyArrives(c, {"MT_SET_NAME"})
  /\ Bcast(Incoming(c))
  /\ server' = "running"
  /\ loginUser(Name[c])
  /\ BodyHandled(c)
  /\ UNCHANGED <<sessions, tables, refresher>>

RecvSetName(c) ==
  LET p == Incoming(c) IN
  /\ RecvOther(c, {"MT_SET_NAME"}, ReadOutcome(p))
  /\ IF server' = "running" THEN loginUser(p.body[1]) ELSE UNCHANGED dbFile
  /\ UNCHANGED <<tables, refresher>>

RecvBeginGame(c) ==
  LET p == Incoming(c) IN
  /\ RecvOther(c, {"MT_BEGIN_GAME"}, ReadOutcome(p))
  /\ IF server' = "running" THEN beginGame(p.body[2], p.body[1])
                            ELSE UNCHANGED dbFile
  /\ UNCHANGED <<tables, refresher>>

RecvEndGame(c) ==
  LET p == Incoming(c) IN
  /\ RecvOther(c, {"MT_END_GAME"}, ReadOutcome(p))
  /\ IF server' = "running" THEN endGame(p.body[1]) ELSE UNCHANGED dbFile
  /\ UNCHANGED <<tables, refresher>>

\* The session has left before OnRecv logs the user out.
RecvLogout(c) ==
  LET p == Incoming(c) IN
  /\ RecvDisconnect(c, ReadOutcome(p))
  /\ IF server' = "running" THEN logoutUser(p.body[1]) ELSE UNCHANGED dbFile
  /\ UNCHANGED <<tables, refresher>>

\* The list is made before it is sent: an exception leaves nothing queued.
RecvGet(c, type, listOutcome) ==
  /\ IF listOutcome = "running" THEN RecvQuery(c, {type})
                                ELSE RecvOther(c, {type}, listOutcome)
  /\ UNCHANGED gameVars

RecvRelay(c) ==
  /\ \/ RecvBcast(c, ReadOutcome(Incoming(c)))
     \/ RecvUcast(c, ReadOutcome(Incoming(c)))
  /\ UNCHANGED gameVars

RecvIgnored(c) ==
  /\ \/ RecvOther(c, {"MT_SET_ID"}, "running")
     \/ RecvOther(c, {"MT_NONE"}, ReadOutcome(Incoming(c)))
  /\ UNCHANGED gameVars

GameReadBody(c) ==
  \/ RecvSetName(c)
  \/ RecvBeginGame(c)
  \/ RecvEndGame(c)
  \/ RecvLogout(c)
  \/ RecvGet(c, "MT_GET_GAMES", getGamesListOutcome)
  \/ RecvGet(c, "MT_GET_USERS", getUsersListOutcome)
  \/ RecvRelay(c)
  \/ RecvIgnored(c)
  \/ HandleReadBodyFails(c) /\ UNCHANGED gameVars

-----------------------------------------------------------------------------
(* main.cpp: refreshData, whose sleep is the time before its next step,    *)
(* the console's command "games", and a new process.                       *)

RefreshAllUsers ==
  /\ Running /\ refresher = "fetchAllUsers"
  /\ fetchAllUsers
  /\ refresher' = "fetchOnlineUsers"
  /\ UNCHANGED <<vars, dbFile>>

RefreshOnlineUsers ==
  /\ Running /\ refresher = "fetchOnlineUsers"
  /\ fetchOnlineUsers
  /\ refresher' = "fetchGames"
  /\ UNCHANGED <<vars, dbFile>>

\* Mutant of RefreshGames: the thread ends after its first round.
RefreshGamesOnce ==
  /\ Running /\ refresher = "fetchGames"
  /\ fetchGames
  /\ refresher' = "done"
  /\ UNCHANGED <<vars, dbFile>>

RefreshGames ==
  /\ Running /\ refresher = "fetchGames"
  /\ fetchGames
  /\ refresher' = "fetchAllUsers"
  /\ UNCHANGED <<vars, dbFile>>

refreshData == RefreshAllUsers \/ RefreshOnlineUsers \/ RefreshGames

\* printGames changes nothing but by the exception nobody catches.
ConsoleGames ==
  /\ Running
  /\ server' = printGamesOutcome
  /\ UNCHANGED <<starts, sessionVars, clientVars, gameVars>>

RestartGame ==
  /\ Restart
  /\ Open
  /\ refresher' = "fetchAllUsers"

-----------------------------------------------------------------------------
GameNext ==
  \/ \E c \in Conn :
        \/ GameReadBody(c)
        \/ /\ \/ HandleAccept(c)
              \/ HandleReadHeader(c)
              \/ HandleReadHeaderFails(c)
              \/ HandleWrite(c)
              \/ HandleWriteFails(c)
              \/ Client(c)
           /\ UNCHANGED gameVars
  \/ (HandleAcceptFails \/ Quit) /\ UNCHANGED gameVars
  \/ refreshData
  \/ ConsoleGames
  \/ RestartGame

GameSpec == GameInit /\ [][GameNext]_allVars

\* The event loop serves every completed operation, and the refresher is
\* scheduled and wakes up.  The statement that fetches the online users may fail,
\* but not for ever.
GameFairness ==
  /\ WF_allVars(refreshData)
  /\ SF_allVars(RefreshOnlineUsers /\ onlineUsersTable' = OnlineRows)
  /\ \A c \in Conn :
       /\ WF_allVars(HandleAccept(c) /\ UNCHANGED gameVars)
       /\ WF_allVars(/\ HandleReadHeader(c) \/ HandleReadHeaderFails(c)
                     /\ UNCHANGED gameVars)
       /\ WF_allVars(GameReadBody(c))
       /\ WF_allVars(/\ HandleWrite(c) \/ HandleWriteFails(c)
                     /\ UNCHANGED gameVars)

FairGameSpec == GameSpec /\ GameFairness

-----------------------------------------------------------------------------
(* Properties.                                                             *)

Row == [login : User, name : Game \cup {Null}]

\* The type invariant of what GameServer and DBProvider add.
GameTypeOK ==
  /\ online \in [User -> BOOLEAN]
  /\ current_game \in [User -> Nat]
  /\ usersTable \in {Null, User}
  /\ onlineUsersTable = Null \/ onlineUsersTable \subseteq Row
  /\ gamesTable \in {Null, Game}
  /\ refresher \in {"fetchAllUsers", "fetchOnlineUsers", "fetchGames"}

\* The last packet of one of the types that the server has handled for c is
\* the k-th that c has sent.
LastOf(c, types, k) ==
  /\ k \in 1..taken[c]
  /\ sent[c][k].type \in types
  /\ \A j \in k + 1..taken[c] : sent[c][j].type \notin types

LoggedIn(c) ==
  \E k \in 1..taken[c] : /\ LastOf(c, {"MT_SET_NAME", "MT_DISCONNECT"}, k)
                        /\ sent[c][k].type = "MT_SET_NAME"

Of(u) == {c \in Conn : Name[c] = u}

\* The column online follows what clients asked of this process (SET_NAME and
\* DISCONNECT through loginUser, logoutUser and the reset at the start): a
\* user is online only if a connection of his has logged in and not out since,
\* and surely if all of them have.
OnlineFollowsLogins ==
  Running =>
    \A u \in User :
      /\ online[u] => \E c \in Of(u) : LoggedIn(c)
      /\ Of(u) # {} /\ (\A c \in Of(u) : LoggedIn(c)) => online[u]

\* The game of a user with one connection is the one of his last MT_BEGIN_GAME
\* or none after an MT_END_GAME, whatever other packets and users do.
GameFollowsRequests ==
  Running =>
    \A u \in User : \A c \in Of(u) : \A k \in 1..taken[c] :
      Of(u) = {c} /\ LastOf(c, {"MT_BEGIN_GAME", "MT_END_GAME"}, k) =>
        current_game[u] = IF sent[c][k].type = "MT_END_GAME" THEN 0
                          ELSE sent[c][k].body[1]

\* Two exceptions of a query that nobody catches, and what has to come first.
\* The answer to MT_GET_USERS lacks a name (DBProvider.cpp:198) only after a
\* login. A table has no result (main.cpp:75) only until the refresher has
\* completed its first round, which ends with the games, unless a statement
\* failed.
QueryFailuresExplained ==
  /\ server = "NullName" =>
       (\E c \in Conn : HasRead(c, {"MT_SET_NAME"})) \/ SqlMayFail
  /\ server = "NullResults" => gamesTable = Null \/ SqlMayFail

\* The places of the queries the server has handled for c, and of the answers
\* it has been given.
Asked(c)    == {k \in 1..taken[c] : sent[c][k].type \in Query}
Answered(c) == {k \in DOMAIN Outbox(c) : Outbox(c)[k].type \in Query}

\* Every query the server has handled has its answer in the write queue or on
\* the wire of the client that asked, once, in the order of the queries: the
\* answers carry no number to match them by.  f says which query each answers.
AnswersInOrder ==
  Running =>
    \A c \in Conn :
      \E f \in [Answered(c) -> Asked(c)] :
        /\ \A k \in Answered(c) : Outbox(c)[k].type = sent[c][f[k]].type
        /\ \A k, l \in Answered(c) : k < l => f[k] < f[l]
        /\ \A i \in Asked(c) : \E k \in Answered(c) : f[k] = i

\* Whatever the listing of online users (onlineUsersTable) has wrong or misses
\* is put right by the refresher, unless the users table changes back first, also
\* when statements fail meanwhile.
ListingCatchesUp ==
  LET Listed == IF onlineUsersTable = Null THEN {} ELSE onlineUsersTable
      Right(row) == row \in Listed <=> row \in OnlineRows
  IN \A row \in Row : ~Right(row) ~> Right(row) \/ ~Running

-----------------------------------------------------------------------------
(* What comments of the code say and the code does not do.                 *)

\* main.cpp:79, "we are waiting for quit command": a user who logs out before he closes
\* his connection does not end the server.
ServesAfterLogout ==
  (\A c \in Conn : conn[c] = "closed" => HasRead(c, {"MT_DISCONNECT"}))
    => server # "UnexistingSession"
=============================================================================
