----------------------------- MODULE DBProvider -----------------------------
(***************************************************************************)
(* DBProvider: the users and games in db.sqlite, the three result tables   *)
(* that cache them, and the operations on both.                            *)
(*                                                                         *)
(* Of a row of users only the login, the flag online and current_game are  *)
(* kept, of a game its id.  A statement is atomic and durable (SQLite's    *)
(* autocommit); it may raise CppSQLite3Exception, which every operation    *)
(* catches: the statement then has no effect.  Filling a table is one step *)
(* here.                                                                   *)
(***************************************************************************)
EXTENDS Integers

CONSTANTS
  User,        \* the logins in table users
  Game,        \* the ids in table games
  StoredGame,  \* current_game in the database file at the first start
  SqlMayFail,  \* whether a statement may raise CppSQLite3Exception
  Null         \* a result table never filled; the NULL of a LEFT JOIN

ASSUME DBProviderAssumption ==
  /\ Game \subseteq Nat \ {0}
  /\ StoredGame \in [User -> Nat]
  /\ SqlMayFail \in BOOLEAN
  /\ Null # User /\ Null # Game
  /\ \A rows \in SUBSET [login : User, name : Game \cup {Null}] : rows # Null

VARIABLES
  online,            \* column users.online
  current_game,      \* column users.current_game
  usersTable,        \* DBProvider's members: Null or
  onlineUsersTable,  \*   the rows of the last successful fetch
  gamesTable

dbFile == <<online, current_game>>
tables == <<usersTable, onlineUsersTable, gamesTable>>

\* Mutant of OnlineRows: the WHERE clause is missing.
EveryRow ==
  {[login |-> u, name |-> IF current_game[u] \in Game THEN current_game[u] ELSE Null] :
     u \in User}

\* SELECT ... FROM users LEFT JOIN games ON current_game=games.id
\*        WHERE users.online=1
OnlineRows ==
  {[login |-> u, name |-> IF current_game[u] \in Game THEN current_game[u] ELSE Null] :
     u \in {x \in User : online[x]}}

-----------------------------------------------------------------------------
execDML(newOnline, newGame) ==
  \/ online' = newOnline /\ current_game' = newGame
  \/ SqlMayFail /\ UNCHANGED dbFile

NoTables ==
  /\ usersTable' = Null
  /\ onlineUsersTable' = Null
  /\ gamesTable' = Null

\* Mutant of Open: nobody is set offline.
OpenOnly == NoTables /\ UNCHANGED dbFile

\* The constructor.  Its "SET online=0 AND current_game=0" assigns to online
\* the value of a conjunction, and to current_game nothing.
Open ==
  /\ execDML([x \in User |-> FALSE /\ current_game[x] = 0], current_game)
  /\ NoTables

\* The constructor's first run, on a database file where anybody may be online:
\* the statement that sets everybody offline may fail.
DBInit ==
  /\ \/ online = [x \in User |-> FALSE]
     \/ SqlMayFail /\ online \in [User -> BOOLEAN]
  /\ current_game = StoredGame
  /\ usersTable = Null
  /\ onlineUsersTable = Null
  /\ gamesTable = Null

\* Mutant of loginUser: the WHERE clause is missing.
loginEverybody(u) == execDML([x \in User |-> TRUE], current_game)

loginUser(u)  == execDML([x \in User |-> x = u \/ online[x]], current_game)

logoutUser(u) == execDML([x \in User |-> x # u /\ online[x]], current_game)

beginGame(u, g) ==
  execDML(online, [x \in User |-> IF x = u THEN g ELSE current_game[x]])

\* Mutant of endGame: it assigns to the wrong column.
endOnline(u) == execDML([x \in User |-> x # u /\ online[x]], current_game)

endGame(u) ==
  execDML(online, [x \in User |-> IF x = u THEN 0 ELSE current_game[x]])

-----------------------------------------------------------------------------
\* Mutant of fetchAllUsers: the users are stored in the wrong table.
fetchIntoGames ==
  /\ gamesTable' = User
  /\ UNCHANGED <<usersTable, onlineUsersTable>>

fetchAllUsers ==
  /\ \/ usersTable' = User
     \/ SqlMayFail /\ UNCHANGED usersTable
  /\ UNCHANGED <<onlineUsersTable, gamesTable>>

fetchOnlineUsers ==
  /\ \/ onlineUsersTable' = OnlineRows
     \/ SqlMayFail /\ UNCHANGED onlineUsersTable
  /\ UNCHANGED <<usersTable, gamesTable>>

fetchGames ==
  /\ \/ gamesTable' = Game
     \/ SqlMayFail /\ UNCHANGED gamesTable
  /\ UNCHANGED <<usersTable, onlineUsersTable>>

-----------------------------------------------------------------------------
(* What reading a table ends in.  numRows of a table that was never filled *)
(* raises CppSQLite3Exception; a std::string is constructed from the name  *)
(* of every user's game, which must not be NULL.                           *)

numRowsOutcome(table) == IF table = Null THEN "NullResults" ELSE "running"

getGamesListOutcome == numRowsOutcome(gamesTable)

printGamesOutcome == numRowsOutcome(gamesTable)

getUsersListOutcome ==
  IF numRowsOutcome(onlineUsersTable) = "running"
     /\ \E row \in onlineUsersTable : row.name = Null
  THEN "NullName"
  ELSE numRowsOutcome(onlineUsersTable)
=============================================================================
