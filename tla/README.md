# A verification of the game lobby in TLA+

The repository is a small game lobby: a server that keeps one TCP session per
client and a SQLite database of users and games, and a client made of two
processes, a daemon that holds the connection and a GUI that talks to it through
shared memory. Its generated documentation, which is part of the repository,
carries a program of its own: the search of `search.js`, with a search box, timers,
a frame that loads result pages, and keys that move through the results. This
directory models all three, checks them with TLC and proves their safety properties
with TLAPS. The last section lists what comes next.

## The system

| Component | State | Operations | Talks to |
|---|---|---|---|
| `TcpMultiSessionServer` | `sessions` (id to session), `lastId`, the acceptor | `Join`, `Leave`, `Bcast`, `Ucast`, `HandleAccept`, virtual `OnRecv` | `Session` (calls) |
| `Session` | `id`, the read in progress (`readPacket`), `msgQueue` | `Start`, `Deliver`, `WaitForHeader`, `HandleReadHeader`, `HandleReadBody`, `HandleWrite` | its socket, the server (calls) |
| `GameServer` | none of its own | `OnRecv`, a case per type of packet | `DBProvider`, `Ucast` |
| `DBProvider` | the file `db.sqlite`, three cached result tables, two lists | `loginUser`, `logoutUser`, `beginGame`, `endGame`, `fetch*`, `print*`, `get*List` | the SQLite wrapper |
| server process (`main.cpp`) | three threads: messages, refresher, console | `processMessages`, `refreshData`, `processUserInput` | all share one `DBProvider`, without a lock |
| `Packet` | header, 512 byte body, archives | `decode_header`, `encode_header`, `PreaperToRead`, `PreaperToWrite`, `Read`, `Write` | used by both sides |
| `Client` | `id`, the socket, `write_msgs` | connect with retry over the endpoints, read loop, write queue, `close` | server, daemon |
| shared memory (`interprocessReadWrite.h`) | two named one-element slots | `read`, `tryWrite`, `write`, `readDeamon`, `readGui`, `onRecv` | daemon and GUI, by polling |
| daemon, GUI | none | start-up and shutdown; a menu | shared memory |
| `SearchBox` (`search.js`) | text, section, last search, windows, two timers | handlers of the field, the selection window, the timers | the page, the frame |
| `SearchResults` (`search.js`) | rows shown, rows expanded, the key seen last | `Search`, `Toggle`, `NavNext`, `NavPrev`, `ProcessKeys`, `Nav`, `NavChild` | the search box (focus, closing) |
| `CppSQLite3` (third-party) | connection, result table with a cursor | `execDML`, `getTable`, table accessors | SQLite |

What is hard here:

* **Completion order.** All handlers of the server run on one thread, so each is
  atomic; but every session has a read and usually a write pending, and which
  completes next is open. A broken connection makes both fail, in either order. The
  client is built the same way.
* **Exceptions.** `Leave` and `Ucast` throw when the session is not in the map, the
  tables throw when they were never filled, a `std::string` made of a NULL throws.
  Nothing between a handler and the entry of its thread catches any of it: an
  exception terminates the whole server.
* **Sharing.** Three threads of the server use the same tables, and one cursor in
  each; what clients see is as old as the last refresh.
* **Persistence.** The users table outlives the process and is reset only in part; the
  slots of the shared memory outlive the GUI.
* **Polling and blocking.** GUI and daemon pass single elements and wait for each
  other; the daemon waits in the thread that also runs its connection.
* **Two identities.** A session is known by an id that the client must repeat in
  every packet, a user by a login; nothing ties them together, and every client of
  this repository logs in as `nickel` (`src/Client/Client.h:38`).
* **Events of a page.** Keys go to the element that has the focus when they are
  pressed, and again to the one that has it when they are released; timers fire on a
  box that has been reset; a page of results arrives after the user has gone on.

`PROJECT.json` lists the hazards that follow, line by line, and the properties
aimed at each.

## The modules

| Module | Models |
|---|---|
| `Packet` | the packets: types, header fields, the length test, what bodies hold |
| `SessionServer` | `TcpMultiSessionServer` and `Session`, with the clients as their environment; `OnRecv` is a parameter |
| `Group` | the abstract specification of that layer: a group with numbered members and exact delivery |
| `DBProvider` | the users table, the cached tables, every statement, what reading may raise |
| `GameServer` | the real `OnRecv`, the refresher, the console, restart; extends `SessionServer` and `DBProvider` |
| `ResultTable` | the table of online users under the three threads, access by access |
| `PacketHeader` | `encode_header` and `decode_header` as functions on the text of the header |
| `Client` | the client's connection, with the server as its environment; extends `PacketHeader` |
| `LobbyClient` | GUI, daemon and shared memory; extends `Client` |
| `CommandQueue` | the abstract specification of the way of a command, from the menu to the server: one queue |
| `SearchResults` | the page of results |
| `SearchBox` | the search box, its user, timers and frame; extends `SearchResults` |
| `SessionServerProofs` | proofs: the map and the queues of `SessionServer` |
| `SessionHistoryProofs` | proofs: what clients have been given over the life of the server |
| `SessionGroupProofs` | proof: `SessionServer` implements `Group` |
| `GameServerProofs` | proofs: `GameServer` implements `SessionSpec`; its own properties |
| `PacketHeaderProofs` | proof: `decode_header` reads what `encode_header` has written |
| `LobbyClientProofs` | proofs: the properties of `LobbyClient`; it implements `CommandQueue` |
| `ResultTableProofs`, `SearchBoxProofs` | the proofs about `ResultTable`, `SearchBox` |
| `MC...` | values of the constants for TLC |

### How state and actions correspond to the code

*`SessionServer`.* `sessions`, `lastId`, `id`, `msgQueue` are the fields of the same
names. `phase[c]` says which read of the session is pending (`"header"`, `"body"`),
or that there is none (`"idle"` before `Start`, `"done"` after the read loop ended);
`writing[c]` that an `async_write` is pending; `acceptor` that an `async_accept` is.
`sent[c]` and `wire[c]` are the two directions of the connection, kept as histories,
and `taken[c]` counts the packets of `sent[c]` whose body has been read, so
`Incoming(c)` is the contents of `readPacket`. `conn[c]` is the client's end. A
handler is one action: `HandleAccept` contains `Session::Start` with its `Join` and
`Deliver`, each case of the switch in `HandleReadBody` is an action that ends with
the call of `OnRecv` and the next `WaitForHeader` (`BodyHandled`), every error branch
is an action of its own (`HandleReadHeaderFails`, `HandleReadBodyFails`,
`HandleWriteFails`, `HandleAcceptFails`).

`server` is `"running"`, `"quit"`, or the exception that ended the process.
Operators ending in `Outcome` say whether a call raises: `LeaveOutcome` and
`UcastOutcome` put the exception of the call before the outcome of what follows it,
in the order of the code. In particular `RecvDisconnect` leaves before `OnRecv` logs
the user out, and if `Leave` throws there is no logout.

A connection closed by the client lets a read fail even when packets are unread,
since a reset discards them; a body of length 0 needs no bytes, so its read cannot
fail. `Session::name` is written and never read, and left out.

The clients send what `readDeamon` can make and the packets of the other types the
server handles: the client's id as sender and, except in an `MT_UCAST` packet, as
receiver. The id is 0 until the client has read `MT_SET_ID` (`LearnId`). When the server
starts again (`Restart`) every client may connect to it.

*`GameServer`.* `OnRecv` has an action for each case (`RecvSetName`, `RecvLogout`,
`RecvGet`, ...), built on the action of the session layer that carries it. The
database operations are the ones of `DBProvider`; a statement that raises
`CppSQLite3Exception` (`SqlMayFail`) has no effect, as all operations catch it. The
statement of the constructor is translated as SQLite reads it:
`SET online=0 AND current_game=0` assigns a conjunction to `online` and leaves
`current_game` alone; where statements may fail, this one may leave anybody online. The
refresher makes one fetch per step.

`Group` says what the layer is for, without reads, writes or queues: clients enter
under the next number and are told it, leave for good, and every message goes to its
`Audience`: all members but the one it comes from for a broadcast, the member with the
receiver's number otherwise. The one exception is stated there: a broadcast under the
number 0, of a client that does not know its own yet, is given to all members, its origin
included, since `Bcast` knows the origin by the number alone. `SessionServer` implements it under the mapping `G`: the inbox of a
client is what was written to it followed by what is queued for it.

*`ResultTable`* looks into what is one step of `DBProvider`. `mpaszResults`, `mnRows`,
`mnCols`, `mnCurrentRow` are the fields of `CppSQLite3Table`; `operator=` is a step per
assignment, with `finalize` before; every accessor is its `checkResults` and then its
own access. `at[r]` is where a reader is in `getUsersList` or in `printUsers(ONLINE)`.
Using an array that has been freed, or none, or one beyond its end is undefined: the
process crashes, the call raises, or anything is read. `printUsers` catches an
exception, `getUsersList` does not. An empty result has no columns, any other has one at
least, which is all `mnCols` is asked for. The steps of the threads are interleaved; effects
of a weaker memory are not represented. `overlap` and `seen` are histories for the
properties.

*`Client`.* Each handler of `Client.h` is an action. `posted` holds what `write` and
`close` have posted, in order; a connect, a read and a write may be pending at the
same time. `OnRecv` writes a list into shared memory and blocks the thread until it is
there: `elements` is what is left to write, and no handler runs before it is empty
(`Handles`). The server announces an id, answers queries in order, ends on a query
with an id it has not given (as `GameServer` does), and may be lost. Both ends read headers
with `decode_header`, and what they find is any outcome that some placement of its arrays
gives (`Decoded`): with an id of 1000 a header may be refused (`Accepted`), which closes
the connection, or have another type, which is then handled as no packet the client
or the server knows.

*`LobbyClient`.* `toDaemon` and `toGui` are the two slots; a slot has one writer and
one reader, and `find`, `construct` and `destroy` of the segment are atomic, so a
read or write is a step and a loop that polls is a guard. The GUI's menu is
`Choose`, `ChooseGame`, `EnterGame`; `Kill` and `Start` are a GUI that is killed and
started again. `n` (the number of a command) and `line` (of a list) are not in the
code; they identify elements and packets for the properties. A round of `readGui` that
reads an element is the action `readGui`; one that reads nothing looks at the element of
an earlier round and prints it again if it is a line (`readGuiAgain`), any number of
times, as long as the screen has no more than `MaxPrinted` lines.

*`CommandQueue`* says what becomes of a command, without slot, threads, handlers and
connection: the user gives one at a time (`Give`) and may take it back until it is
handed over (`Withdraw`, a GUI that is killed); from then on it is in one queue, whose
elements arrive in order (`HandOver`, `Arrive`), though perhaps not all; nothing is
given after a request to disconnect. `LobbyClient` implements it under the mapping
`Q`: what is handed over is what the server has read (`up`), what waits in
`write_msgs` and in `posted`, and the element in the slot, without the `Close`.

*`PacketHeader`.* A field is the text of four characters. `decode_header` copies each
into an array without room for a terminator, so `atoi` reads on in whatever follows:
`Layout` has the three placements (each array followed by something else, or by the
next field, or by the one before), `Row` the arrays that follow in each, and the
property is about all of them. What stands behind the last array, or behind each in the
first placement, is assumed not to be a digit; the code does nothing to ensure that. It
is stated for ids up to 999: the blank such a number begins with ends the field before
it.

*`SearchResults`.* `frame` is the document in the frame: its page, its query, which
rows are displayed and which expanded, and `lastKey` and `repeatOn` of the script.
`focus` is the element that gets the keys: the field, the selection window, a row or
a child of a row, or nothing. `Reached` is the browser ignoring a call of `focus()`
on something that is not displayed. The rows of a page are a constant, and sorted
(`SortedAssumption`: rows whose names begin alike stand together), as they are in all
27 pages of this index. `Up` relies on it: it looks under the number of the row
before, whether or not that row is shown. No row of this
repository's index has several children, the script is written for them, and the
instances have them.

*`SearchBox`.* `box` has the value of the field, `searchActive`, `lastSearchValue` and
the display of the results window and of its close button. The actions are the
handlers the page connects, with the event that calls them; moving the focus runs
`onblur` and `onfocus` of the field first (`OnSearchFieldFocus`). `keyTimers` counts
the timers that run, `keyTimeout` says that one is remembered: `Search` forgets it
without stopping it. `loading` is the document on its way: a new request replaces an
older one. A text is looked up by its first character (`HasPage`); for an empty one
the code looks at position 0 of the index, where no name begins. `Search` on a section
that does not exist throws (`Throws`). Texts have no case; the label is a text like
others. Positions and marks, and following a link to another page, are left out.

## The runs

| Run | Question |
|---|---|
| `session_relay` | Do packets reach their addressees only (`OnlyAddressee`), complete and in order (`RelayInOrder`)? |
| `session_restart` | With every kind of packet, every way to leave, bad headers, failing accepts, and over two processes: do the map and the queues stay consistent (`MapConsistent`, `MembersAreServed`), are ids announced first and truly (`IdAnnounced`), is `Group` implemented? Is `SessionInv` an invariant? |
| `session_live` | Are departures noticed, queues drained, connections accepted? |
| `game_users` | Does the users table follow the requests, over two processes (`OnlineFollowsLogins`, `GameFollowsRequests`)? Is every query answered once and in order? What can end the server through the connection layer (`FailuresExplained`), what through a query (`QueryFailuresExplained`)? |
| `game_layer` | Does `GameServer` implement `SessionSpec`, also with statements that fail, so that what was checked and proved of the layer holds for it? Does the listing of online users catch up with the users table (`ListingCatchesUp`)? |
| `table_readers` | What do the three threads do to each other's use of the table? A call that has it to itself returns its rows; two calls without a refresh disturb each other by the cursor only (`ReadersOnlyMix`). |
| `lobby_lists` | Do commands reach the server in order and each once? Is the way of the commands a `CommandQueue`? Is a list shown whole, and only one? Are headers read as they were written? Does the menu come back, does the daemon end? |
| `search_page` | Mouse, keys, timers and late pages in any order: is the box reset whenever the results close, do the results answer the last search, does the focus stay in sight, does navigation follow the page? |
| `search_answer` | Is what was typed answered in the end (`QueryAnswered`), beside a timer that was forgotten, too? |

*Bounds of the server.* Two clients are enough for everything the handlers distinguish
(the own session, another one, one that is gone), two packets per client for "the
packet after" (after a departure, after a login, a second one in a queue; three in
`game_users`, for a login, a game and a question; one where the kinds of packets or
the faults are many), two process starts for what survives a restart. `MaxSend` and
`MaxStarts` are the bounds. The runs of `GameServer` have one client: what
several clients do to each other is in the runs of `SessionServer`, and the theorems on
`GameServer` are for any number. Where there are two clients they have the same login
and are declared symmetric; runs with liveness properties use no symmetry.
`table_readers` has two users, so two rows, and two fetches, so that a table is replaced
by a longer and by a shorter one; the calls are not bounded.

*Bounds of the client.* Two endpoints, for a connect that fails and one that does not;
four commands, one more than the way from the GUI to the server has places in front
of the queue; lists of up to two lines (none, one, a first and a last); one killed
GUI; the ids 999 and 1000, the last that leaves a blank in its field and the first that
does not; bodies of length 22 (an archive) and 512 (the most there may be). Three lines
on the screen (`MaxPrinted`) let either line of a list be printed again; `OneAnswer` and
`AnswerShown` are proved for any number.

*Bounds of the search.* A page of three rows, of which one text finds the last two, the
first of them with two children, and the other text, with a space more, none; the label; two
sections; two key timers at a time (`MaxTimers`), so that one that was forgotten runs
beside the one that replaces it. `search_answer` has the keys that move between field,
results and selection window, and no others (`MCFewKeys`): the rest moves within the
page of results. For the safety properties the proofs remove these bounds.

Runs with `CHECK_DEADLOCK FALSE` stop where the bounds are used up or a process has
ended for the last time; the search never stops.

`GameFollowsRequests` speaks of users with one connection. `OnlineFollowsLogins`
holds for shared logins too, and says how little is promised then: a user is surely
online only if *all* his connections have logged in and not out; one connection that logs
another out is therefore no violation. What `current_game` is before the first request to
a new process is not said. `FailuresExplained` and `QueryFailuresExplained` name what
comes before an exception and do not exclude any: a session that leaves twice, or a query
under the id 0, does end the server.

`OneAnswer` lets a line be printed any number of times, but nothing between it and the next
of its list, also when a GUI is killed; `AnswerShown` says, if none is, that the lines on
the screen are all of the answer and no others, however often each was printed.
`CommandsInOrder` lets commands be lost at the end only.

`RelayInOrder` follows the packets sent under an id; those under 0, which are not told
apart by their sender, are outside it. `OnlyAddressee` allows a broadcast under 0 to come
back to its sender. `PageAnswersLast` takes the page that says there are no
matches for an answer to any text, and does not compare the section.

Three runs expect a violation: each states what the code says of itself and shows a
behaviour that does otherwise.

| Run | Behaviour |
|---|---|
| `game_quit` | `MT_DISCONNECT`, then the client closes: `Leave` runs twice and the server terminates. `ServesAfterLogout` is about clients that log out before they close, and only a second `Leave` can violate it |
| `table_shared` | the console command `list` moves the cursor under `getUsersList`, and the answer mixes two users |
| `lobby_quit` | a user who quits while the first endpoint is being tried leaves a daemon that connects to the second and never ends |

### Divergences without a run

Met while modelling, and part of the models, without a run of their own:

* `getUsersList` makes a `std::string` of the game's name, which is NULL for a user who
  is online without a game: the exception ends the server at the first `MT_GET_USERS`
  (`src/Server/DBProvider.cpp:198`). `printUsers` knows the case (`:146-148`).
  `QueryFailuresExplained` says what has to come before.
* `current_game` survives logout and restart (`src/Server/DBProvider.cpp:52`, `:20`).
* A lost connection leaves its user online (`src/Server/Session.h:133`).
* After one failed accept nobody is accepted any more
  (`src/Server/TcpMultiSessionServer.cpp:87`).
* A broadcast under the id 0, of a client that has not read `MT_SET_ID` yet, comes back to
  it (`src/Server/TcpMultiSessionServer.cpp:52`), though the declaration says "except
  session that sent packet" (`TcpMultiSessionServer.h:51`). `OnlyAddressee` and the
  `Audience` of `Group` except it.
* `readGui` prints a line once more in every round that finds the slot empty after it
  (`src/Client/interprocessReadWrite.h:155-162`). `OneAnswer` and `AnswerShown` allow it.
* A key timer that runs when the field is left still fires, and searches for what is in
  the field then, the label (`src/Doc/html/search/search.js:225`), though the box has been
  deactivated. No property excludes it.
* A session id of 1000 leaves no blank between two fields of the header, and one
  placement of the arrays reads both as one number (`src/Common/Packet.h:98`).
  `MenuReturns` excepts such ids.
* Down in the selection window goes one past the last section, where `Search` throws
  and neither Enter nor Escape closes the window (`search.js:291`); `QueryAnswered`
  excepts it.
* Each key released in the field starts the 500 ms anew (`search.js:177-181`), so a user
  who keeps tapping keys is never answered; `QueryAnswered` excepts it.

### Fairness

`SessionFairness` is weak fairness of each handler: `io_service::run` calls the
handler of every operation that has completed, and an operation that can complete
does. It is stated per session, because an operation pending on one socket is not
held up by another. `GameFairness` adds the refresher thread, which loops without
condition, and strong fairness of a fetch that succeeds: a statement may fail any number of
times, but not for ever. Nothing is assumed of clients, of the console or of restarts, nor that an
accept, once it may fail, succeeds. Fairness of `HandleWrite` is more than the event loop
gives: it supposes that a peer whose connection is up, or the kernel for it, goes on
accepting data. A client that never reads would fill its window and hold up its own
queue, and no other.

In `LobbyClient` GUI and daemon poll without condition, the handlers run as in the
server, and the server reads; nothing is assumed of the user, nor that a connection
is lost or kept. In `SearchBox` timers run out, a requested document arrives, and a
key that is down is released; nothing else is assumed of the user. A timer of the field
need not run out as long as keys are released in the field, each of which stops it and
may start another (`KeyTimerFires \/ FieldChange`).

## The proofs

Every invariant of a passing run is proved for every value of the constants; so are the
three refinements (`Group`, `SessionSpec`, `CommandQueue`). The proofs use no assumption but the named `ASSUME`s of the
modules, which TLC evaluates in the runs, and the hypothesis `~SqlMayFail` in two
theorems. Each starts from an inductive invariant, which TLC has checked on the
instance of a run, and has a lemma per action or per kind of step.

| Theorem | Property | Module |
|---|---|---|
| `SessionInvInvariant`, `TypeCorrect`, `MapStaysConsistent`, `MembersStayServed` | `SessionInv` and its parts | `SessionServerProofs` |
| `IdsAnnounced` | `IdAnnounced` | `SessionHistoryProofs` |
| `OnlyAddresseesReached` | `OnlyAddressee` | `SessionHistoryProofs` |
| `RelayStaysInOrder` | `RelayInOrder` | `SessionHistoryProofs` |
| `FailuresAreExplained` | `FailuresExplained` | `SessionHistoryProofs` |
| `LayerImplementsGroup` | `ImplementsGroup` | `SessionGroupProofs` |
| `GameImplementsSession`, `GameTypeCorrect` | `SessionSpec`, `GameTypeOK` | `GameServerProofs` |
| `OnlineStaysRight`, `GamesStayRight` | `OnlineFollowsLogins`, `GameFollowsRequests` | `GameServerProofs` |
| `GameFailuresAreExplained`, `QueryFailuresAreExplained` | `FailuresExplained`, `QueryFailuresExplained` | `GameServerProofs` |
| `AnswersStayInOrder` | `AnswersInOrder` | `GameServerProofs` |
| `TypeCorrect`, `ReadersOnlyMixRows`, `AloneReadsRows` | `TypeOK`, `ReadersOnlyMix`, `AloneReturnsRows` | `ResultTableProofs` |
| `TypeCorrect`, `CommandsArriveInOrder`, `OneAnswerIsShown`, `AnswerIsShown` | `TypeOK`, `CommandsInOrder`, `OneAnswer`, `AnswerShown` | `LobbyClientProofs` |
| `HeaderDecoded` | `decode_header` inverts `encode_header` up to 999 | `PacketHeaderProofs` |
| `HeaderArrives` | `HeaderSurvives` | `LobbyClientProofs` |
| `CommandsAreQueued` | `ImplementsCommandQueue` | `LobbyClientProofs` |
| `SearchInvariant`, `TypeCorrect`, `ClosedAlwaysForgets`, `PageAnswers`, `FocusStaysVisible`, `LeftEmpty` | `SearchInv` and its parts | `SearchBoxProofs` |
| `NavFollowsThePage` | `NavInDocumentOrder` | `SearchBoxProofs` |

### The session layer

`SessionServerProofs`: `MapConsistent` is not inductive alone. That the session which
leaves takes its own entry with it needs unique ids among *all* sessions ever started,
and that a new id is unique needs them to lie in `1..lastId`; that is `Seated`.
`MembersAreServed` needs that a session which starts has an empty queue (`Seated`
again), and the typing of `HandleWrite` and of `Incoming` needs that pending
operations have something to work on (`Pending`). Three lemmas carry the common part:
`DeliverQueues` (what delivering does to the queues), `SameMap` (an action that leaves
the map alone) and `LeftMap` (one in which a session leaves it).

`SessionHistoryProofs` first reduces the handlers to six kinds of steps (`StepKinds`):
a session enters, it serves a packet, it consumes one without giving it to anybody, it
rests (it may leave, and its client send or learn its id), nothing happens that the
histories tell apart, or the process starts again.
Whether a packet waits in `msgQueue` or is on the wire is no longer seen, as `Outbox`
is both. Then, kind by kind:

* `IdInv`: that a client is told its own id first needs that sessions not started have
  been given nothing, and that a relayed packet carries an id given before: a new id
  is above them all. That in turn needs the ids in what clients have sent.
* `OnlyAddressee` is inductive with `IdInv`. A broadcast that is relayed has just been
  read (`ServesReads`), and what was read stays read (`ReadGrows`, `ReadStaysRead`). It
  goes to every session but the one that has the sender's id; with ids unique that is the
  one it was read from, unless the id is 0.
* `RelayInv`: the correspondence `f` that `RelayInOrder` asks for is not unique and not
  a variable. The invariant says that one exists (`Finds`); a step extends it by the
  packet just handled, at the end (`LastRelayed`), or leaves it. That `f` reaches up to
  the last packet read, while the receiver is in the map, is what makes the packet
  handled next the one that leaves no gap.
* `FailureInv`: a session that has left while its read loop goes on has a client that
  closed or said `MT_DISCONNECT` (`DeparturesExplained`). Without it the second
  `Leave`, which throws, would have no explanation.

`SessionGroupProofs` maps the kinds of steps to those of `Group`: entering, leaving and
relaying are steps of `Group`, everything else stutters. `AudienceFound` shows that those
`Bcast` delivers to, whom it chooses by id, are the audience, which `Group` chooses by
where the packet comes from.

### The server process

`GameImplementsSession` shows that each case of `OnRecv`, the refresher and the console
are steps of `SessionServer` with some outcome, and that `SessionServer` allows this
outcome; hence all of the above holds of `GameSpec`. `GameStepKinds` says which steps
change the database: those that handle a request (`Handles`), the refresher and a new
process; all others idle.

* `OnlineFollowsLogins` and `GameFollowsRequests` are inductive with the types, since
  they speak of the last request of a client (`LastOf`), and a step that handles a
  packet makes it the last. They are stated under `~SqlMayFail`, as in their run: a
  statement that fails is reported on the console and forgotten, and then they are
  false. Types need that bodies are what the packet's type says (`BodiesRight`).
* `QueryInv`: `QueryFailuresExplained` is about the step that throws; the invariant
  carries the cause to it: whoever is online, or was when the table was filled, has
  logged in, and the refresher fills the users' table before the games'.
* `AnswersInOrder` uses that a query is answered to the session it came from. This is
  `IdInv` again, with ids unique: a query carries its sender's id, or 0, for which
  `Ucast` throws and the server ends.

### The result table

`TypeInv` adds to the types what the refresher has assigned at each of its steps
(`RefresherInv`); without it `mnRows` could belong to another array than
`mpaszResults`. `ReadersInv` is about calls without a refresh in them (`Quiet`):
the table is the one the call began with and the loops stay inside (`CallInv`), what
has been read so far comes from it (`ListInv`), and if the other reader stays out, the
cursor is where the loop is (`AloneInv`). The tables may have any number of rows
(`MaxRows`), the users any number of columns.

### The client

`Sent` is what has left the daemon's main thread, wherever it is by now: read by the
server, in the write queue, or posted. The handlers between move packets within it.

* `OrderInv`: numbers grow along `Sent`, the slot and the GUI; `Close` is last.
  `GaplessInv`: if no GUI was killed, they are consecutive, and the number of
  commands is the number of places they take. `CommandsInOrder` is about the first
  part of `Sent` only, and says nothing of what may follow it.
* `ListInv`: in what is left to write, the slot and what the GUI has read last, each
  element is followed by the one after it (`Follows`), also across a killed GUI, and the
  line printed last is the element read last, if that is a line, so that printing it again
  does no harm.
* `AnswerInv`: if no GUI was killed there is one query, one answer or one list anywhere,
  that of the command the GUI waits for. It has a clause for each place the question
  or the answer can be in.

`CommandsAreQueued` uses the same invariants (`TypeInv`, `OrderInv`) and no other. With
the mapping, `DoWrite` and the daemon's reads are stutters: they move a request from
one place of `Sent` to the next. What is left is to show for each process which steps
are not: `GuiQueueStep` (`Give`, `Withdraw`, `HandOver`), `DaemonQueueStep` (a request
leaves the slot and joins `Sent`; `Close` joins `Sent` and is no request, which needs
that it is last) and `ConnectionQueueStep` (`HandleWrite` is `Arrive`, and that the
packet written is the next to arrive is `NextToArrive`). `RequestsAre` and its relatives
say what dropping a `Close` at the end does to a sequence.

`NoneAssumption` says that an empty slot is no element, `Connects` that before the
connection is made nothing can have arrived.

### The header

`HeaderDecoded` follows the text of a number through both functions. `PaddedIsField`:
a number up to 999 is three characters at most, so its field is blanks, at least one,
and then its digits, which are those of its decimal notation (`DigitsOfShort`,
`Decimals`). `RowIsFields`, `InMemoryIsField`: in every placement the array of a field
is followed by another field or by something else, either way by a blank. `AtoiReads`:
`atoi` skips the blanks before the digits, stops at this one, and `NumberOfShort` reads
the digits between. `NumberOf` is a recursive function; a number of three digits needs
three of its equations and no induction. From 1000 on there is no blank in front, and
the theorem is false: `HeaderSurvives` and its run leave out what happens then.

`HeaderArrives` needs that a header of a session up to 999 has no field above 999,
which is the type invariant and the bound 512 of the body.

### The search box

`SearchInv` adds two parts to the invariants of the run. `PageAnswersLast` speaks of
what is displayed when nothing is loading; `LoadsLast` says the same of what is
loading, since that is what will be displayed. `RowsOfPage` (the rows displayed are
the ones that match) gives the number of a row its type, on which that of the focus
depends. The lemmas on `Activate`, `Hidden`, `OnSearchFieldFocus`, `Searched` and
`Selected` say once what these functions do to the box; `StaysInv`, `MovesInv`,
`ClosesInv`, `SearchesInv` and `TogglesInv` each carry the proof for one sort of action,
and every action has a lemma that reduces it to one of them.

`NavFollowsThePage` follows from `SearchInv` alone: with a sorted index the displayed
rows have no gap (`VisibleTogether`), so the row `Nav` looks for is the one next to the
focus or there is none (`NavNextRow`, `NavPrevRow`). Without `SortedAssumption` it is
false: `Up` would look for children under a row that is not shown.

### Only model-checked

* All liveness (`DepartureNoticed`, `QueueDrains`, `ConnectionsAccepted`,
  `ListingCatchesUp`, `MenuReturns`, `DaemonEnds`, `QueryAnswered`), which is out of the
  provers' reach.
* The three runs that expect a violation, which are counterexamples.

## Not modelled

* The text of archives: truncation at 512 characters, and what an earlier packet left
  in the body's buffer. Bodies are abstract values.
* The order in which the hardware shows one thread the assignments of another.
* The text of the lines, creating and removing the shared memory segment, resolving the
  server's name, the disabled `deamonize`.
* Positions and sizes on the documentation pages, their text and style, jQuery.
* `OnSend` and the base class's `OnRecv` (no effect), `list_all` (like `list`), the data
  model, the rest of the SQLite wrapper.

## Plan

1. `Packet`, `SessionServer`, `Group`, `DBProvider`, `GameServer` with their runs, and
   `SessionServerProofs`: done.
2. `Client`, `LobbyClient`, `PacketHeader`, `ResultTable`, and their proofs: done.
3. `SearchResults`, `SearchBox`, and `SearchBoxProofs`: done.
4. The body buffer with what earlier packets left in it.
5. A composition of `LobbyClient` and `SessionServer` end to end, in place of the
   environments each has now.
6. Proofs of all safety invariants and of the three refinements: done. What is left to
   prove comes with 4 and 5: that the composition implements a `CommandQueue` continued
   from the server to the database.
