---------------------------- MODULE ResultTable ----------------------------
(***************************************************************************)
(* The table of online users of DBProvider, a CppSQLite3Table, as the      *)
(* three threads of the server use it: the refresher replaces its rows,    *)
(* the message thread reads them for MT_GET_USERS, the console prints them.*)
(* Nothing locks the table, and its cursor is a field of it.               *)
(*                                                                         *)
(* A step is one access to the fields of the table.  fieldValue reads the  *)
(* cursor and the array in one step: whatever it could read in two is what *)
(* it reads before, between or after the assignments of the refresher, or  *)
(* comes from an array that has been freed.  Using such an array, or none, *)
(* or one beyond its end, is undefined: the process crashes, the call      *)
(* raises, or anything is read.  That a name may be NULL is the concern of *)
(* DBProvider.                                                             *)
(***************************************************************************)
EXTENDS Integers, Sequences

CONSTANTS
  User,         \* the users who may be online
  Column,       \* the columns that are read of each row
  MaxRows,      \* bound: the rows of a table
  MaxFetches    \* bound: how often the refresher fetches

ASSUME ResultTableAssumption ==
  /\ Column # {}
  /\ MaxRows \in Nat \ {0}
  /\ MaxFetches \in Nat

Reader == {"message", "console"}    \* getUsersList and printUsers(ONLINE)

VARIABLES
  arrays,       \* the results of all fetches, each a sequence of users
  mpaszResults, \* the number of the array the table has, 0 for none
  mnRows,
  mnCols,       \* 1 for the columns there are; a result without rows has none
  mnCurrentRow,
  freed,        \* the numbers of the arrays that have been freed
  refresher,    \* the assignment the refresher makes next, or "idle"
  at,           \* for each reader, the access it makes next, "idle" or "done"
  row,          \* the counter of its loop
  todo,         \* the columns it has still to read of the row
  entry,        \* what the message thread has read of the row
  usersList,    \* what getUsersList returns, with the users it read
  seen,         \* the number of the array when it was called
  overlap,      \* who else used the table during its call, or in a call that
                \* reached into it
  failed,       \* the readers that have raised or read what is undefined
  process       \* "running" or "ended"

tableVars  == <<arrays, mpaszResults, mnRows, mnCols, mnCurrentRow, freed, refresher>>
readerVars == <<at, row, todo, entry, usersList, seen>>
vars == <<tableVars, readerVars, overlap, failed, process>>

Garbage == "?"

NoEntry == [c \in Column |-> Garbage]

Init ==
  /\ arrays = << >>
  /\ mpaszResults = 0
  /\ mnRows = 0
  /\ mnCols = 0
  /\ mnCurrentRow = 0
  /\ freed = {}
  /\ refresher = "idle"
  /\ at = [r \in Reader |-> "idle"]
  /\ row = [r \in Reader |-> 0]
  /\ todo = [r \in Reader |-> {}]
  /\ entry = NoEntry
  /\ usersList = << >>
  /\ seen = [r \in Reader |-> 0]
  /\ overlap = [r \in Reader |-> {}]
  /\ failed = {}
  /\ process = "running"

-----------------------------------------------------------------------------
(* The refresher: getTable, then the assignment of the table.              *)

Calling(r) == at[r] \notin {"idle", "done"}

Meets == overlap' = [r \in Reader |-> IF Calling(r) THEN overlap[r] \cup {"refresher"} ELSE overlap[r]]

Assigns(now, next) ==
  /\ refresher = now
  /\ refresher' = next
  /\ Meets
  /\ UNCHANGED <<arrays, readerVars, failed, process>>

fetchOnlineUsers(users) ==
  /\ refresher = "idle"
  /\ Len(arrays) < MaxFetches
  /\ arrays' = Append(arrays, users)
  /\ refresher' = IF mpaszResults = 0 THEN "results" ELSE "free"
  /\ Meets
  /\ UNCHANGED <<mpaszResults, mnRows, mnCols, mnCurrentRow, freed, readerVars, failed, process>>

FreeTable ==
  /\ Assigns("free", "clear")
  /\ freed' = freed \cup {mpaszResults}
  /\ UNCHANGED <<mpaszResults, mnRows, mnCols, mnCurrentRow>>

\* Mutant of ClearResults: finalize leaves the pointer to what it has freed.
ClearResultsNot ==
  /\ Assigns("clear", "results")
  /\ UNCHANGED <<mpaszResults, mnRows, mnCols, mnCurrentRow, freed>>

ClearResults ==
  /\ Assigns("clear", "results")
  /\ mpaszResults' = 0
  /\ UNCHANGED <<mnRows, mnCols, mnCurrentRow, freed>>

AssignResults ==
  /\ Assigns("results", "rows")
  /\ mpaszResults' = Len(arrays)
  /\ UNCHANGED <<mnRows, mnCols, mnCurrentRow, freed>>

AssignRows ==
  /\ Assigns("rows", "columns")
  /\ mnRows' = Len(arrays[Len(arrays)])
  /\ UNCHANGED <<mpaszResults, mnCols, mnCurrentRow, freed>>

AssignCols ==
  /\ Assigns("columns", "cursor")
  /\ mnCols' = IF arrays[Len(arrays)] = << >> THEN 0 ELSE 1
  /\ UNCHANGED <<mpaszResults, mnRows, mnCurrentRow, freed>>

AssignCursor ==
  /\ Assigns("cursor", "idle")
  /\ mnCurrentRow' = 0
  /\ UNCHANGED <<mpaszResults, mnRows, mnCols, freed>>

-----------------------------------------------------------------------------
(* The readers *)

GoesTo(r, step) ==
  /\ at' = [at EXCEPT ![r] = step]
  /\ UNCHANGED <<tableVars, overlap, failed, process>>

(* printUsers catches the exception, and nobody that of getUsersList.      *)
Raises(r) ==
  /\ at' = [at EXCEPT ![r] = "done"]
  /\ failed' = failed \cup {r}
  /\ process' = IF r = "message" THEN "ended" ELSE process
  /\ UNCHANGED <<tableVars, row, todo, entry, usersList, seen, overlap>>

Crashes(r) ==
  /\ failed' = failed \cup {r}
  /\ process' = "ended"
  /\ UNCHANGED <<tableVars, readerVars, overlap>>

checkResults(r, next) ==
  \/ mpaszResults # 0 /\ GoesTo(r, next) /\ UNCHANGED <<row, todo, entry, usersList, seen>>
  \/ mpaszResults = 0 /\ Raises(r)

(* printUsers asks for the number of rows once more, before its loop.      *)
Call(r) ==
  /\ at[r] \in {"idle", "done"}
  /\ at' = [at EXCEPT ![r] = IF r = "console" THEN "any" ELSE "size"]
  /\ row' = [row EXCEPT ![r] = 0]
  /\ usersList' = IF r = "message" THEN << >> ELSE usersList
  /\ entry' = IF r = "message" THEN NoEntry ELSE entry
  /\ failed' = failed \ {r}
  /\ seen' = [seen EXCEPT ![r] = mpaszResults]
  /\ overlap' =
       LET others == {o \in Reader \ {r} : Calling(o)}
       IN  [s \in Reader |->
              CASE s = r -> others \cup (UNION {overlap[o] : o \in others})
                              \cup (IF refresher = "idle" THEN {} ELSE {"refresher"})
                [] s \in others -> overlap[s] \cup {r}
                [] OTHER -> overlap[s]]
  /\ UNCHANGED <<tableVars, todo, process>>

AnyRows(r) == at[r] = "any" /\ checkResults(r, "empty")

NoUsers(r) ==
  /\ at[r] = "empty"
  /\ GoesTo(r, IF mnRows = 0 THEN "done" ELSE "size")
  /\ UNCHANGED <<row, todo, entry, usersList, seen>>

numRows(r) == at[r] = "size" /\ checkResults(r, "loop")

Loop(r) ==
  /\ at[r] = "loop"
  /\ GoesTo(r, IF row[r] < mnRows THEN "check" ELSE "done")
  /\ UNCHANGED <<row, todo, entry, usersList, seen>>

setRow(r) == at[r] = "check" /\ checkResults(r, "index")

\* Mutant of RowInRange: the last row counts as out of range.
RowBeforeLast(n) == n < mnRows - 1

RowInRange(n) == n < mnRows

setRowIndex(r) ==
  /\ at[r] = "index"
  /\ \/ RowInRange(row[r]) /\ GoesTo(r, "move") /\ UNCHANGED <<row, todo, entry, usersList, seen>>
     \/ ~RowInRange(row[r]) /\ Raises(r)

(* What the console reads of a row goes nowhere: one read stands for all.  *)
Columns(r) == IF r = "message" THEN Column ELSE {CHOOSE c \in Column : TRUE}

\* Mutant of MoveCursor: the row is not remembered.
MoveCursorNot(r) ==
  /\ at[r] = "move"
  /\ at' = [at EXCEPT ![r] = "field"]
  /\ todo' = [todo EXCEPT ![r] = Columns(r)]
  /\ UNCHANGED <<tableVars, row, entry, usersList, seen, overlap, failed, process>>

MoveCursor(r) ==
  /\ at[r] = "move"
  /\ mnCurrentRow' = row[r]
  /\ at' = [at EXCEPT ![r] = "field"]
  /\ todo' = [todo EXCEPT ![r] = Columns(r)]
  /\ UNCHANGED <<arrays, mpaszResults, mnRows, mnCols, freed, refresher, row, entry, usersList,
                 seen, overlap, failed, process>>

fieldValue(r) == at[r] = "field" /\ checkResults(r, "value")

Defined ==
  /\ mpaszResults \notin freed \cup {0}
  /\ mnCurrentRow < Len(arrays[mpaszResults])

(* The columns of a row are arguments of one call, evaluated in any order. *)
Reads(r, c, value) ==
  LET last == todo[r] = {c}
      read == [entry EXCEPT ![c] = value]
  IN  /\ at' = [at EXCEPT ![r] = IF last THEN "size" ELSE "field"]
      /\ todo' = [todo EXCEPT ![r] = @ \ {c}]
      /\ row' = IF last THEN [row EXCEPT ![r] = @ + 1] ELSE row
      /\ IF r = "message"
         THEN /\ usersList' = IF last THEN Append(usersList, read) ELSE usersList
              /\ entry' = IF last THEN NoEntry ELSE read
         ELSE UNCHANGED <<usersList, entry>>
      /\ UNCHANGED <<tableVars, seen, overlap, process>>

(* Without columns the name that is asked for is not found.                *)
NoField(r) == at[r] = "value" /\ mnCols = 0 /\ Raises(r)

ReadField(r, c) ==
  /\ at[r] = "value"
  /\ mnCols # 0
  /\ c \in todo[r]
  /\ Defined
  /\ Reads(r, c, arrays[mpaszResults][mnCurrentRow + 1])
  /\ UNCHANGED failed

ReadUndefined(r, c) ==
  /\ at[r] = "value"
  /\ mnCols # 0
  /\ c \in todo[r]
  /\ ~Defined
  /\ \/ Crashes(r)
     \/ Raises(r)
     \/ Reads(r, c, Garbage) /\ failed' = failed \cup {r}

-----------------------------------------------------------------------------
(* A user is one row of the listing.                                       *)
Table ==
  UNION {{t \in [1 .. n -> User] : \A i, j \in 1 .. n : t[i] = t[j] => i = j} : n \in 0 .. MaxRows}

Refresher ==
  \/ \E users \in Table : fetchOnlineUsers(users)
  \/ FreeTable
  \/ ClearResults
  \/ AssignResults
  \/ AssignRows
  \/ AssignCols
  \/ AssignCursor

Read(r) ==
  \/ Call(r)
  \/ AnyRows(r)
  \/ NoUsers(r)
  \/ numRows(r)
  \/ Loop(r)
  \/ setRow(r)
  \/ setRowIndex(r)
  \/ MoveCursor(r)
  \/ fieldValue(r)
  \/ NoField(r)
  \/ \E c \in Column : ReadField(r, c) \/ ReadUndefined(r, c)

Next == process = "running" /\ (Refresher \/ \E r \in Reader : Read(r))

Spec == Init /\ [][Next]_vars

-----------------------------------------------------------------------------
Rows(users) == [i \in DOMAIN users |-> [c \in Column |-> users[i]]]

Returned == at["message"] = "done" /\ seen["message"] # 0

(* A call that has the table to itself, once there is one, returns its rows*)
(* each once and in order, whatever earlier calls and refreshes left in it.*)
AloneReturnsRows ==
  Returned /\ overlap["message"] = {} =>
    "message" \notin failed /\ usersList = Rows(arrays[seen["message"]])

Undisturbed(r) == seen[r] # 0 /\ "refresher" \notin overlap[r]

(* The console and the message thread disturb each other only by moving    *)
(* the cursor: as long as no refresh falls into the call of either, none   *)
(* raises or reads beyond the table, as many entries come back as there    *)
(* are rows, and what they hold is in the table, if not in one row.        *)
ReadersOnlyMix ==
  /\ \A r \in Reader : Undisturbed(r) => r \notin failed
  /\ Undisturbed("message") =>
       LET users == arrays[seen["message"]]
       IN  /\ Returned => Len(usersList) = Len(users)
           /\ \A i \in DOMAIN usersList, c \in Column :
                \E j \in DOMAIN users : usersList[i][c] = users[j]

(* The values of the variables; the table has an array that is freed only  *)
(* between FreeTable and ClearResults, and its cursor may be beyond it.    *)
TypeOK ==
  /\ arrays \in Seq(Table)
  /\ mpaszResults \in 0 .. Len(arrays)
  /\ mnRows \in 0 .. MaxRows
  /\ mnCols \in 0 .. 1
  /\ mnCurrentRow \in 0 .. MaxRows - 1
  /\ freed \subseteq 1 .. Len(arrays)
  /\ refresher \in {"idle", "free", "clear", "results", "rows", "columns", "cursor"}
  /\ mpaszResults \in freed => refresher = "clear"
  /\ at \in [Reader -> {"idle", "any", "empty", "size", "loop", "check", "index", "move",
                        "field", "value", "done"}]
  /\ row \in [Reader -> 0 .. MaxRows]
  /\ todo \in [Reader -> SUBSET Column]
  /\ \A r \in Reader : at[r] \in {"field", "value"} => todo[r] # {}
  /\ seen \in [Reader -> 0 .. Len(arrays)]
  /\ overlap \in [Reader -> SUBSET (Reader \cup {"refresher"})]
  /\ entry \in [Column -> User \cup {Garbage}]
  /\ usersList \in Seq([Column -> User \cup {Garbage}])
  /\ failed \subseteq Reader
  /\ process \in {"running", "ended"}

(* getUsersList returns the list of users: each in an entry of his own,    *)
(* whatever the console prints meanwhile.                                  *)
ReturnsUsers ==
  Returned /\ Undisturbed("message") => usersList = Rows(arrays[seen["message"]])
=============================================================================
