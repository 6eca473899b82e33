------------------------- MODULE ResultTableProofs -------------------------
(***************************************************************************)
(* Proofs about the table of online users: TypeOK, ReadersOnlyMix and      *)
(* AloneReturnsRows are invariants, for any users, columns and bounds.     *)
(***************************************************************************)
EXTENDS ResultTable, SequenceTheorems, TLAPS

-----------------------------------------------------------------------------
(* The inductive invariants.                                               *)

\* The accesses that a call makes to one row.
InRow == {"check", "index", "move", "field", "value"}

\* What the refresher has assigned, by what it assigns next.
RefresherInv ==
  /\ refresher = "idle" => mpaszResults = Len(arrays)
  /\ refresher # "idle" => Len(arrays) # 0
  /\ refresher \in {"free", "clear"} => mpaszResults \notin {0, Len(arrays)}
  /\ refresher = "results" => mpaszResults = 0
  /\ refresher \in {"rows", "columns", "cursor"} => mpaszResults = Len(arrays)
  /\ refresher \in {"columns", "cursor", "idle"} /\ Len(arrays) # 0
       => mnRows = Len(arrays[Len(arrays)])
  /\ refresher \in {"cursor", "idle"} /\ Len(arrays) # 0
       => mnCols = IF arrays[Len(arrays)] = << >> THEN 0 ELSE 1
  /\ Len(arrays) \notin freed

\* With this, the types are kept.
TypeInv ==
  /\ TypeOK
  /\ RefresherInv
  /\ \A r \in Reader : at[r] \in InRow => row[r] < MaxRows

\* r is in a call into which no refresh has fallen, of its own or, through
\* the cursor, of the other reader.
Quiet(r) == Calling(r) /\ "refresher" \notin overlap[r]

\* The readers agree on whether it is quiet, and then the table is the one
\* they were called with, and the loops and the cursor stay inside it.
CallInv ==
  /\ \A r, s \in Reader : Quiet(r) /\ Calling(s) => Quiet(s)
  /\ \A r \in Reader : Quiet(r) => refresher = "idle" /\ seen[r] = mpaszResults
  /\ \A r \in Reader : Quiet(r) /\ mpaszResults # 0 =>
       /\ row[r] <= mnRows
       /\ at[r] \in InRow => row[r] < mnRows
       /\ at[r] \in {"field", "value"} => mnCurrentRow < mnRows
  /\ \A r \in Reader : at[r] = "idle" => seen[r] = 0
  /\ \A r \in Reader : Undisturbed(r) => r \notin failed

Users == arrays[seen["message"]]

\* What the message thread has read so far, and what it returns.
ListInv ==
  Undisturbed("message") =>
    /\ \A i \in DOMAIN usersList, c \in Column :
         \E j \in DOMAIN Users : usersList[i][c] = Users[j]
    /\ Len(usersList) = IF Calling("message") THEN row["message"] ELSE Len(Users)
    /\ at["message"] \in {"field", "value"} =>
         \A c \in Column \ todo["message"] : \E j \in DOMAIN Users : entry[c] = Users[j]

\* The same while the console is not in a call.
AloneInv ==
  seen["message"] # 0 /\ overlap["message"] = {} =>
    /\ Calling("message") => ~Calling("console")
    /\ \A i \in DOMAIN usersList : usersList[i] = [c \in Column |-> Users[i]]
    /\ at["message"] \in {"field", "value"} =>
         /\ mnCurrentRow = row["message"]
         /\ \A c \in Column \ todo["message"] : entry[c] = Users[row["message"] + 1]

ReadersInv == CallInv /\ ListInv /\ AloneInv

-----------------------------------------------------------------------------
(* The types.                                                              *)

\* A table is a sequence of at most MaxRows users.
LEMMA TableType ==
  ASSUME NEW users \in Table
  PROVE  /\ Len(users) \in 0 .. MaxRows
         /\ DOMAIN users = 1 .. Len(users)
         /\ \A i \in 1 .. Len(users) : users[i] \in User
<1>1. PICK n \in 0 .. MaxRows : users \in [1 .. n -> User]
  BY DEF Table
<1>2. n \in Nat /\ users \in Seq(User)
  BY <1>1, IsASeq, ResultTableAssumption
<1>3. Len(users) = n
  BY <1>1, <1>2, LenProperties
<1>4. QED
  BY <1>1, <1>3

\* The array the table has.
LEMMA ArrayType ==
  ASSUME TypeOK, NEW n \in 1 .. Len(arrays)
  PROVE  /\ Len(arrays[n]) \in 0 .. MaxRows
         /\ DOMAIN arrays[n] = 1 .. Len(arrays[n])
         /\ \A i \in 1 .. Len(arrays[n]) : arrays[n][i] \in User
<1>1. arrays[n] \in Table
  BY LenProperties DEF TypeOK
<1>2. QED
  BY <1>1, TableType

\* A fetch makes a table, of at most MaxRows rows.
LEMMA FetchTypeInv ==
  ASSUME TypeInv, NEW users \in Table, fetchOnlineUsers(users)
  PROVE  TypeInv'
<1> USE DEF TypeInv
<1>1. arrays \in Seq(Table) /\ arrays' = Append(arrays, users)
  BY DEF fetchOnlineUsers, TypeOK
<1>2. /\ arrays' \in Seq(Table) /\ Len(arrays) \in Nat /\ Len(arrays') = Len(arrays) + 1
  BY <1>1, AppendProperties, LenProperties
<1>3. /\ refresher = "idle"
      /\ refresher' = IF mpaszResults = 0 THEN "results" ELSE "free"
      /\ UNCHANGED <<mpaszResults, mnRows, mnCols, mnCurrentRow, freed, readerVars, failed,
                     process>>
  BY DEF fetchOnlineUsers
<1>4. overlap' \in [Reader -> SUBSET (Reader \cup {"refresher"})]
  BY DEF fetchOnlineUsers, Meets, TypeOK
<1>5. \A i : i \in 0 .. Len(arrays) => i \in 0 .. Len(arrays')
  BY <1>2
<1>6. freed \subseteq 1 .. Len(arrays') /\ Len(arrays') \notin freed
  BY <1>2 DEF TypeOK
<1>7. TypeOK'
  <2>1. mpaszResults' \in 0 .. Len(arrays') /\ seen' \in [Reader -> 0 .. Len(arrays')]
    BY <1>3, <1>5 DEF TypeOK, readerVars
  <2>2. QED
    BY <1>2, <1>3, <1>4, <1>6, <2>1 DEF TypeOK, readerVars, RefresherInv
<1>8. RefresherInv'
  BY <1>2, <1>3, <1>6 DEF RefresherInv, TypeOK
<1>9. QED
  BY <1>3, <1>7, <1>8 DEF readerVars

\* Each assignment of operator= finds what the one before has left.
LEMMA AssignsTypeInv ==
  ASSUME TypeInv,
         \/ FreeTable \/ ClearResults \/ AssignResults \/ AssignRows \/ AssignCols
         \/ AssignCursor
  PROVE  TypeInv'
<1> USE DEF TypeInv
<1>1. Len(arrays) \in Nat /\ arrays \in Seq(Table) /\ mpaszResults \in 0 .. Len(arrays)
  BY LenProperties DEF TypeOK
<1>2. /\ UNCHANGED <<arrays, readerVars, failed, process>>
      /\ Meets /\ refresher # "idle" /\ Len(arrays) # 0
      /\ refresher' \in {"idle", "clear", "results", "rows", "columns", "cursor"}
  BY DEF FreeTable, ClearResults, AssignResults, AssignRows, AssignCols,
         AssignCursor, Assigns, RefresherInv
<1>3. Len(arrays) \in 1 .. Len(arrays) /\ Len(arrays[Len(arrays)]) \in 0 .. MaxRows
  <2>1. Len(arrays) \in 1 .. Len(arrays)
    BY <1>1, <1>2
  <2>2. QED
    BY <2>1, ArrayType
<1>4. overlap' \in [Reader -> SUBSET (Reader \cup {"refresher"})]
  BY <1>2 DEF Meets, TypeOK
<1>5. 0 \in 0 .. MaxRows - 1
  BY ResultTableAssumption
<1>6. /\ mpaszResults' \in 0 .. Len(arrays)
      /\ mnRows' \in 0 .. MaxRows
      /\ mnCols' \in 0 .. 1
      /\ mnCurrentRow' \in 0 .. MaxRows - 1
      /\ freed' \subseteq 1 .. Len(arrays)
      /\ mpaszResults' \in freed' => refresher' = "clear"
      /\ RefresherInv'
  <2>1. CASE FreeTable
    BY <1>1, <1>2, <2>1 DEF FreeTable, Assigns, TypeOK, RefresherInv
  <2>2. CASE ClearResults
    BY <1>1, <1>2, <2>2 DEF ClearResults, Assigns, TypeOK, RefresherInv
  <2>3. CASE AssignResults
    BY <1>1, <1>2, <2>3 DEF AssignResults, Assigns, TypeOK, RefresherInv
  <2>4. CASE AssignRows
    BY <1>1, <1>2, <1>3, <2>4 DEF AssignRows, Assigns, TypeOK, RefresherInv
  <2>5. CASE AssignCols
    BY <1>1, <1>2, <2>5 DEF AssignCols, Assigns, TypeOK, RefresherInv
  <2>6. CASE AssignCursor
    BY <1>1, <1>2, <1>5, <2>6 DEF AssignCursor, Assigns, TypeOK, RefresherInv
  <2>7. QED
    BY <2>1, <2>2, <2>3, <2>4, <2>5, <2>6
<1>7. TypeOK'
  BY <1>2, <1>4, <1>6 DEF TypeOK, readerVars
<1>8. QED
  BY <1>2, <1>6, <1>7 DEF readerVars

\* The reads of a field.
LEMMA ReadsTypeInv ==
  ASSUME TypeInv, NEW r \in Reader, at[r] = "value", NEW c \in todo[r],
         NEW value \in User \cup {Garbage}, Reads(r, c, value), failed' \subseteq Reader
  PROVE  TypeInv'
<1> USE DEF TypeInv
<1> DEFINE last == todo[r] = {c}
           read == [entry EXCEPT ![c] = value]
<1>1. c \in Column /\ read \in [Column -> User \cup {Garbage}]
  BY DEF TypeOK
<1>2. /\ at' = [at EXCEPT ![r] = IF last THEN "size" ELSE "field"]
      /\ todo' = [todo EXCEPT ![r] = @ \ {c}]
      /\ row' = IF last THEN [row EXCEPT ![r] = @ + 1] ELSE row
      /\ UNCHANGED <<tableVars, seen, overlap, process>>
  BY DEF Reads
<1>3. row' \in [Reader -> 0 .. MaxRows]
  <2>1. row[r] \in 0 .. MaxRows /\ row[r] < MaxRows
    BY DEF TypeOK, InRow
  <2>2. row[r] + 1 \in 0 .. MaxRows
    BY <2>1, ResultTableAssumption
  <2>3. QED
    BY <1>2, <2>2 DEF TypeOK
<1>4. /\ entry' \in [Column -> User \cup {Garbage}]
      /\ usersList' \in Seq([Column -> User \cup {Garbage}])
  <2>1. NoEntry \in [Column -> User \cup {Garbage}]
    BY DEF NoEntry
  <2>2. Append(usersList, read) \in Seq([Column -> User \cup {Garbage}])
    BY <1>1, AppendProperties DEF TypeOK
  <2>3. QED
    BY <1>1, <2>1, <2>2 DEF Reads, TypeOK
<1>5. /\ at' \in [Reader -> {"idle", "any", "empty", "size", "loop", "check", "index",
                             "move", "field", "value", "done"}]
      /\ todo' \in [Reader -> SUBSET Column]
      /\ \A s \in Reader : at'[s] \in {"field", "value"} => todo'[s] # {}
      /\ \A s \in Reader : at'[s] \in InRow => row'[s] < MaxRows
  BY <1>2 DEF TypeOK, InRow
<1>6. TypeOK'
  BY <1>2, <1>3, <1>4, <1>5 DEF TypeOK, tableVars
<1>7. RefresherInv'
  BY <1>2 DEF RefresherInv, tableVars
<1>8. QED
  BY <1>5, <1>6, <1>7

\* Who meets whom in a new call.
LEMMA CallOverlap ==
  ASSUME overlap \in [Reader -> SUBSET (Reader \cup {"refresher"})],
         NEW r \in Reader, Call(r)
  PROVE  /\ overlap' \in [Reader -> SUBSET (Reader \cup {"refresher"})]
         /\ \A x : x \in overlap'[r] <=>
                     (\/ x \in Reader \ {r} /\ Calling(x)
                      \/ \E o \in Reader \ {r} : Calling(o) /\ x \in overlap[o]
                      \/ x = "refresher" /\ refresher # "idle")
         /\ \A s \in Reader \ {r} :
              overlap'[s] = IF Calling(s) THEN overlap[s] \cup {r} ELSE overlap[s]
<1> DEFINE others == {o \in Reader \ {r} : Calling(o)}
           inherited == UNION {overlap[o] : o \in others}
           active == IF refresher = "idle" THEN {} ELSE {"refresher"}
           met == others \cup inherited \cup active
<1>1. overlap' = [s \in Reader |->
                    CASE s = r -> met
                      [] s \in others -> overlap[s] \cup {r}
                      [] OTHER -> overlap[s]]
  BY DEF Call
<1>2. \A x : x \in met <=> (\/ x \in others
                            \/ \E o \in others : x \in overlap[o]
                            \/ x = "refresher" /\ refresher # "idle")
  <2> HIDE DEF others
  <2>1. \A x : x \in inherited <=> \E o \in others : x \in overlap[o]
    OBVIOUS
  <2>2. \A x : x \in active <=> x = "refresher" /\ refresher # "idle"
    OBVIOUS
  <2> HIDE DEF inherited, active
  <2>3. QED
    BY <2>1, <2>2
<1>3. met \subseteq Reader \cup {"refresher"}
  <2>1. others \subseteq Reader
    OBVIOUS
  <2> HIDE DEF met, others
  <2>2. QED
    BY <1>2, <2>1
<1>4. /\ overlap'[r] = met
      /\ \A s \in Reader \ {r} : overlap'[s] = IF s \in others THEN overlap[s] \cup {r}
                                                              ELSE overlap[s]
  <2>1. r \notin others
    OBVIOUS
  <2> HIDE DEF met, others
  <2>2. QED
    BY <1>1, <2>1
<1>5. overlap' \in [Reader -> SUBSET (Reader \cup {"refresher"})]
  <2> DEFINE after(s) == CASE s = r -> met
                           [] s \in others -> overlap[s] \cup {r}
                           [] OTHER -> overlap[s]
  <2>1. \A s \in Reader : after(s) \subseteq Reader \cup {"refresher"}
    <3> HIDE DEF met, others
    <3>1. QED
      BY <1>3
  <2> HIDE DEF after
  <2>2. overlap' = [s \in Reader |-> after(s)]
    BY <1>1 DEF after
  <2>3. QED
    BY <2>1, <2>2
<1>6. QED
  BY <1>2, <1>4, <1>5

\* The other accesses of a reader leave the lists and the table alone.
LEMMA ReadTypeInv ==
  ASSUME TypeInv, NEW r \in Reader, Read(r)
  PROVE  TypeInv'
<1> USE DEF TypeInv
<1>1. ASSUME NEW next \in {"loop", "empty", "index", "value", "size", "done", "check", "move"},
             GoesTo(r, next), UNCHANGED <<row, todo, entry, usersList, seen>>,
             next = "value" => at[r] = "field",
             next \in InRow => row[r] < MaxRows
      PROVE  TypeInv'
  BY <1>1 DEF GoesTo, TypeOK, RefresherInv, tableVars, InRow
<1>2. CASE Raises(r) \/ Crashes(r)
  <2>1. /\ failed' \subseteq Reader /\ process' \in {"running", "ended"}
        /\ UNCHANGED <<tableVars, row, todo, entry, usersList, seen, overlap>>
        /\ at' \in {at, [at EXCEPT ![r] = "done"]}
    BY <1>2 DEF Raises, Crashes, readerVars, TypeOK
  <2>2. /\ at' \in [Reader -> {"idle", "any", "empty", "size", "loop", "check", "index",
                               "move", "field", "value", "done"}]
        /\ \A s \in Reader : at'[s] \in {at[s], "done"}
    <3>1. CASE at' = at
      BY <3>1 DEF TypeOK
    <3>2. CASE at' = [at EXCEPT ![r] = "done"]
      BY <3>2 DEF TypeOK
    <3>3. QED
      BY <2>1, <3>1, <3>2
  <2>3. QED
    BY <2>1, <2>2 DEF TypeOK, RefresherInv, tableVars, InRow
<1>3. CASE Call(r)
  <2>1. overlap' \in [Reader -> SUBSET (Reader \cup {"refresher"})]
    BY <1>3, CallOverlap DEF TypeOK
  <2>2. 0 \in 0 .. MaxRows /\ << >> \in Seq([Column -> User \cup {Garbage}])
    BY ResultTableAssumption, EmptySeq
  <2>3. NoEntry \in [Column -> User \cup {Garbage}]
    BY DEF NoEntry
  <2>4. TypeOK'
    BY <1>3, <2>1, <2>2, <2>3 DEF Call, TypeOK, tableVars
  <2>5. QED
    BY <1>3, <2>4 DEF Call, TypeOK, RefresherInv, tableVars, InRow
<1>4. CASE MoveCursor(r)
  <2>1. row[r] \in 0 .. MaxRows - 1
    BY <1>4, ResultTableAssumption DEF MoveCursor, TypeOK, InRow
  <2>2. Columns(r) \in SUBSET Column /\ Columns(r) # {}
    BY ResultTableAssumption DEF Columns
  <2>3. QED
    BY <1>4, <2>1, <2>2 DEF MoveCursor, TypeOK, RefresherInv, InRow
<1>5. ASSUME NEW next, checkResults(r, next)
      PROVE  \/ Raises(r)
             \/ GoesTo(r, next) /\ UNCHANGED <<row, todo, entry, usersList, seen>>
  BY <1>5 DEF checkResults
<1>6. CASE \/ AnyRows(r) \/ NoUsers(r) \/ numRows(r) \/ Loop(r) \/ setRow(r)
           \/ setRowIndex(r) \/ fieldValue(r)
  <2>1. CASE AnyRows(r) \/ numRows(r)
    BY <1>1, <1>2, <1>5, <2>1 DEF AnyRows, numRows, InRow
  <2>2. CASE NoUsers(r)
    BY <1>1, <2>2 DEF NoUsers, InRow
  <2>3. CASE Loop(r)
    <3>1. row[r] < mnRows => row[r] < MaxRows
      BY ResultTableAssumption DEF TypeOK
    <3>2. QED
      BY <1>1, <2>3, <3>1 DEF Loop, InRow
  <2>4. CASE setRow(r) \/ setRowIndex(r) \/ fieldValue(r)
    <3>1. at[r] \in InRow
      BY <2>4 DEF setRow, setRowIndex, fieldValue, InRow
    <3>2. QED
      BY <1>1, <1>2, <1>5, <2>4, <3>1 DEF setRow, setRowIndex, fieldValue
  <2>5. QED
    BY <1>6, <2>1, <2>2, <2>3, <2>4
<1>7. ASSUME NEW c \in Column, ReadField(r, c)
      PROVE  TypeInv'
  <2>1. /\ at[r] = "value" /\ c \in todo[r] /\ failed' \subseteq Reader
        /\ mpaszResults \notin freed \cup {0} /\ mnCurrentRow < Len(arrays[mpaszResults])
        /\ Reads(r, c, arrays[mpaszResults][mnCurrentRow + 1])
    BY <1>7 DEF ReadField, Defined, TypeOK
  <2>2. mpaszResults \in 1 .. Len(arrays)
    BY <2>1, LenProperties DEF TypeOK
  <2>3. mnCurrentRow + 1 \in 1 .. Len(arrays[mpaszResults])
    BY <2>1, <2>2, ArrayType, ResultTableAssumption DEF TypeOK
  <2>4. arrays[mpaszResults][mnCurrentRow + 1] \in User
    BY <2>2, <2>3, ArrayType
  <2>5. QED
    BY <2>1, <2>4, ReadsTypeInv
<1>8. ASSUME NEW c \in Column, ReadUndefined(r, c)
      PROVE  TypeInv'
  <2>1. CASE Reads(r, c, Garbage) /\ failed' = failed \cup {r}
    <3>1. failed' \subseteq Reader /\ at[r] = "value" /\ c \in todo[r]
      BY <1>8, <2>1 DEF ReadUndefined, TypeOK
    <3>2. QED
      BY <2>1, <3>1, ReadsTypeInv
  <2>2. QED
    BY <1>2, <1>8, <2>1 DEF ReadUndefined
<1>9. QED
  BY <1>2, <1>3, <1>4, <1>6, <1>7, <1>8 DEF Read, NoField

\* Hence every step keeps the types.
LEMMA TypeInvStep ==
  ASSUME TypeInv, [Next]_vars
  PROVE  TypeInv'
<1>1. CASE UNCHANGED vars
  BY <1>1 DEF vars, tableVars, readerVars, TypeInv, TypeOK, RefresherInv, InRow
<1>2. QED
  BY <1>1, FetchTypeInv, AssignsTypeInv, ReadTypeInv DEF Next, Refresher

LEMMA TypeInvInit == Init => TypeInv
<1> SUFFICES ASSUME Init PROVE TypeInv
  OBVIOUS
<1>1. /\ << >> \in Seq(Table) /\ Len(<< >>) = 0
      /\ << >> \in Seq([Column -> User \cup {Garbage}])
      /\ NoEntry \in [Column -> User \cup {Garbage}]
  BY EmptySeq DEF NoEntry
<1>2. 0 \in 0 .. MaxRows - 1 /\ 0 \in 0 .. MaxRows
  BY ResultTableAssumption
<1>3. QED
  BY <1>1, <1>2 DEF Init, TypeInv, TypeOK, RefresherInv, InRow

LEMMA TypeInvInvariant == Spec => []TypeInv
BY TypeInvInit, TypeInvStep, PTL DEF Spec

\* Type correctness: in particular, the table has a freed array only between
\* the two assignments of CppSQLite3Table::finalize.
THEOREM TypeCorrect == Spec => []TypeOK
<1>1. TypeInv => TypeOK
  BY DEF TypeInv
<1>2. QED
  BY <1>1, TypeInvInvariant, PTL

-----------------------------------------------------------------------------
(* The readers and the refresher.                                          *)

\* A refresh falls into every call there is, and changes nothing for those
\* that have returned.
LEMMA RefresherReadersInv ==
  ASSUME TypeInv, ReadersInv, Refresher
  PROVE  ReadersInv'
<1> USE DEF TypeInv, ReadersInv
<1>1. /\ Meets /\ UNCHANGED <<readerVars, failed>>
      /\ \/ UNCHANGED arrays
         \/ \E users \in Table : arrays' = Append(arrays, users)
  BY DEF Refresher, fetchOnlineUsers, FreeTable, ClearResults, AssignResults,
         AssignRows, AssignCols, AssignCursor, Assigns
<1>2. UNCHANGED <<at, row, todo, entry, usersList, seen>>
  BY <1>1 DEF readerVars
<1>3. \A r \in Reader : /\ Calling(r)' <=> Calling(r)
                        /\ overlap'[r] = IF Calling(r) THEN overlap[r] \cup {"refresher"}
                                                       ELSE overlap[r]
  BY <1>1, <1>2 DEF Meets, Calling
<1>4. \A r \in Reader : ~Quiet(r)' /\ (Undisturbed(r)' => Undisturbed(r) /\ ~Calling(r))
  BY <1>2, <1>3 DEF Quiet, Undisturbed, Calling
<1>5. CallInv'
  BY <1>1, <1>2, <1>4 DEF CallInv, Calling
<1>6. "message" \in Reader /\ "console" \in Reader
  BY DEF Reader
<1>7. seen["message"] # 0 => Users' = Users
  <2>1. seen["message"] \in 0 .. Len(arrays) /\ Len(arrays) \in Nat /\ arrays \in Seq(Table)
    BY <1>6, LenProperties DEF TypeOK
  <2>2. seen["message"] # 0 => arrays'[seen["message"]] = arrays[seen["message"]]
    BY <1>1, <2>1, AppendProperties
  <2>3. QED
    BY <1>2, <2>2 DEF Users
<1>8. ListInv'
  BY <1>2, <1>3, <1>4, <1>6, <1>7 DEF ListInv, Undisturbed, Calling
<1>9. AloneInv'
  <2> SUFFICES ASSUME seen["message"] # 0, overlap'["message"] = {}
               PROVE  AloneInv'
    BY <1>2 DEF AloneInv
  <2>1. overlap["message"] = {} /\ ~Calling("message") /\ ~Calling("message")'
    BY <1>3, <1>6
  <2>2. Users' = Users /\ UNCHANGED usersList
    BY <1>2, <1>7
  <2>3. \A i \in DOMAIN usersList : usersList[i] = [c \in Column |-> Users[i]]
    BY <2>1 DEF AloneInv
  <2>4. at'["message"] \notin {"field", "value"}
    BY <2>1 DEF Calling
  <2>5. QED
    BY <2>1, <2>2, <2>3, <2>4 DEF AloneInv
<1>10. QED
  BY <1>5, <1>8, <1>9

\* A new call.
LEMMA CallReadersInv ==
  ASSUME TypeInv, ReadersInv, NEW r \in Reader, Call(r)
  PROVE  ReadersInv'
<1> USE DEF TypeInv, ReadersInv
<1>1. /\ at' = [at EXCEPT ![r] = IF r = "console" THEN "any" ELSE "size"]
      /\ row' = [row EXCEPT ![r] = 0]
      /\ failed' = failed \ {r}
      /\ seen' = [seen EXCEPT ![r] = mpaszResults]
      /\ UNCHANGED <<tableVars, todo, process>>
      /\ usersList' = IF r = "message" THEN << >> ELSE usersList
  BY DEF Call
<1>2. /\ at'[r] \in {"any", "size"} /\ row'[r] = 0 /\ seen'[r] = mpaszResults
      /\ \A s \in Reader \ {r} : at'[s] = at[s] /\ row'[s] = row[s] /\ seen'[s] = seen[s]
  BY <1>1 DEF TypeOK
<1>3. /\ "refresher" \in overlap'[r] <=>
           (\/ \E o \in Reader \ {r} : Calling(o) /\ "refresher" \in overlap[o]
            \/ refresher # "idle")
      /\ \A o \in Reader \ {r} : Calling(o) => o \in overlap'[r]
      /\ \A s \in Reader \ {r} :
           overlap'[s] = IF Calling(s) THEN overlap[s] \cup {r} ELSE overlap[s]
  <2>1. /\ \A x : x \in overlap'[r] <=>
                    (\/ x \in Reader \ {r} /\ Calling(x)
                     \/ \E o \in Reader \ {r} : Calling(o) /\ x \in overlap[o]
                     \/ x = "refresher" /\ refresher # "idle")
        /\ \A s \in Reader \ {r} :
             overlap'[s] = IF Calling(s) THEN overlap[s] \cup {r} ELSE overlap[s]
    BY CallOverlap DEF TypeOK
  <2>2. "refresher" \notin Reader
    BY DEF Reader
  <2>3. QED
    BY <2>1, <2>2
<1>4. /\ Calling(r)' /\ ~Calling(r)
      /\ \A s \in Reader \ {r} : /\ Calling(s)' <=> Calling(s)
                                 /\ Quiet(s)' <=> Quiet(s)
                                 /\ Undisturbed(s)' <=> Undisturbed(s)
  <2>1. r # "refresher" /\ at[r] \in {"idle", "done"}
    BY DEF Reader, Call
  <2>2. ASSUME NEW s \in Reader \ {r}
        PROVE  /\ Calling(s)' <=> Calling(s)
               /\ Quiet(s)' <=> Quiet(s)
               /\ Undisturbed(s)' <=> Undisturbed(s)
    <3>1. at'[s] = at[s] /\ seen'[s] = seen[s]
      BY <1>2
    <3>2. "refresher" \in overlap'[s] <=> "refresher" \in overlap[s]
      BY <1>3, <2>1 DEF Calling
    <3>3. QED
      BY <3>1, <3>2 DEF Calling, Quiet, Undisturbed
  <2>3. QED
    BY <1>2, <2>1, <2>2 DEF Calling
<1>5. UNCHANGED <<mpaszResults, mnRows, mnCurrentRow, refresher, arrays>>
  BY <1>1 DEF tableVars
<1>6. CallInv'
  <2>1. \A a, b \in Reader : Quiet(a)' /\ Calling(b)' => Quiet(b)'
    BY <1>3, <1>4 DEF CallInv, Quiet
  <2>2. \A a \in Reader : Quiet(a)' => refresher' = "idle" /\ seen'[a] = mpaszResults'
    BY <1>2, <1>3, <1>4, <1>5 DEF CallInv, Quiet
  <2>3. \A a \in Reader : Quiet(a)' /\ mpaszResults' # 0 =>
          /\ row'[a] <= mnRows'
          /\ at'[a] \in InRow => row'[a] < mnRows'
          /\ at'[a] \in {"field", "value"} => mnCurrentRow' < mnRows'
    <3>1. 0 <= mnRows
      BY ResultTableAssumption DEF TypeOK
    <3>2. QED
      BY <1>2, <1>4, <1>5, <3>1 DEF CallInv, InRow
  <2>4. \A a \in Reader : at'[a] = "idle" => seen'[a] = 0
    BY <1>2 DEF CallInv
  <2>5. \A a \in Reader : Undisturbed(a)' => a \notin failed'
    BY <1>1, <1>4 DEF CallInv
  <2>6. QED
    BY <2>1, <2>2, <2>3, <2>4, <2>5 DEF CallInv
<1>7. "message" \in Reader /\ "console" \in Reader
  BY DEF Reader
<1>8. CASE r = "message"
  <2>1. usersList' = << >> /\ DOMAIN usersList' = {} /\ Len(usersList') = 0
    BY <1>1, <1>8
  <2>2. ListInv'
    BY <1>2, <1>4, <1>8, <2>1 DEF ListInv
  <2>3. overlap'["message"] = {} => ~Calling("console")'
    BY <1>3, <1>4, <1>7, <1>8
  <2>4. AloneInv'
    BY <1>2, <1>8, <2>1, <2>3 DEF AloneInv
  <2>5. QED
    BY <1>6, <2>2, <2>4
<1>9. CASE r = "console"
  <2>1. /\ UNCHANGED <<usersList, entry, todo>> /\ Users' = Users
        /\ at'["message"] = at["message"] /\ row'["message"] = row["message"]
        /\ seen'["message"] = seen["message"]
    BY <1>1, <1>2, <1>5, <1>7, <1>9 DEF Call, Users
  <2>2. ListInv'
    BY <1>4, <1>7, <1>9, <2>1 DEF ListInv
  <2>3. CASE Calling("message")
    <3>1. overlap'["message"] # {}
      BY <1>3, <1>7, <1>9, <2>3
    <3>2. QED
      BY <1>6, <2>2, <3>1 DEF AloneInv
  <2>4. CASE ~Calling("message")
    <3>1. overlap'["message"] = overlap["message"] /\ ~Calling("message")'
      BY <1>3, <1>4, <1>7, <1>9, <2>4
    <3>2. AloneInv'
      BY <2>1, <2>4, <3>1 DEF AloneInv, Calling
    <3>3. QED
      BY <1>6, <2>2, <3>2
  <2>5. QED
    BY <2>3, <2>4
<1>10. QED
  BY <1>8, <1>9 DEF Reader

\* What an access of r leaves alone.
Frame(r) ==
  /\ UNCHANGED <<arrays, mpaszResults, mnRows, mnCols, freed, refresher, seen, overlap>>
  /\ r # "message" => UNCHANGED <<usersList, entry>>
  /\ \A s \in Reader \ {r} : /\ at'[s] = at[s]
                             /\ row'[s] = row[s]
                             /\ todo'[s] = todo[s]
                             /\ s \in failed' <=> s \in failed

\* An access of a reader moves the cursor to its own row or leaves it alone.
LEMMA AccessFrame ==
  ASSUME TypeOK, NEW r \in Reader, Read(r), ~Call(r)
  PROVE  /\ Calling(r)
         /\ Frame(r)
         /\ mnCurrentRow' # mnCurrentRow => at[r] = "move" /\ mnCurrentRow' = row[r]
<1>1. ASSUME NEW next, GoesTo(r, next), UNCHANGED <<row, todo, entry, usersList, seen>>
      PROVE  Frame(r) /\ UNCHANGED mnCurrentRow
  BY <1>1 DEF GoesTo, TypeOK, Frame, tableVars
<1>2. ASSUME Raises(r) \/ Crashes(r)
      PROVE  Frame(r) /\ UNCHANGED mnCurrentRow
  BY <1>2 DEF Raises, Crashes, readerVars, TypeOK, Frame, tableVars
<1>3. ASSUME NEW c, NEW value, Reads(r, c, value), failed' \in {failed, failed \cup {r}}
      PROVE  Frame(r) /\ UNCHANGED mnCurrentRow
  BY <1>3 DEF Reads, TypeOK, Frame, tableVars
<1>4. CASE MoveCursor(r)
  BY <1>4 DEF MoveCursor, Calling, TypeOK, Frame
<1>5. CASE \/ AnyRows(r) \/ NoUsers(r) \/ numRows(r) \/ Loop(r) \/ setRow(r)
           \/ setRowIndex(r) \/ fieldValue(r) \/ NoField(r)
  <2>1. Calling(r)
    BY <1>5 DEF AnyRows, NoUsers, numRows, Loop, setRow, setRowIndex, fieldValue, NoField,
                Calling
  <2>2. \/ Raises(r)
        \/ \E next : GoesTo(r, next) /\ UNCHANGED <<row, todo, entry, usersList, seen>>
    BY <1>5 DEF AnyRows, NoUsers, numRows, Loop, setRow, setRowIndex, fieldValue, NoField,
                checkResults
  <2>3. QED
    BY <1>1, <1>2, <2>1, <2>2
<1>6. ASSUME NEW c \in Column, ReadField(r, c) \/ ReadUndefined(r, c)
      PROVE  Calling(r) /\ Frame(r) /\ UNCHANGED mnCurrentRow
  <2>1. Calling(r)
    BY <1>6 DEF ReadField, ReadUndefined, Calling
  <2>2. \/ Raises(r) \/ Crashes(r)
        \/ \E value : Reads(r, c, value) /\ failed' \in {failed, failed \cup {r}}
    BY <1>6 DEF ReadField, ReadUndefined
  <2>3. QED
    BY <1>2, <1>3, <2>1, <2>2
<1>7. QED
  BY <1>4, <1>5, <1>6 DEF Read

\* A reader goes on to the next access: into a row only if it is there, out of
\* the call only after the last one.
Goes(r) ==
  \E next \in {"empty", "size", "loop", "check", "index", "move", "value", "done"} :
    /\ at' = [at EXCEPT ![r] = next]
    /\ UNCHANGED <<row, todo, entry, usersList, mnCurrentRow>>
    /\ next \in InRow => row[r] < mnRows
    /\ next = "value" => at[r] = "field"
    /\ next = "done" => ~(row[r] < mnRows)

\* In a quiet call there is a table, and nothing raises or is undefined.
LEMMA QuietAccess ==
  ASSUME TypeInv, ReadersInv, NEW r \in Reader, Read(r), ~Call(r), Undisturbed(r)
  PROVE  /\ Quiet(r) /\ seen[r] \in 1 .. Len(arrays)
         /\ mpaszResults = seen[r] /\ mnRows = Len(arrays[seen[r]])
         /\ r \notin failed'
         /\ \/ Goes(r)
            \/ MoveCursor(r) /\ row[r] < mnRows
            \/ \E c \in todo[r] :
                 /\ at[r] = "value" /\ mnCurrentRow \in 0 .. mnRows - 1
                 /\ Reads(r, c, arrays[seen[r]][mnCurrentRow + 1])
<1> USE DEF TypeInv, ReadersInv
<1>1. Calling(r) /\ Quiet(r) /\ r \notin failed /\ seen[r] # 0
  BY AccessFrame DEF Undisturbed, Quiet, CallInv
<1>2. refresher = "idle" /\ seen[r] = mpaszResults
  BY <1>1 DEF CallInv
<1>3. /\ mpaszResults = Len(arrays) /\ mpaszResults # 0
      /\ mnRows = Len(arrays[Len(arrays)]) /\ mpaszResults \notin freed
      /\ arrays[Len(arrays)] # << >> => mnCols = 1
  BY <1>1, <1>2 DEF RefresherInv, TypeOK
<1>4. seen[r] \in 1 .. Len(arrays)
  BY <1>1, <1>2, <1>3, LenProperties DEF TypeOK
<1>5. /\ at[r] \in InRow => row[r] < mnRows
      /\ at[r] \in {"field", "value"} => mnCurrentRow < mnRows
  BY <1>1, <1>3 DEF CallInv
<1>6. mnRows \in 0 .. MaxRows /\ mnCurrentRow \in 0 .. MaxRows - 1 /\ row[r] \in 0 .. MaxRows
  BY DEF TypeOK
<1>7. ASSUME NEW next \in {"empty", "size", "loop", "check", "index", "move", "value", "done"},
             GoesTo(r, next), UNCHANGED <<row, todo, entry, usersList, seen>>,
             next \in InRow => row[r] < mnRows,
             next = "value" => at[r] = "field",
             next = "done" => ~(row[r] < mnRows)
      PROVE  r \notin failed' /\ Goes(r)
  BY <1>1, <1>7 DEF GoesTo, Goes, tableVars
<1>8. CASE \/ AnyRows(r) \/ numRows(r) \/ setRow(r) \/ fieldValue(r)
  <2>1. ASSUME NEW next, checkResults(r, next)
        PROVE  GoesTo(r, next) /\ UNCHANGED <<row, todo, entry, usersList, seen>>
    BY <1>3, <2>1 DEF checkResults
  <2>2. r \notin failed' /\ Goes(r)
    BY <1>5, <1>7, <1>8, <2>1 DEF AnyRows, numRows, setRow, fieldValue, InRow
  <2>3. QED
    BY <1>1, <1>2, <1>3, <1>4, <2>2
<1>9. CASE NoUsers(r) \/ Loop(r) \/ setRowIndex(r)
  <2>1. mnRows = 0 => ~(row[r] < mnRows)
    BY <1>6, ResultTableAssumption
  <2>2. r \notin failed' /\ Goes(r)
    BY <1>5, <1>7, <1>9, <2>1 DEF NoUsers, Loop, setRowIndex, RowInRange, InRow
  <2>3. QED
    BY <1>1, <1>2, <1>3, <1>4, <2>2
<1>10. CASE MoveCursor(r)
  <2>1. r \notin failed' /\ row[r] < mnRows
    BY <1>1, <1>5, <1>10 DEF MoveCursor, InRow
  <2>2. QED
    BY <1>1, <1>2, <1>3, <1>4, <1>10, <2>1
<1>11. ASSUME NEW c \in Column, ReadField(r, c) \/ ReadUndefined(r, c)
       PROVE  /\ r \notin failed' /\ c \in todo[r] /\ at[r] = "value"
              /\ mnCurrentRow \in 0 .. mnRows - 1
              /\ Reads(r, c, arrays[seen[r]][mnCurrentRow + 1])
  <2>1. at[r] = "value" /\ c \in todo[r]
    BY <1>11 DEF ReadField, ReadUndefined
  <2>2. mnCurrentRow \in 0 .. mnRows - 1
    BY <1>5, <1>6, <2>1, ResultTableAssumption
  <2>3. Defined
    BY <1>3, <1>5, <2>1 DEF Defined
  <2>4. ReadField(r, c)
    BY <1>11, <2>3 DEF ReadUndefined
  <2>5. QED
    BY <1>1, <1>2, <2>1, <2>2, <2>4 DEF ReadField
<1>12. ~NoField(r)
  <2>1. SUFFICES ASSUME at[r] = "value" PROVE mnCols # 0
    BY DEF NoField
  <2>2. mnRows # 0
    BY <1>5, <1>6, <2>1, ResultTableAssumption
  <2>3. arrays[Len(arrays)] # << >>
    BY <1>3, <2>2
  <2>4. QED
    BY <1>3, <2>3
<1>13. QED
  BY <1>1, <1>2, <1>3, <1>4, <1>8, <1>9, <1>10, <1>11, <1>12 DEF Read

\* An access of a reader that has called keeps the cursor and the loops inside
\* the table as long as the call is quiet.
LEMMA AccessCallInv ==
  ASSUME TypeInv, ReadersInv, NEW r \in Reader, Read(r), ~Call(r)
  PROVE  CallInv'
<1> USE DEF TypeInv, ReadersInv
<1>1. Calling(r) /\ Frame(r)
  BY AccessFrame
<1>2. /\ UNCHANGED <<arrays, mpaszResults, mnRows, refresher, seen, overlap>>
      /\ \A s \in Reader \ {r} : /\ at'[s] = at[s]
                                 /\ row'[s] = row[s]
                                 /\ s \in failed' <=> s \in failed
  BY <1>1 DEF Frame
<1>3. \A s \in Reader : /\ Calling(s)' => Calling(s)
                        /\ Quiet(s)' => Quiet(s)
                        /\ Undisturbed(s)' <=> Undisturbed(s)
  BY <1>1, <1>2 DEF Calling, Quiet, Undisturbed
<1>4. \A a, b \in Reader : Quiet(a)' /\ Calling(b)' => Quiet(b)'
  BY <1>2, <1>3 DEF CallInv, Quiet
<1>5. \A a \in Reader : Quiet(a)' => refresher' = "idle" /\ seen'[a] = mpaszResults'
  BY <1>2, <1>3 DEF CallInv
<1>6. ASSUME NEW a \in Reader, Quiet(a)', mpaszResults' # 0
      PROVE  /\ row'[a] <= mnRows'
             /\ at'[a] \in InRow => row'[a] < mnRows'
             /\ at'[a] \in {"field", "value"} => mnCurrentRow' < mnRows'
  <2>1. Quiet(a) /\ Quiet(r) /\ mpaszResults # 0 /\ seen[r] = mpaszResults
    BY <1>1, <1>2, <1>3, <1>6 DEF CallInv
  <2>2. Undisturbed(r)
    BY <2>1 DEF Undisturbed, Quiet
  <2>3. /\ \A s \in {a, r} : /\ row[s] <= mnRows
                             /\ at[s] \in InRow => row[s] < mnRows
                             /\ at[s] \in {"field", "value"} => mnCurrentRow < mnRows
        /\ mnRows \in Nat /\ mnCurrentRow \in Nat /\ row \in [Reader -> Nat]
    BY <2>1, ResultTableAssumption DEF CallInv, TypeOK
  <2>4. \/ Goes(r)
        \/ MoveCursor(r) /\ row[r] < mnRows
        \/ \E c \in todo[r] : \E value : at[r] = "value" /\ Reads(r, c, value)
    BY <2>2, QuietAccess
  <2>5. mnCurrentRow' < mnRows \/ UNCHANGED mnCurrentRow
    BY <2>4 DEF Goes, MoveCursor, Reads, tableVars
  <2>6. CASE a # r
    BY <1>2, <2>3, <2>5, <2>6
  <2>7. CASE a = r
    <3>1. CASE Goes(r)
      BY <1>2, <2>3, <2>7, <3>1 DEF Goes, TypeOK, InRow
    <3>2. CASE MoveCursor(r) /\ row[r] < mnRows
      BY <1>2, <2>3, <2>7, <3>2 DEF MoveCursor, TypeOK, InRow
    <3>3. ASSUME NEW c \in todo[r], NEW value, at[r] = "value", Reads(r, c, value)
          PROVE  /\ row'[r] <= mnRows
                 /\ at'[r] \in InRow => row'[r] < mnRows
                 /\ at'[r] \in {"field", "value"} => mnCurrentRow' < mnRows
      <4>1. row[r] < mnRows /\ mnCurrentRow < mnRows
        BY <2>3, <3>3 DEF InRow
      <4>2. \/ at'[r] = "size" /\ row'[r] = row[r] + 1
            \/ at'[r] = "field" /\ row'[r] = row[r]
        BY <3>3 DEF Reads, TypeOK
      <4>3. UNCHANGED mnCurrentRow
        BY <3>3 DEF Reads, tableVars
      <4>4. QED
        BY <2>3, <4>1, <4>2, <4>3 DEF InRow
    <3>4. QED
      BY <1>2, <2>4, <2>7, <3>1, <3>2, <3>3
  <2>8. QED
    BY <2>6, <2>7
<1>7. \A s \in Reader : at'[s] = "idle" => seen'[s] = 0
  <2>1. at'[r] # "idle"
    <3>1. \A s : at' = [at EXCEPT ![r] = s] => at'[r] = s
      BY DEF TypeOK
    <3>2. at[r] # "idle"
      BY <1>1 DEF Calling
    <3>3. QED
      BY <3>1, <3>2 DEF Read, Call, AnyRows, NoUsers, numRows, Loop, setRow, setRowIndex,
           MoveCursor, fieldValue, NoField, ReadField, ReadUndefined, checkResults, GoesTo,
           Raises, Crashes, Reads, readerVars
  <2>2. QED
    BY <1>2, <2>1 DEF CallInv
<1>8. \A s \in Reader : Undisturbed(s)' => s \notin failed'
  BY <1>2, <1>3, QuietAccess DEF CallInv
<1>9. QED
  BY <1>4, <1>5, <1>6, <1>7, <1>8 DEF CallInv

\* What an access of the message thread, in a quiet call, does to its list.
LEMMA ListAccess ==
  ASSUME TypeInv, ReadersInv, Read("message"), ~Call("message"), Undisturbed("message")
  PROVE  /\ Calling("message")
         /\ Len(Users) = mnRows /\ DOMAIN Users = 1 .. mnRows
         /\ Len(usersList) = row["message"] /\ row["message"] \in 0 .. mnRows
         /\ \/ /\ UNCHANGED <<row, todo, entry, usersList, mnCurrentRow>>
               /\ Calling("message")' \/ row["message"] = mnRows
               /\ at'["message"] \in {"field", "value"} => at["message"] = "field"
            \/ /\ UNCHANGED <<row, entry, usersList>>
               /\ at'["message"] = "field" /\ todo'["message"] = Column
               /\ mnCurrentRow' = row["message"]
            \/ \E c \in todo["message"] :
                 LET read == [entry EXCEPT ![c] = Users[mnCurrentRow + 1]]
                 IN  /\ at["message"] = "value" /\ mnCurrentRow \in 0 .. mnRows - 1
                     /\ UNCHANGED mnCurrentRow
                     /\ \/ /\ todo["message"] = {c} /\ at'["message"] = "size"
                           /\ row'["message"] = row["message"] + 1
                           /\ usersList' = Append(usersList, read)
                        \/ /\ at'["message"] = "field" /\ todo'["message"] = todo["message"] \ {c}
                           /\ UNCHANGED <<row, usersList>>
                           /\ entry' = read
<1> USE DEF TypeInv, ReadersInv
<1> DEFINE r == "message"
<1>1. r \in Reader
  BY DEF Reader
<1>2. /\ Quiet(r) /\ seen[r] \in 1 .. Len(arrays)
      /\ mpaszResults = seen[r] /\ mnRows = Len(arrays[seen[r]])
      /\ \/ Goes(r)
         \/ MoveCursor(r) /\ row[r] < mnRows
         \/ \E c \in todo[r] :
              /\ at[r] = "value" /\ mnCurrentRow \in 0 .. mnRows - 1
              /\ Reads(r, c, arrays[seen[r]][mnCurrentRow + 1])
  BY <1>1, QuietAccess
<1>3. /\ Calling(r) /\ Len(Users) = mnRows /\ mnRows \in Nat
      /\ DOMAIN Users = 1 .. mnRows
  BY <1>2, ArrayType, ResultTableAssumption DEF Users, Quiet
<1>4. row[r] \in 0 .. mnRows
  BY <1>1, <1>2, <1>3, ResultTableAssumption DEF CallInv, TypeOK
<1>5. Len(usersList) = row[r]
  BY <1>3 DEF ListInv
<1>6. \A s : at' = [at EXCEPT ![r] = s] => at'[r] = s
  BY <1>1 DEF TypeOK
<1>7. CASE Goes(r)
  <2>1. PICK next \in {"empty", "size", "loop", "check", "index", "move", "value", "done"} :
          /\ at' = [at EXCEPT ![r] = next]
          /\ UNCHANGED <<row, todo, entry, usersList, mnCurrentRow>>
          /\ next = "value" => at[r] = "field"
          /\ next = "done" => ~(row[r] < mnRows)
    BY <1>7 DEF Goes
  <2>2. at'[r] = next
    BY <1>6, <2>1
  <2>3. Calling(r)' \/ row[r] = mnRows
    BY <1>3, <1>4, <2>1, <2>2 DEF Calling
  <2>4. QED
    BY <1>3, <1>4, <1>5, <2>1, <2>2, <2>3
<1>8. CASE MoveCursor(r)
  BY <1>1, <1>3, <1>4, <1>5, <1>8 DEF MoveCursor, TypeOK, Columns
<1>9. ASSUME NEW c \in todo[r], at[r] = "value", mnCurrentRow \in 0 .. mnRows - 1,
             Reads(r, c, arrays[seen[r]][mnCurrentRow + 1])
      PROVE  LET read == [entry EXCEPT ![c] = Users[mnCurrentRow + 1]]
             IN  /\ UNCHANGED mnCurrentRow
                 /\ \/ /\ todo[r] = {c} /\ at'[r] = "size"
                       /\ row'[r] = row[r] + 1
                       /\ usersList' = Append(usersList, read)
                    \/ /\ at'[r] = "field" /\ todo'[r] = todo[r] \ {c}
                       /\ UNCHANGED <<row, usersList>>
                       /\ entry' = read
  BY <1>1, <1>9 DEF Reads, TypeOK, tableVars, Users
<1>10. QED
  BY <1>2, <1>3, <1>4, <1>5, <1>7, <1>8, <1>9

\* The entries stay what is in the table, and there is one for each row.
LEMMA AccessListInv ==
  ASSUME TypeInv, ReadersInv, NEW r \in Reader, Read(r), ~Call(r)
  PROVE  ListInv'
<1> USE DEF TypeInv, ReadersInv
<1>1. Calling(r) /\ Frame(r)
  BY AccessFrame
<1>2. /\ UNCHANGED <<arrays, seen, overlap>> /\ Users' = Users
      /\ Undisturbed("message")' <=> Undisturbed("message")
  BY <1>1 DEF Frame, Users, Undisturbed
<1>3. "message" \in Reader
  BY DEF Reader
<1>4. CASE r # "message"
  <2>1. /\ UNCHANGED <<usersList, entry>>
        /\ at'["message"] = at["message"] /\ row'["message"] = row["message"]
        /\ todo'["message"] = todo["message"]
    BY <1>1, <1>3, <1>4 DEF Frame
  <2>2. QED
    BY <1>2, <2>1 DEF ListInv, Calling
<1>5. CASE r = "message"
  <2> SUFFICES ASSUME Undisturbed("message")
               PROVE  /\ \A i \in DOMAIN usersList', c \in Column :
                           \E j \in DOMAIN Users : usersList'[i][c] = Users[j]
                      /\ Len(usersList') = IF Calling("message")' THEN row'["message"]
                                                                  ELSE Len(Users)
                      /\ at'["message"] \in {"field", "value"} =>
                           \A c \in Column \ todo'["message"] :
                             \E j \in DOMAIN Users : entry'[c] = Users[j]
    BY <1>2 DEF ListInv
  <2>1. /\ Calling("message")
        /\ Len(Users) = mnRows /\ DOMAIN Users = 1 .. mnRows
        /\ Len(usersList) = row["message"] /\ row["message"] \in 0 .. mnRows
    BY <1>5, ListAccess
  <2>2. /\ \A i \in DOMAIN usersList, c \in Column :
             \E j \in DOMAIN Users : usersList[i][c] = Users[j]
        /\ at["message"] \in {"field", "value"} =>
             \A c \in Column \ todo["message"] : \E j \in DOMAIN Users : entry[c] = Users[j]
    BY DEF ListInv
  <2>3. CASE /\ UNCHANGED <<row, todo, entry, usersList, mnCurrentRow>>
             /\ Calling("message")' \/ row["message"] = mnRows
             /\ at'["message"] \in {"field", "value"} => at["message"] = "field"
    BY <2>1, <2>2, <2>3
  <2>4. CASE /\ UNCHANGED <<row, entry, usersList>>
             /\ at'["message"] = "field" /\ todo'["message"] = Column
             /\ mnCurrentRow' = row["message"]
    BY <2>1, <2>2, <2>4 DEF Calling
  <2>5. ASSUME NEW c \in todo["message"], at["message"] = "value",
               mnCurrentRow \in 0 .. mnRows - 1,
               NEW read, read = [entry EXCEPT ![c] = Users[mnCurrentRow + 1]],
               \/ /\ todo["message"] = {c} /\ at'["message"] = "size"
                  /\ row'["message"] = row["message"] + 1
                  /\ usersList' = Append(usersList, read)
               \/ /\ at'["message"] = "field" /\ todo'["message"] = todo["message"] \ {c}
                  /\ UNCHANGED <<row, usersList>>
                  /\ entry' = read
        PROVE  /\ \A i \in DOMAIN usersList', d \in Column :
                    \E j \in DOMAIN Users : usersList'[i][d] = Users[j]
               /\ Len(usersList') = IF Calling("message")' THEN row'["message"]
                                                           ELSE Len(Users)
               /\ at'["message"] \in {"field", "value"} =>
                    \A d \in Column \ todo'["message"] :
                      \E j \in DOMAIN Users : entry'[d] = Users[j]
    <3>1. c \in Column /\ mnCurrentRow + 1 \in DOMAIN Users
      BY <1>3, <2>1, <2>5 DEF TypeOK
    <3>2. \A d \in Column \ (todo["message"] \ {c}) :
            \E j \in DOMAIN Users : read[d] = Users[j]
      <4>1. \A d \in Column : read[d] = IF d = c THEN Users[mnCurrentRow + 1] ELSE entry[d]
        BY <2>5, <3>1 DEF TypeOK
      <4>2. QED
        BY <2>2, <2>5, <3>1, <4>1
    <3>3. CASE /\ todo["message"] = {c} /\ at'["message"] = "size"
               /\ row'["message"] = row["message"] + 1
               /\ usersList' = Append(usersList, read)
      <4>1. usersList \in Seq([Column -> User \cup {Garbage}]) /\ Len(usersList) \in Nat
        BY <2>1 DEF TypeOK
      <4>2. read \in [Column -> User \cup {Garbage}]
        <5>1. Users[mnCurrentRow + 1] \in User
          BY <2>1, <3>1, QuietAccess, ArrayType, <1>3, <1>5 DEF Users
        <5>2. QED
          BY <2>5, <5>1 DEF TypeOK
      <4>3. /\ Len(usersList') = Len(usersList) + 1 /\ DOMAIN usersList' = 1 .. Len(usersList')
            /\ DOMAIN usersList = 1 .. Len(usersList)
            /\ \A i \in 1 .. Len(usersList) : usersList'[i] = usersList[i]
            /\ usersList'[Len(usersList) + 1] = read
        BY <3>3, <4>1, <4>2, AppendProperties, LenProperties
      <4>4. \A d \in Column : \E j \in DOMAIN Users : read[d] = Users[j]
        BY <3>2, <3>3
      <4>5. \A i \in DOMAIN usersList' : i \in DOMAIN usersList \/ i = Len(usersList) + 1
        BY <4>1, <4>3
      <4>6. \A i \in DOMAIN usersList', d \in Column :
              \E j \in DOMAIN Users : usersList'[i][d] = Users[j]
        BY <2>2, <4>3, <4>4, <4>5
      <4>7. QED
        BY <2>1, <3>3, <4>3, <4>6 DEF Calling
    <3>4. CASE /\ at'["message"] = "field" /\ todo'["message"] = todo["message"] \ {c}
               /\ UNCHANGED <<row, usersList>>
               /\ entry' = read
      BY <2>1, <2>2, <3>2, <3>4 DEF Calling
    <3>5. QED
      BY <2>5, <3>3, <3>4
  <2>6. QED
    BY <1>5, <2>3, <2>4, <2>5, ListAccess
<1>6. QED
  BY <1>4, <1>5

\* Alone, the cursor stays on the row of the loop, and the row that is read is
\* the one that comes next in the list.
LEMMA AccessAloneInv ==
  ASSUME TypeInv, ReadersInv, NEW r \in Reader, Read(r), ~Call(r)
  PROVE  AloneInv'
<1> USE DEF TypeInv, ReadersInv
<1>1. Calling(r) /\ Frame(r)
  BY AccessFrame
<1>2. "message" \in Reader /\ "console" \in Reader
  BY DEF Reader
<1> SUFFICES ASSUME seen'["message"] # 0, overlap'["message"] = {}
             PROVE  AloneInv'
  BY DEF AloneInv
<1>3. /\ seen["message"] # 0 /\ overlap["message"] = {}
      /\ UNCHANGED <<seen, overlap>> /\ Users' = Users
  BY <1>1 DEF Frame, Users
<1>4. /\ Calling("message") => ~Calling("console")
      /\ \A i \in DOMAIN usersList : usersList[i] = [d \in Column |-> Users[i]]
      /\ at["message"] \in {"field", "value"} =>
           /\ mnCurrentRow = row["message"]
           /\ \A d \in Column \ todo["message"] : entry[d] = Users[row["message"] + 1]
  BY <1>3 DEF AloneInv
<1>5. CASE r = "console"
  <2>1. ~Calling("message") /\ ~Calling("message")' /\ UNCHANGED usersList
    BY <1>1, <1>2, <1>4, <1>5 DEF Frame, Calling
  <2>2. QED
    BY <1>3, <1>4, <2>1 DEF AloneInv, Calling
<1>6. CASE r = "message"
  <2>1. Undisturbed("message") /\ ~Calling("console")'
    BY <1>1, <1>2, <1>3, <1>4, <1>6 DEF Undisturbed, Frame, Calling
  <2>2. /\ DOMAIN Users = 1 .. mnRows
        /\ Len(usersList) = row["message"] /\ row["message"] \in 0 .. mnRows
    BY <1>6, <2>1, ListAccess
  <2> SUFFICES /\ \A i \in DOMAIN usersList' : usersList'[i] = [d \in Column |-> Users[i]]
               /\ at'["message"] \in {"field", "value"} =>
                    /\ mnCurrentRow' = row'["message"]
                    /\ \A d \in Column \ todo'["message"] :
                         entry'[d] = Users[row'["message"] + 1]
    BY <1>3, <2>1 DEF AloneInv
  <2>3. CASE /\ UNCHANGED <<row, todo, entry, usersList, mnCurrentRow>>
             /\ at'["message"] \in {"field", "value"} => at["message"] = "field"
    BY <1>4, <2>3
  <2>4. CASE /\ UNCHANGED <<row, entry, usersList>>
             /\ at'["message"] = "field" /\ todo'["message"] = Column
             /\ mnCurrentRow' = row["message"]
    BY <1>4, <2>4
  <2>5. ASSUME NEW c \in todo["message"], at["message"] = "value", UNCHANGED mnCurrentRow,
               NEW read, read = [entry EXCEPT ![c] = Users[mnCurrentRow + 1]],
               \/ /\ todo["message"] = {c} /\ at'["message"] = "size"
                  /\ row'["message"] = row["message"] + 1
                  /\ usersList' = Append(usersList, read)
               \/ /\ at'["message"] = "field" /\ todo'["message"] = todo["message"] \ {c}
                  /\ UNCHANGED <<row, usersList>>
                  /\ entry' = read
        PROVE  /\ \A i \in DOMAIN usersList' : usersList'[i] = [d \in Column |-> Users[i]]
               /\ at'["message"] \in {"field", "value"} =>
                    /\ mnCurrentRow' = row'["message"]
                    /\ \A d \in Column \ todo'["message"] :
                         entry'[d] = Users[row'["message"] + 1]
    <3>1. \A d \in Column : read[d] = IF d = c THEN Users[row["message"] + 1] ELSE entry[d]
      BY <1>4, <2>5 DEF TypeOK
    <3>2. \A d \in Column \ (todo["message"] \ {c}) : read[d] = Users[row["message"] + 1]
      BY <1>4, <2>5, <3>1
    <3>3. CASE /\ todo["message"] = {c} /\ at'["message"] = "size"
               /\ row'["message"] = row["message"] + 1
               /\ usersList' = Append(usersList, read)
      <4>1. read = [d \in Column |-> Users[row["message"] + 1]]
        <5>1. DOMAIN read = Column
          BY <2>5 DEF TypeOK
        <5>2. read = [d \in Column |-> read[d]]
          BY <2>5, <5>1 DEF TypeOK
        <5>3. QED
          BY <3>2, <3>3, <5>2
      <4>2. usersList \in Seq([Column -> User \cup {Garbage}]) /\ Len(usersList) \in Nat
        BY <2>2 DEF TypeOK
      <4>3. /\ DOMAIN usersList' = 1 .. Len(usersList) + 1
            /\ DOMAIN usersList = 1 .. Len(usersList)
            /\ \A i \in 1 .. Len(usersList) : usersList'[i] = usersList[i]
            /\ usersList'[Len(usersList) + 1] = read
        BY <3>3, <4>2
      <4>4. \A i \in DOMAIN usersList' : i \in DOMAIN usersList \/ i = row["message"] + 1
        BY <2>2, <4>2, <4>3
      <4>5. ASSUME NEW i \in DOMAIN usersList'
            PROVE  usersList'[i] = [d \in Column |-> Users[i]]
        <5>1. CASE i \in DOMAIN usersList
          BY <1>4, <4>3, <5>1
        <5>2. CASE i = row["message"] + 1
          BY <2>2, <4>1, <4>3, <5>2
        <5>3. QED
          BY <4>4, <5>1, <5>2
      <4>6. QED
        BY <3>3, <4>5
    <3>4. CASE /\ at'["message"] = "field" /\ todo'["message"] = todo["message"] \ {c}
               /\ UNCHANGED <<row, usersList>>
               /\ entry' = read
      BY <1>4, <2>5, <3>2, <3>4
    <3>5. QED
      BY <2>5, <3>3, <3>4
  <2>6. QED
    BY <1>6, <2>1, <2>3, <2>4, <2>5, ListAccess
<1>7. QED
  BY <1>5, <1>6 DEF Reader

-----------------------------------------------------------------------------
(* The invariants.                                                         *)

\* Every step keeps what the readers rely on.
LEMMA ReadersInvStep ==
  ASSUME TypeInv, ReadersInv, [Next]_vars
  PROVE  ReadersInv'
<1>1. CASE UNCHANGED vars
  BY <1>1 DEF vars, tableVars, readerVars, ReadersInv, CallInv, ListInv, AloneInv, Quiet,
              Calling, Undisturbed, Users, InRow
<1>2. CASE Refresher
  BY <1>2, RefresherReadersInv
<1>3. ASSUME NEW r \in Reader, Read(r)
      PROVE  ReadersInv'
  BY <1>3, CallReadersInv, AccessCallInv, AccessListInv, AccessAloneInv DEF ReadersInv
<1>4. QED
  BY <1>1, <1>2, <1>3 DEF Next

LEMMA ReadersInvInit == Init => ReadersInv
<1> SUFFICES ASSUME Init PROVE ReadersInv
  OBVIOUS
<1>1. /\ \A r \in Reader : ~Calling(r) /\ seen[r] = 0 /\ failed = {}
      /\ seen["message"] = 0
  BY DEF Init, Calling, Reader
<1>2. QED
  BY <1>1 DEF ReadersInv, CallInv, ListInv, AloneInv, Quiet, Undisturbed

LEMMA ReadersInvInvariant == Spec => [](TypeInv /\ ReadersInv)
BY ReadersInvInit, ReadersInvStep, TypeInvInvariant, PTL DEF Spec

\* As long as no refresh falls into the call of either, the console and the
\* message thread only mix the rows the other reads.
THEOREM ReadersOnlyMixRows == Spec => []ReadersOnlyMix
<1>1. ASSUME TypeInv, ReadersInv
      PROVE  ReadersOnlyMix
  BY <1>1 DEF ReadersInv, CallInv, ListInv, ReadersOnlyMix, Returned, Users, Calling
<1>2. QED
  BY <1>1, ReadersInvInvariant, PTL

\* A call of getUsersList that nothing overlaps returns the rows of the table.
THEOREM AloneReadsRows == Spec => []AloneReturnsRows
<1>1. ASSUME TypeInv, ReadersInv, Returned, overlap["message"] = {}
      PROVE  "message" \notin failed /\ usersList = Rows(Users)
  <2>1. /\ "message" \in Reader /\ Undisturbed("message") /\ ~Calling("message")
        /\ seen["message"] # 0
    BY <1>1 DEF Returned, Undisturbed, Calling, Reader
  <2>2. /\ "message" \notin failed /\ Len(usersList) = Len(Users)
        /\ \A i \in DOMAIN usersList : usersList[i] = [c \in Column |-> Users[i]]
    BY <1>1, <2>1 DEF ReadersInv, CallInv, ListInv, AloneInv
  <2>3. /\ usersList \in Seq([Column -> User \cup {Garbage}])
        /\ seen["message"] \in 1 .. Len(arrays)
    BY <1>1, <2>1, LenProperties DEF TypeInv, TypeOK
  <2>4. DOMAIN Users = 1 .. Len(Users)
    BY <1>1, <2>3, ArrayType DEF TypeInv, Users
  <2>5. DOMAIN usersList = DOMAIN Users
    BY <2>2, <2>3, <2>4
  <2>6. usersList = [i \in DOMAIN usersList |-> usersList[i]]
    BY <2>3
  <2>7. QED
    BY <2>2, <2>5, <2>6 DEF Rows
<1>2. TypeInv /\ ReadersInv => AloneReturnsRows
  BY <1>1 DEF AloneReturnsRows, Users
<1>3. QED
  BY <1>2, ReadersInvInvariant, PTL
=============================================================================
