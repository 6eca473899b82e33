---------------------------- MODULE LobbyClient -----------------------------
(***************************************************************************)
(* The client machine: the GUI, which the user may start again after it    *)
(* was killed, the daemon's main thread, and the shared memory in which    *)
(* both leave elements for each other (InterprocessReadWrite), on top of   *)
(* the daemon's connection.                                                *)
(*                                                                         *)
(* A slot of the shared memory holds one element.  find, construct and     *)
(* destroy of the segment are atomic, and a slot has one reader and one    *)
(* writer, so read and tryWrite are one step; a loop that polls is a guard.*)
(***************************************************************************)
EXTENDS Client

CONSTANTS
  None,          \* an empty slot
  MaxCommands,   \* bound: elements the GUI writes
  MaxPrinted,    \* bound: lines on the screen when one is printed again
  MaxKills       \* bound: how often the GUI is killed

ASSUME LobbyAssumption ==
  /\ MaxCommands \in Nat
  /\ MaxPrinted \in Nat
  /\ MaxKills \in Nat

VARIABLES
  toDaemon,  \* the slot "deamon"
  toGui,     \* the slot "gui"
  daemon,    \* the daemon's main thread: "reads", "closes", "joins" or "ended"
  gui,       \* the GUI: "off", "writes", "reads", "menu", "asks" or "ended"
  command,   \* the element the GUI writes or has written last
  playing,   \* the GUI lists the games for "play game"
  element,   \* the element readGui has read last
  printed,   \* the lines readGui has printed
  commands,  \* how many elements have been written
  kills      \* how often the GUI has been killed

guiVars  == <<gui, command, playing, element, printed, commands, kills>>
slotVars == <<toDaemon, toGui>>
vars     == <<clientVars, slotVars, daemon, guiVars>>

Menu == {"PT_GET_USERS", "PT_GET_GAMES", "PT_DISCONNECT"}

CommandType == Menu \cup {"PT_CONNECT", "PT_BEGIN_GAME"}

Command == [type : CommandType, n : 1 .. MaxCommands]

Element == [type : {"PT_NONE", "PT_STRING_BEGIN", "PT_STRING", "PT_STRING_END"},
            n : 0 .. MaxCommands, line : 0 .. MaxLines]

ASSUME NoneAssumption == None \notin Command \cup Element

NoElement == [type |-> "PT_NONE", n |-> 0, line |-> 0]

Off ==
  /\ gui' = "off"
  /\ playing' = FALSE
  /\ element' = NoElement
  /\ printed' = << >>

Init ==
  /\ ClientInit
  /\ toDaemon = None
  /\ toGui = None
  /\ daemon = "reads"
  /\ gui = "off"
  /\ command = None
  /\ playing = FALSE
  /\ element = NoElement
  /\ printed = << >>
  /\ commands = 0
  /\ kills = 0

-----------------------------------------------------------------------------
(* The GUI *)

Writes(type) ==
  /\ commands < MaxCommands
  /\ commands' = commands + 1
  /\ command' = [type |-> type, n |-> commands + 1]
  /\ gui' = "writes"

Start ==
  /\ gui = "off"
  /\ Writes("PT_CONNECT")
  /\ UNCHANGED <<clientVars, slotVars, daemon, playing, element, printed, kills>>

Choose(type) ==
  /\ gui = "menu"
  /\ type \in Menu
  /\ Writes(type)
  /\ playing' = FALSE
  /\ UNCHANGED <<clientVars, slotVars, daemon, element, printed, kills>>

(* playGame lists the games first, then asks which one.                    *)
ChooseGame ==
  /\ gui = "menu"
  /\ Writes("PT_GET_GAMES")
  /\ playing' = TRUE
  /\ UNCHANGED <<clientVars, slotVars, daemon, element, printed, kills>>

EnterGame ==
  /\ gui = "asks"
  /\ Writes("PT_BEGIN_GAME")
  /\ playing' = FALSE
  /\ UNCHANGED <<clientVars, slotVars, daemon, element, printed, kills>>

\* Mutant of GuiWrite: an element nobody has read yet is replaced.
GuiOverwrite ==
  /\ gui = "writes"
  /\ toDaemon' = command
  /\ gui' = CASE command.type \in {"PT_GET_USERS", "PT_GET_GAMES"} -> "reads"
              [] command.type = "PT_DISCONNECT" -> "ended"
              [] OTHER -> "menu"
  /\ element' = NoElement
  /\ printed' = << >>
  /\ UNCHANGED <<clientVars, toGui, daemon, command, playing, commands, kills>>

(* write has found the slot empty; what the GUI does next.                 *)
GuiWrite ==
  /\ gui = "writes"
  /\ toDaemon = None
  /\ toDaemon' = command
  /\ gui' = CASE command.type \in {"PT_GET_USERS", "PT_GET_GAMES"} -> "reads"
              [] command.type = "PT_DISCONNECT" -> "ended"
              [] OTHER -> "menu"
  /\ element' = NoElement
  /\ printed' = << >>
  /\ UNCHANGED <<clientVars, toGui, daemon, command, playing, commands, kills>>

Prints(e) == IF e.type = "PT_STRING" THEN Append(printed, <<e.n, e.line>>) ELSE printed

(* A round of readGui that reads an element.                               *)
readGui ==
  /\ gui = "reads"
  /\ toGui # None
  /\ toGui' = None
  /\ element' = toGui
  /\ printed' = Prints(toGui)
  /\ gui' = IF toGui.type \in {"PT_STRING_BEGIN", "PT_STRING"} THEN gui
            ELSE IF playing THEN "asks" ELSE "menu"
  /\ UNCHANGED <<clientVars, toDaemon, daemon, command, playing, commands, kills>>

(* A round that finds the slot empty looks at the element it has read      *)
(* before, and prints it again if it is a line.                            *)
readGuiAgain ==
  /\ gui = "reads"
  /\ toGui = None
  /\ element.type = "PT_STRING" /\ Len(printed) < MaxPrinted
  /\ printed' = Prints(element)
  /\ UNCHANGED <<clientVars, slotVars, daemon, gui, command, playing, element, commands, kills>>

Kill ==
  /\ gui \notin {"off", "ended"}
  /\ kills < MaxKills
  /\ kills' = kills + 1
  /\ Off
  /\ UNCHANGED <<clientVars, slotVars, daemon, command, commands>>

-----------------------------------------------------------------------------
(* The daemon's main thread *)

MsgType(t) ==
  CASE t = "PT_GET_USERS"  -> "MT_GET_USERS"
    [] t = "PT_GET_GAMES"  -> "MT_GET_GAMES"
    [] t = "PT_BEGIN_GAME" -> "MT_BEGIN_GAME"
    [] t = "PT_CONNECT"    -> "MT_SET_NAME"
    [] t = "PT_DISCONNECT" -> "MT_DISCONNECT"

readDeamon ==
  /\ daemon = "reads"
  /\ toDaemon # None
  /\ toDaemon' = None
  /\ write([type |-> MsgType(toDaemon.type), n |-> toDaemon.n, id |-> id])
  /\ daemon' = IF toDaemon.type = "PT_DISCONNECT" THEN "closes" ELSE "reads"
  /\ UNCHANGED <<toGui, guiVars, run, connecting, endpoints, socketVars, id, elements, serverVars>>

\* Mutant of DaemonCloses: the thread is joined without closing.
DaemonJoinsOnly ==
  /\ daemon = "closes"
  /\ daemon' = "joins"
  /\ UNCHANGED <<clientVars, slotVars, guiVars>>

DaemonCloses ==
  /\ daemon = "closes"
  /\ close
  /\ daemon' = "joins"
  /\ UNCHANGED <<slotVars, guiVars, run, connecting, endpoints, socketVars, id, elements, serverVars>>

DaemonJoins ==
  /\ daemon = "joins"
  /\ ~run
  /\ daemon' = "ended"
  /\ UNCHANGED <<clientVars, slotVars, guiVars>>

(* write of OnRecv, in the thread that runs the io_service.                *)
OnRecvWrite ==
  /\ run
  /\ elements # << >>
  /\ toGui = None
  /\ toGui' = Head(elements)
  /\ Written
  /\ UNCHANGED <<toDaemon, daemon, guiVars>>

-----------------------------------------------------------------------------
Gui ==
  \/ Start
  \/ \E type \in Menu : Choose(type)
  \/ ChooseGame
  \/ EnterGame
  \/ GuiWrite
  \/ readGui
  \/ readGuiAgain
  \/ Kill

Daemon == readDeamon \/ DaemonCloses \/ DaemonJoins \/ OnRecvWrite

Connection == (IoThread \/ Server) /\ UNCHANGED <<slotVars, daemon, guiVars>>

Next == Gui \/ Daemon \/ Connection

(* The processes poll, completed operations are handled, and the server    *)
(* reads; nothing is assumed of the user.                                  *)
Fairness ==
  /\ WF_vars(GuiWrite)
  /\ WF_vars(readGui)
  /\ WF_vars(readDeamon)
  /\ WF_vars(DaemonCloses)
  /\ WF_vars(DaemonJoins)
  /\ WF_vars(OnRecvWrite)
  /\ WF_vars((HandleConnect \/ HandleConnectFails) /\ UNCHANGED <<slotVars, daemon, guiVars>>)
  /\ WF_vars((HandleReadHeader \/ HandleReadBody) /\ UNCHANGED <<slotVars, daemon, guiVars>>)
  /\ WF_vars(HandleReadFails /\ UNCHANGED <<slotVars, daemon, guiVars>>)
  /\ WF_vars((DoWrite \/ DoClose) /\ UNCHANGED <<slotVars, daemon, guiVars>>)
  /\ WF_vars((HandleWrite \/ HandleWriteFails) /\ UNCHANGED <<slotVars, daemon, guiVars>>)
  /\ WF_vars(RunReturns /\ UNCHANGED <<slotVars, daemon, guiVars>>)
  /\ WF_vars(ServerReads /\ UNCHANGED <<slotVars, daemon, guiVars>>)

Spec == Init /\ [][Next]_vars /\ Fairness

-----------------------------------------------------------------------------
Message == [type : RequestType,
            n : 1 .. MaxCommands, id : SessionIds \cup {0}]

ConnectionOK ==
  /\ run \in BOOLEAN
  /\ posted \in Seq(Message \cup {Close})
  /\ socket \in {"opening", "open", "closed"}
  /\ connecting \in BOOLEAN
  /\ endpoints \in 0 .. Endpoints - 1
  /\ reading \in {"none", "header", "body", "other"}
  /\ writing \in BOOLEAN
  /\ write_msgs \in Seq(Message)
  /\ writing => write_msgs # << >>
  /\ id \in {0, sessionId}
  /\ sessionId \in SessionIds \cup {0}
  /\ elements \in Seq(Element)
  /\ server \in {"up", "lost"}
  /\ up \in Seq(Message)
  /\ answered \in 0 .. Len(up)
  /\ down \in Seq([type : Query \cup {"MT_SET_ID"}, n : 0 .. MaxCommands, lines : 0 .. MaxLines])

MachineOK ==
  /\ toDaemon \in Command \cup {None}
  /\ toGui \in Element \cup {None}
  /\ daemon \in {"reads", "closes", "joins", "ended"}
  /\ gui \in {"off", "writes", "reads", "menu", "asks", "ended"}
  /\ command \in Command \cup {None}
  /\ playing \in BOOLEAN
  /\ element \in Element
  /\ printed \in Seq((0 .. MaxCommands) \X (0 .. MaxLines))
  /\ commands \in 0 .. MaxCommands
  /\ kills \in 0 .. MaxKills

(* The values of the variables; a write is of a packet of the queue, and   *)
(* the client has no other id than the one the server has given it.        *)
TypeOK == ConnectionOK /\ MachineOK

(* Commands reach the server in the order in which they were given and     *)
(* each once, through the slot, the posted handlers and the write queue,   *)
(* and none is missing before one that arrived, whatever fails; only a GUI *)
(* that is killed may drop the one it was about to write.                  *)
CommandsInOrder ==
  /\ \A i \in 1 .. Len(up) - 1 : up[i].n < up[i + 1].n
  /\ kills = 0 => \A i \in 1 .. Len(up) : up[i].n = i

(* The way of the commands implements CommandQueue: what the server gets   *)
(* are the requests the GUI has written, with their types, in order and    *)
(* each once, and none after a request to disconnect.                      *)
Request(p) == [type |-> p.type, n |-> p.n]

Requests(s) == [i \in {j \in DOMAIN s : s[j] # Close} |-> Request(s[i])]

RequestOf(c) == [type |-> MsgType(c.type), n |-> c.n]

Sent == up \o (write_msgs \o posted)

Q == INSTANCE CommandQueue WITH
       Type     <- RequestType,
       open     <- gui # "ended",
       count    <- commands,
       offer    <- IF gui = "writes" THEN <<RequestOf(command)>> ELSE << >>,
       issued   <- Requests(Sent) \o (IF toDaemon = None THEN << >> ELSE <<RequestOf(toDaemon)>>),
       received <- Requests(up)

ImplementsCommandQueue == Q!QueueSpec

(* What is on the screen is a part of one list, in order and without gaps: *)
(* a line is followed by itself, as often as readGui finds nothing to      *)
(* read, or by the next line of its list, also when a GUI was killed while *)
(* it read a list and the next one finds the rest.                         *)
OneAnswer ==
  \A i \in 1 .. Len(printed) - 1 :
    printed[i + 1] \in {printed[i], <<printed[i][1], printed[i][2] + 1>>}

Shown == {printed[i] : i \in DOMAIN printed}

(* If no GUI was killed it is the answer to the command given last: all of *)
(* its lines up to the one read last, hence the whole list when the menu   *)
(* comes back, and nothing is left over for the next command.              *)
AnswerShown ==
  kills = 0 =>
    /\ gui # "writes" => \A line \in Shown : line[1] = command.n
    /\ element.type \in {"PT_STRING", "PT_STRING_END"} =>
         Shown = {element.n} \X (1 .. element.line)
    /\ gui \in {"menu", "asks"} => toGui = None /\ elements = << >>

(* The server finds in the header of a packet what the client has put      *)
(* there, wherever the compiler places the arrays, as long as the id of    *)
(* the session has at most three digits: the blank such a number begins    *)
(* with ends the field before it, and from 1000 on there is none.          *)
HeaderSurvives ==
  up # << >> /\ up[Len(up)].id <= 999 =>
    \A length \in BodyLengths : \A layout \in Layout :
      LET h == HeaderOf(up[Len(up)].type, up[Len(up)].id, length)
      IN  decode_header(encode_header(h), layout) = h

(* The client cannot write any more: there is no connection, or it is the  *)
(* one of a second attempt and the queue waits for a write of the first.   *)
Mute ==
  \/ socket # "open" /\ ~connecting
  \/ endpoints < Endpoints - 1 /\ write_msgs # << >> /\ ~writing

(* A list that was asked for comes up and the GUI goes back to its menu,   *)
(* unless the connection or the GUI is gone, or the id of the session is   *)
(* one that headers cannot carry.                                          *)
MenuReturns ==
  gui = "reads" ~>
    gui \in {"menu", "asks"} \/ kills > 0 \/ server = "lost" \/ Mute \/ sessionId > 999

(* If the user quits after the connect has completed the daemon closes the *)
(* connection and ends, whatever became of the connection; only a GUI that *)
(* was killed may leave it writing into a slot nobody reads.               *)
DaemonEnds ==
  gui = "ended" /\ daemon = "reads" /\ ~connecting ~> daemon = "ended" \/ kills > 0

(* The same whenever the user quits: close is said to close the connection.*)
QuitEnds == gui = "ended" ~> daemon = "ended" \/ kills > 0
=============================================================================
