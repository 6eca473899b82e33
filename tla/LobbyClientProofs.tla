------------------------- MODULE LobbyClientProofs -------------------------
(***************************************************************************)
(* Proofs about the client machine, for any numbers of endpoints, session  *)
(* ids, lines, commands and killed GUIs: TypeOK, CommandsInOrder,          *)
(* OneAnswer, AnswerShown and HeaderSurvives are invariants, and the       *)
(* machine implements CommandQueue.                                        *)
(***************************************************************************)
EXTENDS LobbyClient, PacketHeaderProofs, SequenceTheorems, TLAPS

-----------------------------------------------------------------------------
(* The inductive invariants.                                               *)

\* There is one connect that succeeds: as long as it is tried nothing has come.
Connects ==
  connecting =>
    /\ socket # "open"
    /\ sessionId = 0 /\ id = 0
    /\ reading = "none" /\ elements = << >>
    /\ up = << >> /\ down = << >>

\* With this, the types are kept.
TypeInv ==
  /\ TypeOK
  /\ Connects
  /\ gui = "writes" => command \in Command

\* The numbers grow along the way from the server back to the GUI.
OrderInv ==
  /\ \A i \in DOMAIN Sent : Sent[i] = Close => i = Len(Sent) /\ daemon \in {"joins", "ended"}
  /\ \A i, j \in DOMAIN Sent : i < j /\ Sent[j] # Close => Sent[i].n < Sent[j].n
  /\ \A i \in DOMAIN Sent :
       /\ Sent[i].n <= commands
       /\ toDaemon # None => Sent[i].n < toDaemon.n
       /\ gui = "writes" => Sent[i].n < commands
  /\ toDaemon # None => toDaemon.n <= commands /\ (gui = "writes" => toDaemon.n < commands)
  /\ gui = "writes" => command.n = commands

\* If no GUI was killed, none is left out.
GaplessInv ==
  kills = 0 =>
    /\ \A i \in DOMAIN Sent : Sent[i] # Close => Sent[i].n = i
    /\ toDaemon # None => toDaemon.n = Len(Sent) + 1
    /\ toDaemon # None /\ toDaemon.type = "PT_DISCONNECT" => gui = "ended"
    /\ daemon # "reads" => gui = "ended" /\ toDaemon = None
    /\ daemon = "reads" =>
         commands = Len(Sent) + (IF toDaemon = None THEN 0 ELSE 1)
                              + (IF gui = "writes" THEN 1 ELSE 0)

CommandInv == OrderInv /\ GaplessInv

\* b comes after a in the shared memory: the lines of one list between its
\* marks, or the next list.
Follows(a, b) ==
  \/ /\ a.type \in {"PT_STRING_BEGIN", "PT_STRING"}
     /\ b.n = a.n
     /\ \/ b.type = "PT_STRING" /\ b.line = a.line + 1
        \/ b.type = "PT_STRING_END" /\ b.line = a.line
  \/ /\ a.type = "PT_STRING_END"
     /\ b.type = "PT_STRING_BEGIN"
     /\ b.line = 0

\* What is on its way to the GUI, or has just been read by it, is in order and
\* ends with the end of a list.
ListInv ==
  /\ \A i \in 1 .. Len(elements) - 1 : Follows(elements[i], elements[i + 1])
  /\ elements # << >> => elements[Len(elements)].type = "PT_STRING_END"
  /\ toGui # None =>
       IF elements = << >> THEN toGui.type = "PT_STRING_END" ELSE Follows(toGui, elements[1])
  /\ gui = "reads" /\ element.type \in {"PT_STRING_BEGIN", "PT_STRING"} =>
       IF toGui # None THEN Follows(element, toGui)
       ELSE elements # << >> /\ Follows(element, elements[1])
  /\ gui = "reads" =>
       IF printed = << >>
       THEN element.type \in {"PT_NONE", "PT_STRING_BEGIN"}
       ELSE element = Line(printed[Len(printed)][1], printed[Len(printed)][2])
  /\ OneAnswer

\* Nothing of an answer has been shown or is in the shared memory.
Fresh == toGui = None /\ elements = << >> /\ element = NoElement

\* The same, and no answer is on its way.
Waiting == Fresh /\ \A i \in DOMAIN down : down[i].type \notin Query

\* If no GUI was killed, there is at most one query, answer or list anywhere,
\* the one of the command the GUI waits for.
AnswerInv ==
  kills = 0 =>
    /\ toDaemon # None /\ toDaemon.type \in {"PT_GET_USERS", "PT_GET_GAMES"} =>
         gui = "reads" /\ toDaemon.n = command.n /\ Waiting
    /\ \A i \in answered + 1 .. Len(Sent) :
         Sent[i].type \in Query => gui = "reads" /\ i = command.n /\ Waiting
    /\ \A i \in DOMAIN down :
         down[i].type \in Query =>
           gui = "reads" /\ i = Len(down) /\ down[i].n = command.n /\ Fresh
    /\ \A i \in DOMAIN elements :
         /\ gui = "reads" /\ elements[i].n = command.n
         /\ elements[i].type = "PT_STRING_END" => i = Len(elements)
         /\ elements[i].type = "PT_STRING_BEGIN" => element = NoElement /\ toGui = None
    /\ toGui # None =>
         /\ gui = "reads" /\ toGui.n = command.n
         /\ toGui.type = "PT_STRING_END" => elements = << >>
    /\ gui = "reads" /\ element.type = "PT_NONE" =>
         /\ toGui # None => toGui = Begin(command.n)
         /\ toGui = None /\ elements # << >> => elements[1] = Begin(command.n)
    /\ gui = "reads" => element.type # "PT_STRING_END"
    /\ gui = "reads" /\ element.type # "PT_NONE" =>
         element.n = command.n /\ Shown = {command.n} \X (1 .. element.line)
    /\ gui # "writes" => \A line \in Shown : line[1] = command.n
    /\ element.type \in {"PT_STRING", "PT_STRING_END"} =>
         Shown = {element.n} \X (1 .. element.line)

-----------------------------------------------------------------------------
(* The types.                                                              *)

Numbers == 0 .. MaxCommands

Down == [type : Query \cup {"MT_SET_ID"}, n : Numbers, lines : 0 .. MaxLines]

\* What OnRecv makes of a packet: the lines of a list between its marks.
LEMMA OnRecvList ==
  ASSUME NEW p \in Down
  PROVE  /\ OnRecv(p) \in Seq(Element)
         /\ p.type \notin Query => OnRecv(p) = << >>
         /\ p.type \in Query =>
              /\ Len(OnRecv(p)) = p.lines + 2
              /\ OnRecv(p)[1] = Begin(p.n)
              /\ \A i \in 1 .. p.lines : OnRecv(p)[i + 1] = Line(p.n, i)
              /\ OnRecv(p)[p.lines + 2] = End(p.n, p.lines)
<1>1. p.lines \in Nat /\ p.n \in Numbers /\ p.lines \in 0 .. MaxLines
  BY ClientAssumption DEF Down
<1>2. CASE p.type \in Query
  <2> DEFINE lines == [i \in 1 .. p.lines |-> Line(p.n, i)]
             list == <<Begin(p.n)>> \o lines \o <<End(p.n, p.lines)>>
  <2>1. /\ Begin(p.n) \in Element /\ End(p.n, p.lines) \in Element
        /\ \A i \in 1 .. p.lines : Line(p.n, i) \in Element
    BY <1>1, ClientAssumption DEF Element, Begin, Line, End, Numbers
  <2>2. /\ lines \in Seq(Element) /\ Len(lines) = p.lines
        /\ \A i \in 1 .. p.lines : lines[i] = Line(p.n, i)
    <3>1. lines \in Seq(Element)
      BY <1>1, <2>1, IsASeq
    <3>2. QED
      BY <1>1, <3>1, LenProperties
  <2> HIDE DEF lines
  <2> DEFINE begin == <<Begin(p.n)>>
             end == <<End(p.n, p.lines)>>
             front == begin \o lines
  <2>3. /\ begin \in Seq(Element) /\ Len(begin) = 1 /\ begin[1] = Begin(p.n)
        /\ end \in Seq(Element) /\ Len(end) = 1 /\ end[1] = End(p.n, p.lines)
    BY <2>1
  <2> HIDE DEF begin, end
  <2>4. /\ front \in Seq(Element) /\ Len(front) = 1 + p.lines
        /\ \A i \in 1 .. 1 + p.lines : front[i] = IF i <= 1 THEN begin[i] ELSE lines[i - 1]
    <3>1. /\ front \in Seq(Element) /\ Len(front) = Len(begin) + Len(lines)
          /\ \A i \in 1 .. Len(begin) + Len(lines) :
               front[i] = IF i <= Len(begin) THEN begin[i] ELSE lines[i - Len(begin)]
      BY <2>2, <2>3, ConcatProperties, Zenon
    <3> HIDE DEF front
    <3>2. QED
      BY <2>2, <2>3, <3>1
  <2>5. /\ front[1] = Begin(p.n)
        /\ \A i \in 1 .. p.lines : front[i + 1] = Line(p.n, i)
    <3> HIDE DEF front
    <3>1. front[1] = Begin(p.n)
      <4>1. 1 \in 1 .. 1 + p.lines /\ 1 <= 1
        BY <1>1
      <4>2. front[1] = begin[1]
        BY <2>4, <4>1
      <4>3. QED
        BY <2>3, <4>2
    <3>2. ASSUME NEW i \in 1 .. p.lines
          PROVE  front[i + 1] = Line(p.n, i)
      <4>1. i + 1 \in 1 .. 1 + p.lines /\ ~(i + 1 <= 1) /\ (i + 1) - 1 = i
        BY <1>1
      <4>2. QED
        BY <2>2, <2>4, <4>1
    <3>3. QED
      BY <3>1, <3>2
  <2>6. /\ list \in Seq(Element) /\ Len(list) = p.lines + 2
        /\ \A i \in 1 .. p.lines + 2 : list[i] = IF i <= p.lines + 1 THEN front[i]
                                                 ELSE end[i - (p.lines + 1)]
    <3>1. list = front \o end
      BY DEF begin, end
    <3> HIDE DEF front, list
    <3>2. /\ list \in Seq(Element) /\ Len(list) = Len(front) + Len(end)
          /\ \A i \in 1 .. Len(front) + Len(end) :
               list[i] = IF i <= Len(front) THEN front[i] ELSE end[i - Len(front)]
      BY <2>3, <2>4, <3>1, ConcatProperties, Zenon
    <3>3. Len(front) = p.lines + 1 /\ Len(front) + Len(end) = p.lines + 2
      BY <1>1, <2>3, <2>4
    <3>4. QED
      BY <3>2, <3>3
  <2>7. OnRecv(p) = list
    BY <1>2 DEF OnRecv, lines
  <2> HIDE DEF list, front
  <2>8. /\ list[1] = Begin(p.n)
        /\ list[p.lines + 2] = End(p.n, p.lines)
    <3>1. /\ 1 \in 1 .. p.lines + 2 /\ 1 <= p.lines + 1
          /\ p.lines + 2 \in 1 .. p.lines + 2 /\ ~(p.lines + 2 <= p.lines + 1)
          /\ (p.lines + 2) - (p.lines + 1) = 1
      BY <1>1
    <3>2. QED
      BY <2>3, <2>5, <2>6, <3>1
  <2>9. ASSUME NEW i \in 1 .. p.lines
        PROVE  list[i + 1] = Line(p.n, i)
    <3>1. i + 1 \in 1 .. p.lines + 2 /\ i + 1 <= p.lines + 1
      BY <1>1
    <3>2. QED
      BY <2>5, <2>6, <3>1
  <2>10. QED
    BY <1>2, <2>6, <2>7, <2>8, <2>9
<1>3. CASE p.type \notin Query
  BY <1>3, EmptySeq DEF OnRecv
<1>4. QED
  BY <1>2, <1>3

\* Steps of the GUI keep the types.
LEMMA GuiTypeInv ==
  ASSUME TypeInv, Gui
  PROVE  TypeInv'
<1>1. UNCHANGED <<clientVars, daemon>>
  BY DEF Gui, Start, Choose, ChooseGame, EnterGame, GuiWrite, readGui, readGuiAgain, Kill
<1>2. ConnectionOK' /\ Connects'
  BY <1>1 DEF TypeInv, TypeOK, ConnectionOK, Connects, clientVars, asyncVars, socketVars,
              serverVars
<1>3. NoElement \in Element /\ << >> \in Seq(Numbers \X (0 .. MaxLines))
  BY ClientAssumption, LobbyAssumption DEF NoElement, Element, Numbers
<1>4. MachineOK' /\ (gui' = "writes" => command' \in Command)
  <2>1. ASSUME NEW type \in CommandType, Writes(type)
        PROVE  /\ command' \in Command /\ gui' = "writes" /\ commands' \in 0 .. MaxCommands
    BY <2>1, LobbyAssumption DEF Writes, Command, TypeInv, TypeOK, MachineOK
  <2>2. CASE \/ Start \/ ChooseGame \/ EnterGame \/ \E type \in Menu : Choose(type)
    <3>1. /\ UNCHANGED <<slotVars, daemon, element, printed, kills>>
          /\ \E type \in CommandType : Writes(type)
          /\ playing' \in BOOLEAN
      BY <2>2 DEF Start, ChooseGame, EnterGame, Choose, CommandType, Menu, TypeInv, TypeOK,
                  MachineOK
    <3>2. QED
      BY <2>1, <3>1 DEF TypeInv, TypeOK, MachineOK, slotVars
  <2>3. CASE GuiWrite
    BY <1>3, <2>3 DEF GuiWrite, TypeInv, TypeOK, MachineOK, Numbers
  <2>4. CASE readGui
    <3>1. toGui \in Element /\ toGui.n \in Numbers /\ toGui.line \in 0 .. MaxLines
      BY <2>4 DEF readGui, TypeInv, TypeOK, MachineOK, Element, Numbers
    <3>2. Prints(toGui) \in Seq(Numbers \X (0 .. MaxLines))
      BY <3>1, AppendProperties DEF Prints, TypeInv, TypeOK, MachineOK, Numbers
    <3>3. QED
      BY <2>4, <3>1, <3>2 DEF readGui, TypeInv, TypeOK, MachineOK, Numbers
  <2>5. CASE Kill
    <3>1. /\ kills' \in 0 .. MaxKills /\ gui' = "off" /\ playing' = FALSE
          /\ element' = NoElement /\ printed' = << >>
          /\ UNCHANGED <<toDaemon, toGui, daemon, command, commands>>
      BY <2>5, LobbyAssumption DEF Kill, Off, slotVars, TypeInv, TypeOK, MachineOK
    <3>2. QED
      BY <1>3, <3>1 DEF TypeInv, TypeOK, MachineOK, Numbers
  <2>6. CASE readGuiAgain
    <3>1. element.n \in Numbers /\ element.line \in 0 .. MaxLines
      BY DEF TypeInv, TypeOK, MachineOK, Element, Numbers
    <3>2. Prints(element) \in Seq(Numbers \X (0 .. MaxLines))
      BY <3>1, AppendProperties DEF Prints, TypeInv, TypeOK, MachineOK, Numbers
    <3>3. QED
      BY <2>6, <3>2 DEF readGuiAgain, slotVars, TypeInv, TypeOK, MachineOK, Numbers
  <2>7. QED
    BY <2>2, <2>3, <2>4, <2>5, <2>6 DEF Gui
<1>5. QED
  BY <1>2, <1>4 DEF TypeInv, TypeOK

\* The first of a sequence is taken.
LEMMA HeadTaken ==
  ASSUME NEW S, NEW s \in Seq(S), s # << >>
  PROVE  /\ Head(s) \in S /\ Tail(s) \in Seq(S)
         /\ Head(s) = s[1] /\ Len(s) \in Nat \ {0} /\ Len(Tail(s)) = Len(s) - 1
         /\ \A i \in 1 .. Len(s) - 1 : Tail(s)[i] = s[i + 1]
OBVIOUS

\* Steps of the connection and the server keep the types.
LEMMA ConnectionTypeInv ==
  ASSUME TypeInv, Connection
  PROVE  TypeInv'
<1>1. UNCHANGED <<slotVars, daemon, guiVars>>
  BY DEF Connection
<1>2. MachineOK' /\ (gui' = "writes" => command' \in Command)
  BY <1>1 DEF TypeInv, TypeOK, MachineOK, slotVars, guiVars
<1>3. TypeInv => ConnectionOK /\ Connects
  BY DEF TypeInv, TypeOK
<1>4. ConnectionOK' /\ Connects'
  <2>1. CASE HandleConnect
    <3>1. down' \in Seq(Down)
      BY <2>1, ClientAssumption, LobbyAssumption DEF HandleConnect, SetId, Down, Numbers
    <3>2. /\ id = 0 /\ up = << >> /\ elements = << >> /\ reading' = "header"
          /\ sessionId' \in SessionIds /\ connecting' = FALSE
          /\ socket' \in {"opening", "open", "closed"}
          /\ UNCHANGED <<run, posted, endpoints, writing, write_msgs, id, elements, server, up,
                         answered>>
      BY <1>3, <2>1 DEF HandleConnect, Connects, ConnectionOK
    <3>3. QED
      BY <1>3, <3>1, <3>2 DEF ConnectionOK, Connects, Down, Numbers
  <2>2. CASE HandleConnectFails
    <3>1. endpoints' \in 0 .. Endpoints - 1 /\ connecting' \in BOOLEAN
      BY <1>3, <2>2, ClientAssumption DEF HandleConnectFails, ConnectionOK
    <3>2. QED
      BY <1>3, <2>2, <3>1 DEF HandleConnectFails, ConnectionOK, Connects, serverVars
  <2>3. CASE HandleReadHeader
    <3>1. ~connecting /\ socket' \in {socket, "closed"} /\ reading' \in {"none", "body", "other"}
      BY <1>3, <2>3 DEF HandleReadHeader, ConnectionOK, Connects
    <3>2. QED
      BY <1>3, <2>3, <3>1 DEF HandleReadHeader, ConnectionOK, Connects, asyncVars, serverVars
  <2>4. CASE HandleReadBody
    <3>1. Head(down) \in Down /\ down' \in Seq(Down)
      BY <1>3, <2>4, HeadTaken DEF HandleReadBody, ConnectionOK, Down, Numbers
    <3>2. elements' \in Seq(Element)
      BY <2>4, <3>1, OnRecvList, EmptySeq DEF HandleReadBody
    <3>3. /\ ~connecting /\ id' \in {0, sessionId} /\ reading' \in {"none", "header", "body"}
          /\ UNCHANGED <<asyncVars, socket, writing, write_msgs, server, sessionId, up, answered>>
      BY <1>3, <2>4 DEF HandleReadBody, ConnectionOK, Connects
    <3>4. QED
      BY <1>3, <3>1, <3>2, <3>3 DEF ConnectionOK, Connects, asyncVars, Down, Numbers
  <2>5. CASE HandleReadFails
    BY <1>3, <2>5 DEF HandleReadFails, ConnectionOK, Connects, asyncVars, serverVars
  <2>6. CASE DoWrite
    <3>1. Head(posted) \in Message /\ posted' \in Seq(Message \cup {Close})
      BY <1>3, <2>6, HeadTaken DEF DoWrite, ConnectionOK
    <3>2. write_msgs' \in Seq(Message) /\ write_msgs' # << >>
      BY <1>3, <2>6, <3>1, AppendProperties, SMTT(30) DEF DoWrite, ConnectionOK
    <3>3. writing' \in BOOLEAN
      BY <1>3, <2>6 DEF DoWrite, ConnectionOK
    <3>4. QED
      BY <1>3, <2>6, <3>1, <3>2, <3>3 DEF DoWrite, ConnectionOK, Connects, serverVars
  <2>7. CASE DoClose
    <3>1. posted' \in Seq(Message \cup {Close})
      BY <1>3, <2>7, HeadTaken DEF DoClose, ConnectionOK
    <3>2. QED
      BY <1>3, <2>7, <3>1 DEF DoClose, ConnectionOK, Connects, serverVars
  <2>8. CASE HandleWrite
    <3>1. /\ write_msgs \in Seq(Message) /\ write_msgs # << >> /\ up \in Seq(Message)
          /\ answered \in 0 .. Len(up)
      BY <1>3, <2>8 DEF HandleWrite, ConnectionOK
    <3>2. /\ up' \in Seq(Message) /\ Len(up') = Len(up) + 1 /\ Len(up) \in Nat
          /\ write_msgs' \in Seq(Message) /\ Len(write_msgs') = Len(write_msgs) - 1
          /\ ~connecting
      BY <1>3, <2>8, <3>1, HeadTaken, AppendProperties, LenProperties DEF HandleWrite, Connects
    <3>3. writing' \in BOOLEAN /\ (writing' => write_msgs' # << >>)
      <4>1. writing' \in BOOLEAN /\ (writing' => Len(write_msgs) > 1)
        <5>1. Len(write_msgs) \in Nat
          BY <3>1, LenProperties
        <5>2. writing' = (Len(write_msgs) > 1)
          BY <2>8 DEF HandleWrite
        <5>3. writing' \in BOOLEAN
          BY <5>1, <5>2, SMT
        <5>4. writing' => Len(write_msgs) > 1
          BY <5>2, Zenon
        <5>5. QED
          BY <5>3, <5>4
      <4>2. Len(write_msgs) > 1 => write_msgs' # << >>
        <5>1. Len(write_msgs) \in Nat
          BY <3>1, LenProperties
        <5>2. Len(write_msgs) > 1 => Len(write_msgs') # 0
          BY <3>2, <5>1, SMTT(30)
        <5>3. QED
          BY <5>2, EmptySeq
      <4>3. QED
        BY <4>1, <4>2
    <3>4. answered' \in 0 .. Len(up')
      BY <2>8, <3>1, <3>2 DEF HandleWrite
    <3>5. QED
      BY <1>3, <2>8, <3>2, <3>3, <3>4 DEF HandleWrite, ConnectionOK, Connects, asyncVars
  <2>9. CASE HandleWriteFails
    BY <1>3, <2>9 DEF HandleWriteFails, ConnectionOK, Connects, asyncVars, serverVars
  <2>10. CASE RunReturns
    BY <1>3, <2>10 DEF RunReturns, ConnectionOK, Connects, socketVars, serverVars
  <2>11. CASE ServerReads
    <3> DEFINE p == up[answered + 1]
    <3>1. answered + 1 \in 1 .. Len(up) /\ p \in Message /\ ~connecting
      <4>1. answered \in 0 .. Len(up) /\ Len(up) \in Nat /\ answered < Len(up)
        BY <1>3, <2>11, LenProperties DEF ServerReads, ConnectionOK
      <4>2. answered + 1 \in 1 .. Len(up) /\ up # << >>
        BY <4>1
      <4>3. QED
        BY <1>3, <4>2, ElementOfSeq DEF ConnectionOK, Connects
    <3>2. ASSUME NEW k \in 0 .. MaxLines, p.type \in Query,
                 down' = Append(down, [type |-> p.type, n |-> p.n, lines |-> k])
          PROVE  down' \in Seq(Down)
      <4>1. [type |-> p.type, n |-> p.n, lines |-> k] \in Down
        BY <3>1, <3>2, LobbyAssumption DEF Message, Down, Numbers
      <4>2. QED
        BY <1>3, <3>2, <4>1, AppendProperties DEF ConnectionOK, Down, Numbers
    <3>3. down' \in Seq(Down) /\ server' \in {"up", "lost"}
      <4>1. \/ down' = down /\ server' \in {server, "lost"}
            \/ /\ p.type \in Query /\ server' = server
               /\ \E k \in 0 .. MaxLines :
                    down' = Append(down, [type |-> p.type, n |-> p.n, lines |-> k])
        BY <2>11 DEF ServerReads, Answers
      <4>2. QED
        BY <1>3, <3>2, <4>1 DEF ConnectionOK, Down, Numbers
    <3>4. /\ answered' = answered + 1
          /\ UNCHANGED <<asyncVars, socketVars, id, elements, sessionId, up>>
      BY <2>11 DEF ServerReads
    <3>5. answered' \in 0 .. Len(up)
      BY <3>1, <3>4
    <3>6. QED
      BY <1>3, <3>1, <3>3, <3>4, <3>5 DEF ConnectionOK, Connects, asyncVars, socketVars, Down,
                                          Numbers
  <2>12. CASE ServerLost
    BY <1>3, <2>12 DEF ServerLost, ConnectionOK, Connects, asyncVars, socketVars
  <2>13. QED
    BY <2>1, <2>2, <2>3, <2>4, <2>5, <2>6, <2>7, <2>8, <2>9, <2>10, <2>11, <2>12
       DEF Connection, IoThread, Server
<1>5. QED
  BY <1>2, <1>4 DEF TypeInv, TypeOK

\* Steps of the main thread of the daemon keep the types.
LEMMA DaemonTypeInv ==
  ASSUME TypeInv, Daemon
  PROVE  TypeInv'
<1>1. ConnectionOK /\ Connects /\ MachineOK /\ (gui = "writes" => command \in Command)
  BY DEF TypeInv, TypeOK
<1>2. CASE readDeamon
  <2>1. toDaemon \in Command
    BY <1>1, <1>2 DEF readDeamon, MachineOK
  <2>2. [type |-> MsgType(toDaemon.type), n |-> toDaemon.n, id |-> id] \in Message
    <3>1. MsgType(toDaemon.type) \in {"MT_SET_NAME", "MT_BEGIN_GAME", "MT_DISCONNECT"} \cup Query
      BY <2>1 DEF MsgType, Command, CommandType, Menu, Query
    <3>2. id \in SessionIds \cup {0}
      BY <1>1 DEF ConnectionOK
    <3>3. QED
      BY <2>1, <3>1, <3>2 DEF Message, Command, RequestType
  <2>3. posted' \in Seq(Message \cup {Close})
    BY <1>1, <1>2, <2>2, AppendProperties DEF readDeamon, write, ConnectionOK
  <2>4. QED
    BY <1>1, <1>2, <2>3 DEF readDeamon, TypeInv, TypeOK, ConnectionOK, MachineOK, Connects, guiVars,
                            socketVars, serverVars
<1>3. CASE DaemonCloses
  <2>1. posted' \in Seq(Message \cup {Close})
    BY <1>1, <1>3, AppendProperties DEF DaemonCloses, close, ConnectionOK
  <2>2. QED
    BY <1>1, <1>3, <2>1 DEF DaemonCloses, TypeInv, TypeOK, ConnectionOK, MachineOK, Connects,
                            guiVars, slotVars, socketVars, serverVars
<1>4. CASE DaemonJoins
  BY <1>1, <1>4 DEF DaemonJoins, TypeInv, TypeOK, ConnectionOK, MachineOK, Connects, guiVars,
                    slotVars, clientVars, asyncVars, socketVars, serverVars
<1>5. CASE OnRecvWrite
  <2>1. toGui' \in Element /\ elements' \in Seq(Element) /\ ~connecting
    BY <1>1, <1>5, HeadTaken DEF OnRecvWrite, Written, ConnectionOK, Connects
  <2>2. QED
    BY <1>1, <1>5, <2>1 DEF OnRecvWrite, Written, TypeInv, TypeOK, ConnectionOK, MachineOK,
                            Connects, guiVars, asyncVars, serverVars
<1>6. QED
  BY <1>2, <1>3, <1>4, <1>5 DEF Daemon

\* Hence every step keeps them.
LEMMA TypeInvStep ==
  ASSUME TypeInv, [Next]_vars
  PROVE  TypeInv'
<1>1. CASE UNCHANGED vars
  BY <1>1 DEF vars, TypeInv, TypeOK, ConnectionOK, MachineOK, Connects, guiVars, slotVars, clientVars,
              asyncVars, socketVars, serverVars
<1>2. QED
  BY <1>1, GuiTypeInv, DaemonTypeInv, ConnectionTypeInv DEF Next

LEMMA TypeInvInit == Init => TypeInv
<1> SUFFICES ASSUME Init PROVE TypeInv
  OBVIOUS
<1>1. /\ NoElement \in Element /\ Endpoints - 1 \in 0 .. Endpoints - 1
      /\ 0 \in 0 .. MaxCommands /\ 0 \in 0 .. MaxKills
  BY ClientAssumption, LobbyAssumption DEF NoElement, Element
<1>2. \A S : << >> \in Seq(S)
  BY EmptySeq
<1>3. ConnectionOK /\ Connects
  <2>1. 0 \in 0 .. Len(<< >>)
    OBVIOUS
  <2>2. QED
    BY <1>1, <1>2, <2>1 DEF Init, ClientInit, ConnectionOK, Connects
<1>4. MachineOK
  BY <1>1, <1>2 DEF Init, MachineOK
<1>5. QED
  BY <1>3, <1>4 DEF TypeInv, TypeOK, Init

LEMMA TypeInvInvariant == Spec => []TypeInv
BY TypeInvInit, TypeInvStep, PTL DEF Spec

\* Type correctness; with it, a write is pending only while there is a packet
\* to write, and the id the client sends is none but its own.
THEOREM TypeCorrect == Spec => []TypeOK
<1>1. TypeInv => TypeOK
  BY DEF TypeInv
<1>2. QED
  BY <1>1, TypeInvInvariant, PTL
-----------------------------------------------------------------------------
(* The commands.                                                           *)

Packets == Message \cup {Close}

\* A packet that moves from the head of one queue to the end of the one before
\* it stays where it is in both together.
LEMMA HeadMoved ==
  ASSUME NEW S, NEW s \in Seq(S), NEW t \in Seq(S), t # << >>
  PROVE  Append(s, Head(t)) \o Tail(t) = s \o t
<1> DEFINE left == Append(s, Head(t)) \o Tail(t)
           right == s \o t
<1>1. /\ Head(t) \in S /\ Tail(t) \in Seq(S) /\ Head(t) = t[1]
      /\ Len(t) \in Nat \ {0} /\ Len(Tail(t)) = Len(t) - 1
      /\ \A i \in 1 .. Len(t) - 1 : Tail(t)[i] = t[i + 1]
  BY HeadTaken
<1> DEFINE longer == Append(s, Head(t))
<1>2. /\ longer \in Seq(S) /\ Len(longer) = Len(s) + 1 /\ Len(s) \in Nat
      /\ \A i \in 1 .. Len(s) : longer[i] = s[i]
      /\ longer[Len(s) + 1] = t[1]
  BY <1>1, AppendProperties, LenProperties
<1> HIDE DEF longer
<1>3. /\ left \in Seq(S) /\ Len(left) = Len(longer) + Len(Tail(t))
      /\ \A i \in 1 .. Len(longer) + Len(Tail(t)) :
           left[i] = IF i <= Len(longer) THEN longer[i] ELSE Tail(t)[i - Len(longer)]
  BY <1>1, <1>2, ConcatProperties, Zenon DEF longer
<1>4. /\ right \in Seq(S) /\ Len(right) = Len(s) + Len(t)
      /\ \A i \in 1 .. Len(s) + Len(t) :
           right[i] = IF i <= Len(s) THEN s[i] ELSE t[i - Len(s)]
  BY ConcatProperties, Zenon
<1> HIDE DEF left, right
<1>5. Len(left) = Len(right)
  BY <1>1, <1>2, <1>3, <1>4
<1>6. ASSUME NEW i \in 1 .. Len(left)
      PROVE  left[i] = right[i]
  <2>1. CASE i <= Len(s)
    <3>1. left[i] = longer[i] /\ right[i] = s[i]
      BY <1>1, <1>2, <1>3, <1>4, <2>1
    <3>2. QED
      BY <1>2, <2>1, <3>1
  <2>2. CASE i = Len(s) + 1
    BY <1>1, <1>2, <1>3, <1>4, <2>2
  <2>3. CASE i > Len(s) + 1
    <3>1. left[i] = Tail(t)[i - (Len(s) + 1)] /\ right[i] = t[i - Len(s)]
      BY <1>1, <1>2, <1>3, <1>4, <2>3
    <3>2. i - (Len(s) + 1) \in 1 .. Len(t) - 1 /\ (i - (Len(s) + 1)) + 1 = i - Len(s)
      BY <1>1, <1>2, <1>3, <2>3
    <3>3. QED
      BY <1>1, <3>1, <3>2
  <2>4. QED
    BY <1>2, <2>1, <2>2, <2>3
<1>7. left = right
  BY <1>3, <1>4, <1>5, <1>6, SeqEqual
<1>8. QED
  BY <1>7 DEF left, right

\* Packets that are moved from queue to queue stay in order.
LEMMA PacketsAssociate ==
  \A s, t, u \in Seq(Packets) : (s \o t) \o u = s \o (t \o u)
BY ConcatAssociative

\* The queues, and the packets in them.
LEMMA SentType ==
  ASSUME TypeOK
  PROVE  /\ up \in Seq(Packets) /\ write_msgs \in Seq(Packets) /\ posted \in Seq(Packets)
         /\ write_msgs \o posted \in Seq(Packets)
         /\ Sent \in Seq(Packets) /\ Len(Sent) = Len(up) + Len(write_msgs) + Len(posted)
         /\ Len(up) \in Nat /\ Len(write_msgs) \in Nat /\ Len(posted) \in Nat
         /\ \A i \in 1 .. Len(up) : Sent[i] = up[i]
         /\ \A i \in 1 .. Len(posted) : Sent[Len(up) + Len(write_msgs) + i] = posted[i]
<1>1. up \in Seq(Packets) /\ write_msgs \in Seq(Packets) /\ posted \in Seq(Packets)
  BY SeqMonotonic DEF TypeOK, ConnectionOK, Packets
<1> DEFINE rest == write_msgs \o posted
<1>2. Len(up) \in Nat /\ Len(write_msgs) \in Nat /\ Len(posted) \in Nat
  BY <1>1, LenProperties
<1>3. /\ rest \in Seq(Packets) /\ Len(rest) = Len(write_msgs) + Len(posted)
      /\ \A i \in 1 .. Len(write_msgs) + Len(posted) :
           rest[i] = IF i <= Len(write_msgs) THEN write_msgs[i] ELSE posted[i - Len(write_msgs)]
  BY <1>1, ConcatProperties, Zenon
<1> HIDE DEF rest
<1>4. /\ up \o rest \in Seq(Packets) /\ Len(up \o rest) = Len(up) + Len(rest)
      /\ \A i \in 1 .. Len(up) + Len(rest) :
           (up \o rest)[i] = IF i <= Len(up) THEN up[i] ELSE rest[i - Len(up)]
  <2>1. up \in Seq(Packets) /\ rest \in Seq(Packets)
    BY <1>1, <1>3
  <2>2. QED
    BY <2>1, ConcatProperties, Zenon
<1>5. Sent = up \o rest
  BY DEF Sent, rest
<1>6. /\ Sent \in Seq(Packets) /\ Len(Sent) = Len(up) + Len(rest)
      /\ \A i \in 1 .. Len(up) + Len(rest) :
           Sent[i] = IF i <= Len(up) THEN up[i] ELSE rest[i - Len(up)]
  BY <1>4, <1>5
<1>7. \A i \in 1 .. Len(up) : Sent[i] = up[i]
  BY <1>2, <1>3, <1>6
<1>8. ASSUME NEW i \in 1 .. Len(posted)
      PROVE  Sent[Len(up) + Len(write_msgs) + i] = posted[i]
  <2>1. /\ Len(up) + Len(write_msgs) + i \in 1 .. Len(up) + Len(rest)
        /\ ~(Len(up) + Len(write_msgs) + i <= Len(up))
        /\ (Len(up) + Len(write_msgs) + i) - Len(up) = Len(write_msgs) + i
        /\ Len(write_msgs) + i \in 1 .. Len(write_msgs) + Len(posted)
        /\ ~(Len(write_msgs) + i <= Len(write_msgs))
        /\ (Len(write_msgs) + i) - Len(write_msgs) = i
    BY <1>2, <1>3
  <2>2. QED
    BY <1>3, <1>6, <2>1
<1>9. QED
  BY <1>1, <1>2, <1>3, <1>6, <1>7, <1>8 DEF rest

\* A message is not the request to close.
LEMMA MessageType ==
  ASSUME NEW m \in Message
  PROVE  m # Close /\ m.n \in 1 .. MaxCommands
BY DEF Message, Close, Query

\* What is given to write or close comes last.
LEMMA SentAppend ==
  ASSUME TypeOK, NEW m \in Packets, posted' = Append(posted, m), UNCHANGED <<up, write_msgs>>
  PROVE  Sent' = Append(Sent, m)
<1> DEFINE queues == write_msgs \o posted
           last   == <<m>>
<1>1. /\ up \in Seq(Packets) /\ write_msgs \in Seq(Packets) /\ posted \in Seq(Packets)
      /\ queues \in Seq(Packets) /\ Sent \in Seq(Packets) /\ Sent = up \o queues
      /\ last \in Seq(Packets)
  BY SentType DEF Sent
<1>2. posted' = posted \o last /\ Append(Sent, m) = Sent \o last
  BY <1>1, AppendIsConcat
<1>3. up' = up /\ write_msgs' = write_msgs
  OBVIOUS
<1>4. Sent' = up \o (write_msgs \o (posted \o last))
  BY <1>2, <1>3 DEF Sent
<1> HIDE DEF last
<1>5. queues \o last = write_msgs \o (posted \o last)
  <2>1. write_msgs \in Seq(Packets) /\ posted \in Seq(Packets) /\ last \in Seq(Packets)
    BY <1>1
  <2>2. QED
    BY <2>1, PacketsAssociate, SMTT(30)
<1> HIDE DEF queues
<1>6. (up \o queues) \o last = up \o (queues \o last)
  <2>1. up \in Seq(Packets) /\ queues \in Seq(Packets) /\ last \in Seq(Packets)
    BY <1>1
  <2>2. QED
    BY <2>1, PacketsAssociate, SMTT(30)
<1>7. QED
  BY <1>1, <1>2, <1>4, <1>5, <1>6

\* What is not queued any more and what is not queued yet, on either side.
LEMMA SentAssociates ==
  ASSUME TypeOK
  PROVE  Sent = (up \o write_msgs) \o posted
<1>1. up \in Seq(Packets) /\ write_msgs \in Seq(Packets) /\ posted \in Seq(Packets)
  BY SentType
<1>2. (up \o write_msgs) \o posted = up \o (write_msgs \o posted)
  BY <1>1, PacketsAssociate, SMTT(30)
<1>3. QED
  BY <1>2 DEF Sent

\* Writing a packet, or queueing it, moves it only.
LEMMA SentMoved ==
  ASSUME TypeOK, DoWrite \/ (HandleWrite /\ write_msgs # << >>)
  PROVE  Sent' = Sent
<1> USE SentType
<1>1. CASE DoWrite
  <2>1. Append(write_msgs, Head(posted)) \o Tail(posted) = write_msgs \o posted
    BY <1>1, HeadMoved DEF DoWrite
  <2>2. QED
    BY <1>1, <2>1 DEF Sent, DoWrite, serverVars
<1>2. CASE HandleWrite /\ write_msgs # << >>
  <2> DEFINE written == Append(up, Head(write_msgs))
             rest == Tail(write_msgs)
  <2>1. /\ written \in Seq(Packets) /\ rest \in Seq(Packets)
        /\ up \in Seq(Packets) /\ write_msgs \in Seq(Packets) /\ posted \in Seq(Packets)
    BY <1>2, HeadTaken, AppendProperties
  <2>2. written \o rest = up \o write_msgs
    BY <1>2, HeadMoved
  <2>3. Sent' = written \o (rest \o posted)
    BY <1>2 DEF Sent, HandleWrite, asyncVars
  <2> HIDE DEF written, rest
  <2>4. (written \o rest) \o posted = written \o (rest \o posted)
    BY <2>1, PacketsAssociate, SMTT(30)
  <2>5. QED
    BY <2>2, <2>3, <2>4, SentAssociates
<1>3. QED
  BY <1>1, <1>2

\* The request to close is the last that was posted.
LEMMA SentClosed ==
  ASSUME TypeOK, OrderInv, DoClose
  PROVE  /\ Sent \in Seq(Packets) /\ Sent' \in Seq(Packets) /\ Len(Sent) \in Nat
         /\ Sent[Len(Sent)] = Close /\ Len(Sent') = Len(Sent) - 1
         /\ \A i \in 1 .. Len(Sent) - 1 : Sent'[i] = Sent[i]
<1> DEFINE front == up \o write_msgs
<1>1. /\ up \in Seq(Packets) /\ write_msgs \in Seq(Packets) /\ posted \in Seq(Packets)
      /\ Sent \in Seq(Packets) /\ Len(Sent) = Len(up) + Len(write_msgs) + Len(posted)
      /\ Len(up) \in Nat /\ Len(write_msgs) \in Nat /\ Len(posted) \in Nat
      /\ \A i \in 1 .. Len(posted) : Sent[Len(up) + Len(write_msgs) + i] = posted[i]
  BY SentType
<1>2. /\ posted # << >> /\ posted[1] = Close /\ posted' = Tail(posted)
      /\ UNCHANGED <<up, write_msgs>>
  BY <1>1, HeadTaken DEF DoClose, serverVars
<1>3. Len(posted) = 1
  <2>1. Len(posted) # 0
    BY <1>1, <1>2, EmptySeq
  <2>2. Sent[Len(up) + Len(write_msgs) + 1] = Close
    BY <1>1, <1>2, <2>1
  <2>3. Len(up) + Len(write_msgs) + 1 \in DOMAIN Sent
    BY <1>1, <2>1, LenProperties
  <2>4. Len(up) + Len(write_msgs) + 1 = Len(Sent)
    BY <2>2, <2>3 DEF OrderInv
  <2>5. /\ Len(Sent) = Len(up) + Len(write_msgs) + Len(posted)
        /\ Len(up) \in Nat /\ Len(write_msgs) \in Nat /\ Len(posted) \in Nat
    BY <1>1
  <2>6. \A a, b, c \in Nat : a + b + c = a + b + 1 => c = 1
    OBVIOUS
  <2>7. QED
    BY <2>4, <2>5, <2>6, Zenon
<1>4. posted' = << >>
  <2>1. posted' \in Seq(Packets) /\ Len(posted') = 0
    BY <1>1, <1>2, <1>3, HeadTaken
  <2>2. QED
    BY <2>1, EmptySeq
<1>5. /\ front \in Seq(Packets) /\ Len(front) = Len(up) + Len(write_msgs)
  BY <1>1, ConcatProperties
<1>6. Sent = front \o posted
  BY <1>1, PacketsAssociate DEF Sent
<1>7. Sent' = front
  <2>1. write_msgs \o << >> = write_msgs
    BY <1>1, ConcatEmptySeq
  <2>2. QED
    BY <1>2, <1>4, <2>1 DEF Sent
<1> HIDE DEF front
<1>8. \A i \in 1 .. Len(front) + Len(posted) :
        (front \o posted)[i] = IF i <= Len(front) THEN front[i] ELSE posted[i - Len(front)]
  BY <1>1, <1>5, ConcatProperties, Zenon
<1>9. \A i \in 1 .. Len(Sent) - 1 : Sent'[i] = Sent[i]
  BY <1>1, <1>3, <1>5, <1>6, <1>7, <1>8
<1>10. Sent[Len(Sent)] = Close
  <2>1. Len(up) + Len(write_msgs) + 1 = Len(Sent) /\ 1 \in 1 .. Len(posted)
    BY <1>1, <1>3
  <2>2. QED
    BY <1>1, <1>2, <2>1
<1>11. QED
  BY <1>1, <1>3, <1>5, <1>7, <1>9, <1>10

\* What changes neither the queues nor what the main threads know of them.
LEMMA SameCommandInv ==
  ASSUME CommandInv, Sent' = Sent, UNCHANGED <<toDaemon, gui, command, commands, kills>>,
         daemon' = daemon \/ (daemon = "joins" /\ daemon' = "ended")
  PROVE  CommandInv'
BY DEF CommandInv, OrderInv, GaplessInv

\* Handlers of the connection move packets along Sent, and read one at most.
LEMMA ConnectionCommandInv ==
  ASSUME TypeInv, CommandInv, Connection
  PROVE  CommandInv'
<1>1. UNCHANGED <<toDaemon, gui, command, commands, kills, daemon>>
  BY DEF Connection, slotVars, guiVars
<1>2. TypeOK /\ (writing => write_msgs # << >>)
  BY DEF TypeInv, TypeOK, ConnectionOK
<1>3. CASE DoClose
  <2>1. /\ Sent \in Seq(Packets) /\ Sent' \in Seq(Packets) /\ Len(Sent) \in Nat
        /\ Sent[Len(Sent)] = Close /\ Len(Sent') = Len(Sent) - 1
        /\ \A i \in 1 .. Len(Sent) - 1 : Sent'[i] = Sent[i]
    BY <1>2, <1>3, SentClosed DEF CommandInv
  <2>2. DOMAIN Sent = 1 .. Len(Sent) /\ DOMAIN Sent' = 1 .. Len(Sent')
    BY <2>1
  <2>3. /\ Len(Sent) \in DOMAIN Sent /\ daemon \in {"joins", "ended"}
        /\ \A i \in DOMAIN Sent' : i \in DOMAIN Sent /\ i # Len(Sent) /\ Sent'[i] = Sent[i]
    <3>1. Len(Sent) # 0
      BY <2>1, EmptySeq
    <3>2. Len(Sent) \in DOMAIN Sent
      BY <2>1, <2>2, <3>1
    <3>3. QED
      BY <2>1, <2>2, <3>2 DEF CommandInv, OrderInv
  <2>4. OrderInv'
    BY <1>1, <2>3 DEF CommandInv, OrderInv
  <2>5. GaplessInv'
    BY <1>1, <2>3 DEF CommandInv, GaplessInv
  <2>6. QED
    BY <2>4, <2>5 DEF CommandInv
<1>4. CASE ~DoClose
  <2>1. \/ DoWrite \/ (HandleWrite /\ write_msgs # << >>)
        \/ UNCHANGED <<up, write_msgs, posted>>
    BY <1>2, <1>4 DEF Connection, IoThread, Server, HandleConnect, HandleConnectFails,
       HandleReadHeader, HandleReadBody, HandleReadFails, HandleWrite, HandleWriteFails,
       RunReturns, ServerReads, ServerLost, asyncVars, socketVars, serverVars
  <2>2. Sent' = Sent
    BY <1>2, <2>1, SentMoved DEF Sent
  <2>3. QED
    BY <1>1, <2>2, SameCommandInv
<1>5. QED
  BY <1>3, <1>4

\* The daemon puts a command, or the request to close, behind the others.
LEMMA DaemonCommandInv ==
  ASSUME TypeInv, CommandInv, Daemon
  PROVE  CommandInv'
<1>1. TypeOK /\ Sent \in Seq(Packets) /\ Len(Sent) \in Nat /\ DOMAIN Sent = 1 .. Len(Sent)
  BY SentType, LenProperties DEF TypeInv
<1>2. ASSUME NEW m \in Packets, Sent' = Append(Sent, m)
      PROVE  /\ DOMAIN Sent' = 1 .. Len(Sent) + 1 /\ Len(Sent') = Len(Sent) + 1
             /\ Sent'[Len(Sent) + 1] = m
             /\ \A i \in DOMAIN Sent : Sent'[i] = Sent[i]
             /\ \A i \in DOMAIN Sent' : i \in DOMAIN Sent \/ i = Len(Sent) + 1
             /\ Len(Sent) + 1 \notin DOMAIN Sent
  BY <1>1, <1>2, AppendProperties
<1>3. CASE readDeamon
  <2> DEFINE m == [type |-> MsgType(toDaemon.type), n |-> toDaemon.n, id |-> id]
  <2>1. toDaemon # None /\ toDaemon \in Command /\ toDaemon' = None /\ daemon = "reads"
    BY <1>3 DEF readDeamon, TypeInv, TypeOK, MachineOK
  <2>2. /\ UNCHANGED <<gui, command, commands, kills, up, write_msgs>>
        /\ posted' = Append(posted, m)
        /\ daemon' = IF toDaemon.type = "PT_DISCONNECT" THEN "closes" ELSE "reads"
    BY <1>3 DEF readDeamon, write, guiVars, socketVars, serverVars
  <2>3. m \in Message /\ m.n = toDaemon.n
    <3>1. MsgType(toDaemon.type) \in {"MT_SET_NAME", "MT_BEGIN_GAME", "MT_DISCONNECT"} \cup Query
      BY <2>1 DEF MsgType, Command, CommandType, Menu, Query
    <3>2. id \in SessionIds \cup {0}
      BY <1>1 DEF TypeOK, ConnectionOK
    <3>3. QED
      BY <2>1, <3>1, <3>2 DEF Message, Command, RequestType
  <2>4. m # Close /\ m \in Packets
    BY <2>3, MessageType DEF Packets
  <2> HIDE DEF m
  <2>5. Sent' = Append(Sent, m)
    BY <1>1, <2>2, <2>4, SentAppend
  <2>6. /\ DOMAIN Sent' = 1 .. Len(Sent) + 1 /\ Len(Sent') = Len(Sent) + 1
        /\ Sent'[Len(Sent) + 1] = m
        /\ \A i \in DOMAIN Sent : Sent'[i] = Sent[i]
        /\ \A i \in DOMAIN Sent' : i \in DOMAIN Sent \/ i = Len(Sent) + 1
    BY <1>2, <2>4, <2>5
  <2>7. /\ \A i \in DOMAIN Sent : Sent[i] # Close
        /\ toDaemon.n <= commands /\ (gui = "writes" => toDaemon.n < commands)
    <3>1. \A i \in DOMAIN Sent : Sent[i] # Close
      BY <2>1 DEF CommandInv, OrderInv
    <3>2. QED
      BY <2>1, <3>1 DEF CommandInv, OrderInv
  <2>8. OrderInv'
    BY <1>1, <2>1, <2>2, <2>3, <2>4, <2>6, <2>7 DEF CommandInv, OrderInv
  <2>9. GaplessInv'
    BY <1>1, <2>1, <2>2, <2>3, <2>4, <2>6 DEF CommandInv, GaplessInv
  <2>10. QED
    BY <2>8, <2>9 DEF CommandInv
<1>4. CASE DaemonCloses
  <2>1. /\ UNCHANGED <<gui, command, commands, kills, up, write_msgs, toDaemon>>
        /\ posted' = Append(posted, Close) /\ daemon = "closes" /\ daemon' = "joins"
    BY <1>4 DEF DaemonCloses, close, guiVars, slotVars, socketVars, serverVars
  <2>2. Sent' = Append(Sent, Close) /\ Close \in Packets
    BY <1>1, <2>1, SentAppend DEF Packets
  <2>3. /\ DOMAIN Sent' = 1 .. Len(Sent) + 1 /\ Len(Sent') = Len(Sent) + 1
        /\ Sent'[Len(Sent) + 1] = Close
        /\ \A i \in DOMAIN Sent : Sent'[i] = Sent[i]
        /\ \A i \in DOMAIN Sent' : i \in DOMAIN Sent \/ i = Len(Sent) + 1
    BY <1>2, <2>2
  <2>4. \A i \in DOMAIN Sent : Sent[i] # Close
    BY <2>1 DEF CommandInv, OrderInv
  <2>5. Close.n <= commands /\ (gui = "writes" => Close.n < commands)
    BY DEF Close, TypeInv, TypeOK, MachineOK, CommandInv, OrderInv, Command
  <2>6. toDaemon # None => Close.n < toDaemon.n
    BY <1>1, LobbyAssumption DEF Close, TypeOK, MachineOK, Command
  <2>7. OrderInv'
    BY <1>1, <2>1, <2>3, <2>4, <2>5, <2>6 DEF CommandInv, OrderInv
  <2>8. GaplessInv'
    BY <2>1, <2>3 DEF CommandInv, GaplessInv
  <2>9. QED
    BY <2>7, <2>8 DEF CommandInv
<1>5. CASE DaemonJoins \/ OnRecvWrite
  <2>1. /\ UNCHANGED <<gui, command, commands, kills, up, write_msgs, posted, toDaemon>>
        /\ daemon' = daemon \/ (daemon = "joins" /\ daemon' = "ended")
    BY <1>5 DEF DaemonJoins, OnRecvWrite, Written, guiVars, slotVars, clientVars, asyncVars,
                socketVars, serverVars
  <2>2. Sent' = Sent
    BY <2>1 DEF Sent
  <2>3. QED
    BY <2>1, <2>2, SameCommandInv
<1>6. QED
  BY <1>3, <1>4, <1>5 DEF Daemon

\* A new command has a number above all others, and waits for the slot.
LEMMA GuiCommandInv ==
  ASSUME TypeInv, CommandInv, Gui
  PROVE  CommandInv'
<1>1. UNCHANGED <<up, write_msgs, posted, daemon>>
  BY DEF Gui, Start, Choose, ChooseGame, EnterGame, GuiWrite, readGui, readGuiAgain, Kill, clientVars, asyncVars,
         socketVars, serverVars
<1>2. Sent' = Sent /\ Sent \in Seq(Packets) /\ Len(Sent) \in Nat
  BY <1>1, SentType, LenProperties DEF Sent, TypeInv
<1>3. commands \in Nat /\ kills \in Nat /\ \A i \in DOMAIN Sent : Sent[i].n \in Nat
  <2>1. commands \in Nat /\ kills \in Nat
    BY LobbyAssumption DEF TypeInv, TypeOK, MachineOK
  <2>2. ASSUME NEW i \in DOMAIN Sent
        PROVE  Sent[i].n \in Nat
    <3>1. Sent[i] \in Packets
      BY <1>2, ElementOfSeq
    <3>2. QED
      BY <3>1, LobbyAssumption, MessageType DEF Packets, Close
  <2>3. QED
    BY <2>1, <2>2
<1>4. toDaemon # None => toDaemon.n \in Nat
  BY LobbyAssumption DEF TypeInv, TypeOK, MachineOK, Command
<1>5. ASSUME NEW type, Writes(type), gui \in {"off", "menu", "asks"},
             UNCHANGED <<toDaemon, kills>>
      PROVE  CommandInv'
  <2>1. /\ commands' = commands + 1 /\ gui' = "writes" /\ command'.n = commands + 1
    BY <1>5 DEF Writes
  <2>2. OrderInv'
    BY <1>1, <1>2, <1>3, <1>4, <1>5, <2>1 DEF CommandInv, OrderInv
  <2>3. kills = 0 => daemon = "reads"
    BY <1>5 DEF CommandInv, GaplessInv
  <2>4. kills = 0 => commands' = Len(Sent) + (IF toDaemon = None THEN 0 ELSE 1) + 1
    <3> DEFINE waiting == IF toDaemon = None THEN 0 ELSE 1
    <3>1. kills = 0 => commands = Len(Sent) + waiting + (IF gui = "writes" THEN 1 ELSE 0)
      BY <2>3 DEF CommandInv, GaplessInv
    <3>2. waiting \in Nat
      OBVIOUS
    <3> HIDE DEF waiting
    <3>3. kills = 0 => commands + 1 = Len(Sent) + waiting + 1
      BY <1>2, <1>5, <3>1, <3>2
    <3>4. QED
      BY <2>1, <3>3 DEF waiting
  <2>5. GaplessInv'
    BY <1>1, <1>2, <1>5, <2>1, <2>3, <2>4 DEF CommandInv, GaplessInv
  <2>6. QED
    BY <2>2, <2>5 DEF CommandInv
<1>6. CASE \/ Start \/ ChooseGame \/ EnterGame \/ \E type \in Menu : Choose(type)
  BY <1>5, <1>6 DEF Start, ChooseGame, EnterGame, Choose, slotVars
<1>7. CASE GuiWrite
  <2>1. /\ gui = "writes" /\ toDaemon = None /\ toDaemon' = command /\ command \in Command
        /\ gui' # "writes" /\ UNCHANGED <<command, commands, kills>>
        /\ gui' = "ended" <=> command.type = "PT_DISCONNECT"
    BY <1>7 DEF GuiWrite, TypeInv
  <2>2. command # None
    BY <2>1, NoneAssumption
  <2>3. OrderInv'
    BY <1>1, <1>2, <1>3, <2>1, <2>2 DEF CommandInv, OrderInv
  <2>4. GaplessInv'
    BY <1>1, <1>2, <1>3, <2>1, <2>2 DEF CommandInv, GaplessInv, OrderInv
  <2>5. QED
    BY <2>3, <2>4 DEF CommandInv
<1>8. CASE readGui \/ readGuiAgain
  <2>1. /\ gui = "reads" /\ gui' \notin {"writes", "ended"}
        /\ UNCHANGED <<toDaemon, command, commands, kills>>
    BY <1>8 DEF readGui, readGuiAgain, slotVars
  <2>2. QED
    BY <1>1, <1>2, <2>1 DEF CommandInv, OrderInv, GaplessInv
<1>9. CASE Kill
  <2>1. /\ gui' = "off" /\ kills' = kills + 1 /\ UNCHANGED <<toDaemon, command, commands>>
    BY <1>9 DEF Kill, Off, slotVars
  <2>2. QED
    BY <1>1, <1>2, <1>3, <2>1 DEF CommandInv, OrderInv, GaplessInv
<1>10. QED
  BY <1>6, <1>7, <1>8, <1>9 DEF Gui

\* Hence every step keeps the commands in order.
LEMMA CommandInvStep ==
  ASSUME TypeInv, CommandInv, [Next]_vars
  PROVE  CommandInv'
<1>1. CASE UNCHANGED vars
  <2>1. /\ UNCHANGED <<toDaemon, gui, command, commands, kills, daemon>>
        /\ UNCHANGED <<up, write_msgs, posted>>
    BY <1>1 DEF vars, guiVars, slotVars, clientVars, asyncVars, socketVars, serverVars
  <2>2. QED
    BY <2>1, SameCommandInv DEF Sent
<1>2. QED
  BY <1>1, GuiCommandInv, DaemonCommandInv, ConnectionCommandInv DEF Next

LEMMA CommandInvInit == Init => CommandInv
<1> SUFFICES ASSUME Init PROVE CommandInv
  OBVIOUS
<1>1. Sent = << >> /\ DOMAIN Sent = {} /\ Len(Sent) = 0
  BY DEF Init, ClientInit, Sent
<1>2. QED
  BY <1>1 DEF Init, ClientInit, CommandInv, OrderInv, GaplessInv

LEMMA CommandInvInvariant == Spec => [](TypeInv /\ CommandInv)
BY CommandInvInit, CommandInvStep, TypeInvInvariant, PTL DEF Spec

\* Commands reach the server in the order in which they were given, each once
\* and none missing before one that arrived, through the slot, the posted
\* handlers and the write queue, and whatever fails.
THEOREM CommandsArriveInOrder == Spec => []CommandsInOrder
<1>1. ASSUME TypeInv, CommandInv
      PROVE  CommandsInOrder
  <2>1. /\ Sent \in Seq(Packets) /\ Len(up) \in Nat /\ up \in Seq(Message)
        /\ \A i \in 1 .. Len(up) : i \in DOMAIN Sent /\ Sent[i] = up[i]
    <3>1. /\ Sent \in Seq(Packets) /\ Len(Sent) = Len(up) + Len(write_msgs) + Len(posted)
          /\ Len(up) \in Nat /\ Len(write_msgs) \in Nat /\ Len(posted) \in Nat
          /\ \A i \in 1 .. Len(up) : Sent[i] = up[i]
      BY <1>1, SentType DEF TypeInv
    <3>2. DOMAIN Sent = 1 .. Len(Sent)
      BY <3>1, LenProperties
    <3>3. 1 .. Len(up) \subseteq DOMAIN Sent
      BY <3>1, <3>2
    <3>4. QED
      BY <1>1, <3>1, <3>3 DEF TypeInv, TypeOK, ConnectionOK
  <2>2. \A i \in 1 .. Len(up) : up[i] # Close
    BY <2>1, ElementOfSeq, MessageType
  <2>3. \A i \in 1 .. Len(up) - 1 : i \in 1 .. Len(up) /\ i + 1 \in 1 .. Len(up) /\ i < i + 1
    BY <2>1
  <2>4. \A i, j \in 1 .. Len(up) : i < j => up[i].n < up[j].n
    BY <1>1, <2>1, <2>2 DEF CommandInv, OrderInv
  <2>5. \A i \in 1 .. Len(up) - 1 : up[i].n < up[i + 1].n
    BY <2>3, <2>4
  <2>6. kills = 0 => \A i \in 1 .. Len(up) : up[i].n = i
    BY <1>1, <2>1, <2>2 DEF CommandInv, GaplessInv
  <2>7. QED
    BY <2>5, <2>6 DEF CommandsInOrder
<1>2. TypeInv /\ CommandInv => CommandsInOrder
  BY <1>1
<1>3. QED
  BY <1>2, CommandInvInvariant, PTL

-----------------------------------------------------------------------------
(* The lists.                                                              *)

\* A list on its way to the GUI is in order.
LEMMA OnRecvFollows ==
  ASSUME NEW p \in Down, NEW list, list = OnRecv(p), list # << >>
  PROVE  /\ list[1] = Begin(p.n)
         /\ list[Len(list)].type = "PT_STRING_END"
         /\ \A i \in 1 .. Len(list) - 1 : Follows(list[i], list[i + 1])
<1>1. /\ Len(list) = p.lines + 2 /\ p.lines \in Nat
      /\ list[1] = Begin(p.n)
      /\ \A i \in 1 .. p.lines : list[i + 1] = Line(p.n, i)
      /\ list[p.lines + 2] = End(p.n, p.lines)
  BY OnRecvList, ClientAssumption DEF Down
<1>2. ASSUME NEW i \in 1 .. Len(list) - 1
      PROVE  Follows(list[i], list[i + 1])
  <2>1. /\ list[i].type \in {"PT_STRING_BEGIN", "PT_STRING"} /\ list[i].n = p.n
        /\ list[i].line = i - 1
    <3>1. CASE i = 1
      BY <1>1, <3>1 DEF Begin
    <3>2. CASE i # 1
      <4>1. i - 1 \in 1 .. p.lines /\ (i - 1) + 1 = i
        BY <1>1, <3>2
      <4>2. list[i] = Line(p.n, i - 1)
        BY <1>1, <4>1
      <4>3. QED
        BY <4>2 DEF Line
    <3>3. QED
      BY <3>1, <3>2
  <2>2. CASE i <= p.lines
    <3>1. list[i + 1] = Line(p.n, i)
      BY <1>1, <2>2
    <3>2. QED
      BY <2>1, <3>1 DEF Line, Follows
  <2>3. CASE i = p.lines + 1
    <3>1. list[i + 1] = End(p.n, i - 1)
      BY <1>1, <2>3
    <3>2. QED
      BY <2>1, <3>1 DEF End, Follows
  <2>4. QED
    BY <1>1, <2>2, <2>3
<1>3. QED
  BY <1>1, <1>2 DEF End

\* What does not touch a list leaves it in order.
LEMMA SameListInv ==
  ASSUME ListInv, UNCHANGED <<elements, toGui, element, printed>>,
         gui' = "reads" => gui = "reads"
  PROVE  ListInv'
BY DEF ListInv, OneAnswer

\* A packet is shown when the list before it has been written.
LEMMA ReadBodyListInv ==
  ASSUME TypeInv, ListInv, HandleReadBody, UNCHANGED <<toGui, element, printed, gui>>
  PROVE  ListInv'
<1>1. /\ elements = << >> /\ Head(down) \in Down
      /\ elements' \in {OnRecv(Head(down)), << >>}
  BY HeadTaken DEF HandleReadBody, Handles, TypeInv, TypeOK, ConnectionOK, Down, Numbers
<1>2. CASE elements' = << >>
  BY <1>1, <1>2, SameListInv
<1>3. CASE elements' # << >>
  <2>1. /\ elements'[1] = Begin(Head(down).n)
        /\ elements'[Len(elements')].type = "PT_STRING_END"
        /\ \A i \in 1 .. Len(elements') - 1 : Follows(elements'[i], elements'[i + 1])
    BY <1>1, <1>3, OnRecvFollows
  <2>2. toGui # None => Follows(toGui, elements'[1])
    BY <1>1, <2>1 DEF ListInv, Follows, Begin
  <2>3. /\ gui = "reads" /\ element.type \in {"PT_STRING_BEGIN", "PT_STRING"} =>
             toGui # None /\ Follows(element, toGui)
        /\ gui = "reads" =>
             IF printed = << >>
             THEN element.type \in {"PT_NONE", "PT_STRING_BEGIN"}
             ELSE element = Line(printed[Len(printed)][1], printed[Len(printed)][2])
        /\ OneAnswer
    BY <1>1 DEF ListInv
  <2>4. OneAnswer'
    BY <2>3 DEF OneAnswer
  <2>5. QED
    BY <1>3, <2>1, <2>2, <2>3, <2>4 DEF ListInv
<1>4. QED
  BY <1>2, <1>3

\* An element that is written into the slot is the next of its list.
LEMMA OnRecvWriteListInv ==
  ASSUME TypeInv, ListInv, OnRecvWrite
  PROVE  ListInv'
<1>1. /\ elements \in Seq(Element) /\ elements # << >> /\ toGui = None
      /\ toGui' = Head(elements) /\ elements' = Tail(elements)
      /\ UNCHANGED <<element, printed, gui>>
  BY DEF OnRecvWrite, Written, guiVars, TypeInv, TypeOK, ConnectionOK
<1>2. /\ Head(elements) \in Element /\ Head(elements) = elements[1]
      /\ Len(elements) \in Nat \ {0}
      /\ elements' \in Seq(Element) /\ Len(elements') = Len(elements) - 1
      /\ \A i \in 1 .. Len(elements) - 1 : elements'[i] = elements[i + 1]
  BY <1>1, HeadTaken
<1>3. toGui' # None
  BY <1>1, <1>2, NoneAssumption
<1>4. \A i \in 1 .. Len(elements') - 1 : Follows(elements'[i], elements'[i + 1])
  <2>1. ASSUME NEW i \in 1 .. Len(elements') - 1
        PROVE  Follows(elements'[i], elements'[i + 1])
    <3>1. i + 1 \in 1 .. Len(elements) - 1 /\ i \in 1 .. Len(elements) - 1
      BY <1>2
    <3>2. elements'[i] = elements[i + 1] /\ elements'[i + 1] = elements[(i + 1) + 1]
      BY <1>2, <3>1
    <3>3. QED
      BY <3>1, <3>2 DEF ListInv
  <2>2. QED
    BY <2>1
<1>5. elements' # << >> =>
        /\ elements'[Len(elements')].type = "PT_STRING_END"
        /\ Follows(toGui', elements'[1])
  <2> SUFFICES ASSUME elements' # << >>
               PROVE  /\ elements'[Len(elements')].type = "PT_STRING_END"
                      /\ Follows(toGui', elements'[1])
    OBVIOUS
  <2>1. Len(elements') # 0
    BY <1>2, EmptySeq
  <2>2. /\ 1 \in 1 .. Len(elements) - 1 /\ Len(elements') \in 1 .. Len(elements) - 1
        /\ Len(elements') + 1 = Len(elements)
    BY <1>2, <2>1
  <2>3. elements'[Len(elements')] = elements[Len(elements)] /\ elements'[1] = elements[1 + 1]
    BY <1>2, <2>2
  <2>4. QED
    BY <1>1, <1>2, <2>2, <2>3 DEF ListInv
<1>6. elements' = << >> => toGui'.type = "PT_STRING_END"
  <2>1. elements' = << >> => Len(elements) = 1
    <3>1. elements' = << >> => Len(elements') = 0
      BY EmptySeq
    <3>2. QED
      BY <1>2, <3>1
  <2>2. QED
    BY <1>1, <1>2, <2>1 DEF ListInv
<1>7. gui = "reads" /\ element.type \in {"PT_STRING_BEGIN", "PT_STRING"} =>
        Follows(element, toGui')
  BY <1>1, <1>2 DEF ListInv
<1>8. OneAnswer' /\ (gui' = "reads" =>
        IF printed' = << >>
        THEN element'.type \in {"PT_NONE", "PT_STRING_BEGIN"}
        ELSE element' = Line(printed'[Len(printed')][1], printed'[Len(printed')][2]))
  BY <1>1 DEF ListInv, OneAnswer
<1>9. QED
  BY <1>1, <1>3, <1>4, <1>5, <1>6, <1>7, <1>8 DEF ListInv

\* A line is printed after itself or after the one before it.
LEMMA PrintsInOrder ==
  ASSUME OneAnswer, NEW S, printed \in Seq(S), NEW line \in S, printed' = Append(printed, line),
         printed # << >> =>
           line \in {printed[Len(printed)],
                    <<printed[Len(printed)][1], printed[Len(printed)][2] + 1>>}
  PROVE  OneAnswer'
<1>1. /\ Len(printed) \in Nat /\ Len(printed') = Len(printed) + 1
      /\ printed'[Len(printed) + 1] = line
      /\ \A i \in 1 .. Len(printed) : printed'[i] = printed[i]
  BY AppendProperties, LenProperties
<1> SUFFICES ASSUME NEW i \in 1 .. Len(printed') - 1
             PROVE  printed'[i + 1] \in {printed'[i], <<printed'[i][1], printed'[i][2] + 1>>}
  BY DEF OneAnswer
<1>2. CASE i = Len(printed)
  <2>1. printed # << >> /\ i \in 1 .. Len(printed)
    BY <1>1, <1>2
  <2>2. printed'[i] = printed[Len(printed)] /\ printed'[i + 1] = line
    BY <1>1, <1>2, <2>1
  <2> QED
    BY <2>1, <2>2
<1>3. CASE i # Len(printed)
  <2>1. i \in 1 .. Len(printed) - 1 /\ i \in 1 .. Len(printed) /\ i + 1 \in 1 .. Len(printed)
    BY <1>1, <1>3
  <2>2. printed'[i] = printed[i] /\ printed'[i + 1] = printed[i + 1]
    BY <1>1, <2>1
  <2> QED
    BY <2>1, <2>2 DEF OneAnswer
<1> QED
  BY <1>2, <1>3

\* What has been shown when a line is added.
LEMMA ShownAppend ==
  ASSUME NEW S, printed \in Seq(S), NEW line \in S, printed' = Append(printed, line)
  PROVE  Shown' = Shown \cup {line}
<1>1. /\ DOMAIN printed = 1 .. Len(printed) /\ DOMAIN printed' = 1 .. Len(printed')
      /\ Len(printed) \in Nat /\ Len(printed') = Len(printed) + 1
      /\ printed'[Len(printed) + 1] = line
      /\ \A i \in 1 .. Len(printed) : printed'[i] = printed[i]
  BY AppendProperties, LenProperties
<1>2. /\ \A i \in DOMAIN printed' : i \in DOMAIN printed \/ i = Len(printed) + 1
      /\ \A i \in DOMAIN printed : i \in DOMAIN printed'
      /\ Len(printed) + 1 \in DOMAIN printed'
  BY <1>1
<1> QED
  BY <1>1, <1>2, Zenon DEF Shown

\* A line that is printed again is the last one.
LEMMA PrintedAgain ==
  ASSUME TypeInv, ListInv, readGuiAgain
  PROVE  /\ printed # << >> /\ printed \in Seq(Numbers \X (0 .. MaxLines))
         /\ printed[Len(printed)] \in Numbers \X (0 .. MaxLines)
         /\ printed' = Append(printed, printed[Len(printed)])
         /\ Shown' = Shown
         /\ element = Line(printed[Len(printed)][1], printed[Len(printed)][2])
<1>1. /\ printed # << >> /\ printed \in Seq(Numbers \X (0 .. MaxLines))
      /\ element = Line(printed[Len(printed)][1], printed[Len(printed)][2])
  BY DEF readGuiAgain, ListInv, TypeInv, TypeOK, MachineOK, Numbers
<1>2. Len(printed) \in DOMAIN printed
  BY <1>1, EmptySeq, LenProperties
<1>3. printed[Len(printed)] \in Numbers \X (0 .. MaxLines)
  BY <1>1, <1>2, ElementOfSeq, LenProperties
<1>4. <<element.n, element.line>> = printed[Len(printed)]
  BY <1>1, <1>3 DEF Line
<1>5. printed' = Append(printed, printed[Len(printed)])
  BY <1>4 DEF readGuiAgain, Prints
<1>6. Shown' = Shown \cup {printed[Len(printed)]}
  BY <1>1, <1>3, <1>5, ShownAppend, Zenon
<1>7. printed[Len(printed)] \in Shown
  BY <1>2 DEF Shown
<1> QED
  BY <1>1, <1>3, <1>5, <1>6, <1>7

\* Printing a line again leaves the lists in order.
LEMMA ReadAgainListInv ==
  ASSUME TypeInv, ListInv, readGuiAgain
  PROVE  ListInv'
<1>1. UNCHANGED <<elements, toGui, element, gui>>
  BY DEF readGuiAgain, clientVars, slotVars
<1>2. /\ printed \in Seq(Numbers \X (0 .. MaxLines)) /\ Len(printed) \in Nat
      /\ printed' = Append(printed, printed[Len(printed)])
      /\ printed[Len(printed)] \in Numbers \X (0 .. MaxLines)
      /\ element = Line(printed[Len(printed)][1], printed[Len(printed)][2])
  BY PrintedAgain, LenProperties
<1>3. /\ printed' # << >> /\ Len(printed') = Len(printed) + 1
      /\ printed'[Len(printed')] = printed[Len(printed)]
  BY <1>2, AppendProperties
<1>4. OneAnswer'
  BY <1>2, PrintsInOrder, Zenon DEF ListInv
<1> QED
  BY <1>1, <1>2, <1>3, <1>4 DEF ListInv

\* What the GUI reads goes on with what it has printed.
LEMMA ReadGuiListInv ==
  ASSUME TypeInv, ListInv, readGui
  PROVE  ListInv'
<1>1. /\ gui = "reads" /\ toGui # None /\ toGui' = None /\ element' = toGui
      /\ printed' = Prints(toGui) /\ UNCHANGED elements
      /\ gui' = "reads" => toGui.type \in {"PT_STRING_BEGIN", "PT_STRING"}
  BY DEF readGui, clientVars
<1>2. toGui \in Element /\ printed \in Seq(Numbers \X (0 .. MaxLines))
  BY <1>1 DEF TypeInv, TypeOK, MachineOK, Numbers
<1>3. toGui.type \in {"PT_STRING_BEGIN", "PT_STRING"} =>
        elements # << >> /\ Follows(toGui, elements[1])
  BY <1>1 DEF ListInv
<1>4. printed # << >> =>
        /\ element = Line(printed[Len(printed)][1], printed[Len(printed)][2])
        /\ Follows(element, toGui)
  BY <1>1 DEF ListInv, Line
<1>5. CASE toGui.type # "PT_STRING"
  <2>1. printed' = printed
    BY <1>1, <1>5 DEF Prints
  <2>2. gui' = "reads" => toGui.type = "PT_STRING_BEGIN" /\ printed = << >>
    BY <1>1, <1>4, <1>5 DEF Follows, Line
  <2>3. OneAnswer'
    BY <2>1 DEF ListInv, OneAnswer
  <2>4. QED
    BY <1>1, <1>3, <2>1, <2>2, <2>3 DEF ListInv
<1>6. CASE toGui.type = "PT_STRING"
  <2> DEFINE line == <<toGui.n, toGui.line>>
  <2>1. /\ line \in Numbers \X (0 .. MaxLines)
        /\ toGui = Line(line[1], line[2])
    BY <1>2, <1>6 DEF Element, Numbers, Line
  <2>2. printed' = Append(printed, line)
    BY <1>1, <1>6 DEF Prints
  <2> HIDE DEF line
  <2>3. /\ Len(printed) \in Nat /\ Len(printed') = Len(printed) + 1
        /\ printed' # << >> /\ printed'[Len(printed) + 1] = line
        /\ \A i \in 1 .. Len(printed) : printed'[i] = printed[i]
    BY <1>2, <2>1, <2>2, AppendProperties, LenProperties
  <2>4. printed # << >> =>
          line = <<printed[Len(printed)][1], printed[Len(printed)][2] + 1>>
    <3>1. printed # << >> =>
            /\ toGui.n = printed[Len(printed)][1]
            /\ toGui.line = printed[Len(printed)][2] + 1
      BY <1>4, <1>6 DEF Follows, Line
    <3>2. QED
      BY <3>1 DEF line
  <2>5. OneAnswer'
    BY <1>2, <2>1, <2>2, <2>4, PrintsInOrder, Zenon DEF ListInv
  <2>6. element' = Line(printed'[Len(printed')][1], printed'[Len(printed')][2])
    BY <1>1, <2>1, <2>3
  <2>7. QED
    BY <1>1, <1>3, <1>6, <2>3, <2>5, <2>6 DEF ListInv
<1>7. QED
  BY <1>5, <1>6

\* Hence every step keeps the lists in order.
LEMMA ListInvStep ==
  ASSUME TypeInv, ListInv, [Next]_vars
  PROVE  ListInv'
<1>1. CASE UNCHANGED vars
  BY <1>1, SameListInv DEF vars, guiVars, slotVars, clientVars
<1>2. CASE \/ Start \/ ChooseGame \/ EnterGame \/ \E type \in Menu : Choose(type)
  BY <1>2, SameListInv DEF Start, ChooseGame, EnterGame, Choose, Writes, slotVars, clientVars
<1>3. CASE GuiWrite \/ Kill
  <2>1. /\ UNCHANGED <<elements, toGui>> /\ element' = NoElement /\ printed' = << >>
    BY <1>3 DEF GuiWrite, Kill, Off, slotVars, clientVars
  <2>2. OneAnswer' /\ element'.type = "PT_NONE"
    BY <2>1 DEF OneAnswer, NoElement
  <2>3. QED
    BY <2>1, <2>2 DEF ListInv
<1>4. CASE readDeamon \/ DaemonCloses \/ DaemonJoins
  BY <1>4, SameListInv DEF readDeamon, DaemonCloses, DaemonJoins, guiVars, slotVars, clientVars
<1>5. CASE Connection
  <2>1. UNCHANGED <<toGui, gui, element, printed>>
    BY <1>5 DEF Connection, slotVars, guiVars
  <2>2. HandleReadBody \/ UNCHANGED elements
    BY <1>5 DEF Connection, IoThread, Server, HandleConnect, HandleConnectFails,
       HandleReadHeader, HandleReadFails, DoWrite, DoClose, HandleWrite, HandleWriteFails,
       RunReturns, ServerReads, ServerLost
  <2>3. QED
    BY <2>1, <2>2, ReadBodyListInv, SameListInv
<1>6. QED
  BY <1>1, <1>2, <1>3, <1>4, <1>5, ReadGuiListInv, ReadAgainListInv, OnRecvWriteListInv
     DEF Next, Gui, Daemon

LEMMA ListInvInit == Init => ListInv
BY DEF Init, ClientInit, ListInv, OneAnswer

LEMMA ListInvInvariant == Spec => [](TypeInv /\ CommandInv /\ ListInv)
BY ListInvInit, ListInvStep, CommandInvInvariant, PTL DEF Spec

\* What is on the screen is a part of one list without gaps, whenever a GUI is
\* killed and whatever the next one finds in the shared memory.
THEOREM OneAnswerIsShown == Spec => []OneAnswer
<1>1. ListInv => OneAnswer
  BY DEF ListInv
<1>2. QED
  BY <1>1, ListInvInvariant, PTL

-----------------------------------------------------------------------------
(* The answers.                                                            *)

\* A command on its way to the connection, or one that is dropped from the way
\* or handled without an answer, leaves the rest alone.
LEMMA PassedAnswerInv ==
  ASSUME AnswerInv,
         UNCHANGED <<kills, down, elements, toGui, gui, element, printed, command>>,
         toDaemon' \in {toDaemon, None},
         kills = 0 => \A i \in answered' + 1 .. Len(Sent') :
           Sent'[i].type \in Query =>
             \/ i \in answered + 1 .. Len(Sent) /\ Sent[i].type \in Query
             \/ /\ toDaemon # None /\ toDaemon.type \in {"PT_GET_USERS", "PT_GET_GAMES"}
                /\ toDaemon.n = i
  PROVE  AnswerInv'
<1>1. Fresh' = Fresh /\ Waiting' = Waiting /\ Shown' = Shown
  BY DEF Fresh, Waiting, Shown
<1>2. SUFFICES ASSUME kills = 0 PROVE AnswerInv'
  BY DEF AnswerInv
<1>3. QED
  BY <1>1, <1>2 DEF AnswerInv

\* Nothing is on its way unless the GUI waits for it.
LEMMA NothingPending ==
  ASSUME TypeInv, AnswerInv, kills = 0, gui # "reads"
  PROVE  /\ elements = << >> /\ toGui = None
         /\ ~(toDaemon # None /\ toDaemon.type \in {"PT_GET_USERS", "PT_GET_GAMES"})
         /\ \A i \in answered + 1 .. Len(Sent) : Sent[i].type \notin Query
         /\ \A i \in DOMAIN down : down[i].type \notin Query
<1>1. elements \in Seq(Element)
  BY DEF TypeInv, TypeOK, ConnectionOK
<1>2. DOMAIN elements = {}
  BY DEF AnswerInv
<1>3. elements = << >>
  BY <1>1, <1>2, EmptySeq, LenProperties
<1>4. QED
  BY <1>3 DEF AnswerInv

\* A GUI that begins a new command has been shown the whole answer before.
LEMMA GuiAnswerInv ==
  ASSUME TypeInv, CommandInv, AnswerInv, Gui, ~readGui, ~readGuiAgain
  PROVE  AnswerInv'
<1>1. UNCHANGED <<elements, down, answered, up, write_msgs, posted, toGui>>
  BY DEF Gui, Start, Choose, ChooseGame, EnterGame, GuiWrite, Kill, slotVars, clientVars,
         asyncVars, socketVars, serverVars
<1>2. Sent' = Sent
  BY <1>1 DEF Sent
<1>3. ASSUME NEW type, Writes(type), gui # "reads", UNCHANGED <<toDaemon, element, printed, kills>>
      PROVE  AnswerInv'
  <2> SUFFICES ASSUME kills = 0 PROVE AnswerInv'
    BY <1>3 DEF AnswerInv
  <2>1. gui' = "writes"
    BY <1>3 DEF Writes
  <2>2. DOMAIN elements' = {}
    BY <1>1, <1>3, NothingPending
  <2>3. element'.type \in {"PT_STRING", "PT_STRING_END"} =>
          Shown' = {element'.n} \X (1 .. element'.line)
    BY <1>3 DEF AnswerInv, Shown
  <2>4. QED
    BY <1>1, <1>2, <1>3, <2>1, <2>2, <2>3, NothingPending DEF AnswerInv
<1>4. CASE \/ Start \/ ChooseGame \/ EnterGame \/ \E type \in Menu : Choose(type)
  BY <1>3, <1>4 DEF Start, ChooseGame, EnterGame, Choose, slotVars
<1>5. CASE GuiWrite
  <2>1. /\ gui = "writes" /\ toDaemon' = command /\ element' = NoElement /\ printed' = << >>
        /\ command.type \in {"PT_GET_USERS", "PT_GET_GAMES"} => gui' = "reads"
        /\ UNCHANGED <<command, kills>>
    BY <1>5 DEF GuiWrite
  <2> SUFFICES ASSUME kills = 0 PROVE AnswerInv'
    BY <2>1 DEF AnswerInv
  <2>2. /\ elements' = << >> /\ toGui' = None /\ DOMAIN elements' = {}
        /\ \A i \in DOMAIN down' : down'[i].type \notin Query
        /\ \A i \in answered' + 1 .. Len(Sent') : Sent'[i].type \notin Query
    BY <1>1, <1>2, <2>1, NothingPending
  <2>3. Waiting' /\ element'.type = "PT_NONE" /\ Shown' = {}
    BY <2>1, <2>2 DEF Waiting, Fresh, NoElement, Shown
  <2>4. QED
    BY <2>1, <2>2, <2>3 DEF AnswerInv
<1>6. CASE Kill
  <2>1. kills' # 0
    BY <1>6, LobbyAssumption DEF Kill, TypeInv, TypeOK, MachineOK
  <2>2. QED
    BY <2>1 DEF AnswerInv
<1>7. QED
  BY <1>4, <1>5, <1>6 DEF Gui

\* What the GUI reads is the next element of its own list.
LEMMA ReadGuiAnswerInv ==
  ASSUME TypeInv, ListInv, AnswerInv, readGui
  PROVE  AnswerInv'
<1>1. /\ gui = "reads" /\ toGui # None /\ toGui' = None /\ element' = toGui
      /\ printed' = Prints(toGui)
      /\ UNCHANGED <<elements, down, answered, up, write_msgs, posted, toDaemon, command, kills>>
      /\ gui' \in {"reads", "asks", "menu"}
      /\ gui' = "reads" <=> toGui.type \in {"PT_STRING_BEGIN", "PT_STRING"}
  BY DEF readGui, slotVars, clientVars, asyncVars, socketVars, serverVars
<1>2. Sent' = Sent
  BY <1>1 DEF Sent
<1> SUFFICES ASSUME kills = 0 PROVE AnswerInv'
  BY <1>1 DEF AnswerInv
<1>3. ~Fresh /\ ~Waiting
  BY <1>1 DEF Fresh, Waiting
<1>4. /\ toGui.n = command.n /\ (toGui.type = "PT_STRING_END" => elements = << >>)
      /\ toGui \in Element /\ printed \in Seq(Numbers \X (0 .. MaxLines)) /\ element \in Element
  BY <1>1 DEF AnswerInv, TypeInv, TypeOK, MachineOK, Numbers
<1>5. toGui.type \in {"PT_STRING_BEGIN", "PT_STRING", "PT_STRING_END"}
  BY <1>1 DEF ListInv, Follows
<1>6. /\ element.type = "PT_NONE" => toGui = Begin(command.n) /\ printed = << >>
      /\ element.type # "PT_STRING_END"
      /\ element.type # "PT_NONE" =>
           Shown = {command.n} \X (1 .. element.line) /\ Follows(element, toGui)
  BY <1>1, <1>4 DEF AnswerInv, ListInv, Line, Element
<1>7. /\ toGui.type = "PT_STRING_BEGIN" => toGui.line = 0 /\ Shown = {}
      /\ toGui.type = "PT_STRING" =>
           toGui.line = element.line + 1 /\ Shown = {command.n} \X (1 .. element.line)
      /\ toGui.type = "PT_STRING_END" => Shown = {command.n} \X (1 .. toGui.line)
  <2>1. CASE element.type = "PT_NONE"
    BY <1>6, <2>1 DEF Begin, Shown
  <2>2. CASE element.type # "PT_NONE"
    BY <1>6, <2>2 DEF Follows
  <2>3. QED
    BY <2>1, <2>2
<1>8. /\ element'.type \in {"PT_STRING_BEGIN", "PT_STRING", "PT_STRING_END"}
      /\ element'.n = command'.n
      /\ Shown' = {command'.n} \X (1 .. element'.line)
  <2>1. CASE toGui.type = "PT_STRING_BEGIN"
    <3>1. Shown' = {} /\ element'.line = 0
      BY <1>1, <1>7, <2>1 DEF Prints, Shown
    <3>2. {command.n} \X (1 .. 0) = {}
      OBVIOUS
    <3>3. QED
      BY <1>1, <1>4, <1>5, <3>1, <3>2
  <2>2. CASE toGui.type = "PT_STRING"
    <3> DEFINE line == <<command.n, element.line + 1>>
               upTo(k) == {command.n} \X (1 .. k)
    <3>1. line \in Numbers \X (0 .. MaxLines) /\ printed' = Append(printed, line)
      BY <1>1, <1>4, <1>7, <2>2 DEF Prints, Element, Numbers
    <3>2. Shown' = Shown \cup {line}
      BY <1>4, <3>1, ShownAppend, Zenon
    <3>3. element.line \in Nat
      BY <1>4, ClientAssumption DEF Element
    <3>4. upTo(element.line + 1) = upTo(element.line) \cup {line}
      BY <3>3
    <3>5. QED
      BY <1>1, <1>4, <1>5, <1>7, <2>2, <3>2, <3>4
  <2>3. CASE toGui.type = "PT_STRING_END"
    <3>1. Shown' = Shown
      BY <1>1, <2>3 DEF Prints, Shown
    <3>2. QED
      BY <1>1, <1>4, <1>5, <1>7, <2>3, <3>1
  <2>4. QED
    BY <1>5, <2>1, <2>2, <2>3
<1>9. \A i \in DOMAIN elements' :
        /\ gui' = "reads" /\ elements'[i].n = command'.n
        /\ elements'[i].type = "PT_STRING_END" => i = Len(elements')
        /\ elements'[i].type # "PT_STRING_BEGIN"
  BY <1>1, <1>4, <1>5 DEF AnswerInv
<1>10. \A line \in Shown' : line[1] = command'.n
  BY <1>8
<1>11. QED
  BY <1>1, <1>2, <1>3, <1>8, <1>9, <1>10 DEF AnswerInv

\* A line printed again adds nothing to what is shown.
LEMMA ReadAgainAnswerInv ==
  ASSUME TypeInv, ListInv, AnswerInv, readGuiAgain
  PROVE  AnswerInv'
<1>1. UNCHANGED <<kills, down, elements, toGui, gui, element, command, toDaemon, answered, up,
                  write_msgs, posted>>
  BY DEF readGuiAgain, clientVars, slotVars, asyncVars, socketVars, serverVars
<1>2. Shown' = Shown
  BY PrintedAgain
<1>3. Sent' = Sent /\ Fresh' = Fresh /\ Waiting' = Waiting
  BY <1>1 DEF Sent, Fresh, Waiting
<1> SUFFICES ASSUME kills = 0 PROVE AnswerInv'
  BY <1>1 DEF AnswerInv
<1> QED
  BY <1>1, <1>2, <1>3 DEF AnswerInv

\* Writing an element leaves the rest of the same list.
LEMMA OnRecvWriteAnswerInv ==
  ASSUME TypeInv, ListInv, AnswerInv, OnRecvWrite
  PROVE  AnswerInv'
<1>1. /\ elements \in Seq(Element) /\ elements # << >> /\ toGui = None
      /\ toGui' = Head(elements) /\ elements' = Tail(elements)
      /\ UNCHANGED <<element, printed, gui, toDaemon, command, kills, down, answered, up,
                     write_msgs, posted>>
  BY DEF OnRecvWrite, Written, guiVars, TypeInv, TypeOK, ConnectionOK, asyncVars, serverVars
<1>2. /\ Head(elements) = elements[1] /\ Len(elements) \in Nat \ {0}
      /\ DOMAIN elements = 1 .. Len(elements)
      /\ elements' \in Seq(Element) /\ Len(elements') = Len(elements) - 1
      /\ DOMAIN elements' = 1 .. Len(elements) - 1
      /\ \A i \in 1 .. Len(elements) - 1 : elements'[i] = elements[i + 1]
  BY <1>1, HeadTaken, LenProperties
<1>3. Sent' = Sent /\ toGui' # None
  BY <1>1, NoneAssumption, HeadTaken DEF Sent
<1> SUFFICES ASSUME kills = 0 PROVE AnswerInv'
  BY <1>1 DEF AnswerInv
<1>4. ~Fresh /\ ~Waiting
  BY <1>1 DEF Fresh, Waiting
<1>5. /\ \A i \in 1 .. Len(elements) :
           /\ gui = "reads" /\ elements[i].n = command.n
           /\ elements[i].type = "PT_STRING_END" => i = Len(elements)
      /\ element.type = "PT_NONE" => elements[1] = Begin(command.n)
  <2>1. \A i \in DOMAIN elements :
          /\ gui = "reads" /\ elements[i].n = command.n
          /\ elements[i].type = "PT_STRING_END" => i = Len(elements)
    BY Zenon DEF AnswerInv
  <2>2. 1 \in DOMAIN elements
    BY <1>1, <1>2
  <2>3. element.type = "PT_NONE" => elements[1] = Begin(command.n)
    BY <1>1, <2>1, <2>2, Zenon DEF AnswerInv
  <2>4. QED
    BY <1>2, <2>1, <2>3, Zenon
<1>6. ASSUME NEW i \in DOMAIN elements'
      PROVE  /\ gui' = "reads" /\ elements'[i].n = command'.n
             /\ elements'[i].type = "PT_STRING_END" => i = Len(elements')
             /\ elements'[i].type # "PT_STRING_BEGIN"
  <2>1. i \in 1 .. Len(elements) - 1 /\ i + 1 \in 1 .. Len(elements) /\ i \in 1 .. Len(elements)
        /\ i # Len(elements) /\ elements'[i] = elements[i + 1]
    BY <1>2
  <2>2. elements[i].type # "PT_STRING_END" /\ Follows(elements[i], elements[i + 1])
    BY <1>5, <2>1 DEF ListInv
  <2>3. elements[i + 1].type # "PT_STRING_BEGIN"
    BY <2>2 DEF Follows
  <2>4. elements'[i].type = "PT_STRING_END" => i = Len(elements')
    <3>1. elements[i + 1].type = "PT_STRING_END" => i + 1 = Len(elements)
      BY <1>5, <2>1
    <3>2. i + 1 = Len(elements) => i = Len(elements')
      BY <1>2, <2>1
    <3>3. QED
      BY <2>1, <3>1, <3>2
  <2>5. gui = "reads" /\ elements[i + 1].n = command.n
    BY <1>5, <2>1
  <2>6. QED
    BY <1>1, <2>1, <2>3, <2>4, <2>5
<1>7. /\ gui' = "reads" /\ toGui'.n = command'.n
      /\ toGui'.type = "PT_STRING_END" => elements' = << >>
  <2>1. 1 \in 1 .. Len(elements) /\ toGui' = elements[1]
    BY <1>1, <1>2
  <2>2. /\ gui = "reads" /\ elements[1].n = command.n
        /\ elements[1].type = "PT_STRING_END" => 1 = Len(elements)
    BY <1>5, <2>1
  <2>3. 1 = Len(elements) => elements' = << >>
    <3>1. CASE 1 = Len(elements)
      <4>1. Len(elements') = Len(elements) - 1
        BY <1>2
      <4>2. Len(elements') = 1 - 1
        BY <3>1, <4>1, Zenon
      <4>3. Len(elements') = 0
        BY <4>2
      <4>4. QED
        BY <1>2, <4>3, EmptySeq
    <3>2. QED
      BY <3>1
  <2>4. QED
    BY <1>1, <2>1, <2>2, <2>3
<1>8. element'.type = "PT_NONE" => toGui' = Begin(command'.n)
  BY <1>1, <1>2, <1>5
<1>9. Shown' = Shown
  BY <1>1 DEF Shown
<1>10. QED
  BY <1>1, <1>3, <1>4, <1>6, <1>7, <1>8, <1>9 DEF AnswerInv

\* A list that is shown is the only one there is.
LEMMA ReadBodyAnswerInv ==
  ASSUME TypeInv, AnswerInv, HandleReadBody,
         UNCHANGED <<toGui, element, printed, gui, toDaemon, command, kills>>
  PROVE  AnswerInv'
<1>1. /\ elements = << >> /\ elements' \in {OnRecv(Head(down)), << >>}
      /\ down # << >> /\ down \in Seq(Down) /\ down' = Tail(down)
      /\ UNCHANGED <<answered, up, write_msgs, posted>>
  BY DEF HandleReadBody, Handles, TypeInv, TypeOK, ConnectionOK, Down, Numbers, asyncVars
<1>2. /\ Head(down) \in Down /\ Head(down) = down[1] /\ Len(down) \in Nat \ {0}
      /\ DOMAIN down = 1 .. Len(down) /\ DOMAIN down' = 1 .. Len(down) - 1
      /\ Len(down') = Len(down) - 1
      /\ \A i \in 1 .. Len(down) - 1 : down'[i] = down[i + 1]
  BY <1>1, HeadTaken, LenProperties
<1>3. Sent' = Sent /\ Shown' = Shown
  BY <1>1 DEF Sent, Shown
<1> SUFFICES ASSUME kills = 0 PROVE AnswerInv'
  BY DEF AnswerInv
<1>4. CASE elements' = << >>
  <2>1. elements' = << >>
    BY <1>4
  <2>2. Fresh' = Fresh
    BY <1>1, <2>1 DEF Fresh
  <2>3. \A i \in DOMAIN down' : i + 1 \in DOMAIN down /\ down'[i] = down[i + 1]
    BY <1>2
  <2>4. Waiting => Waiting'
    BY <2>2, <2>3 DEF Waiting
  <2>5. ASSUME NEW i \in DOMAIN down', down'[i].type \in Query
        PROVE  gui = "reads" /\ i = Len(down') /\ down'[i].n = command.n /\ Fresh
    <3>1. gui = "reads" /\ i + 1 = Len(down) /\ down[i + 1].n = command.n /\ Fresh
      BY <2>3, <2>5 DEF AnswerInv
    <3>2. QED
      BY <1>2, <2>3, <3>1
  <2>6. QED
    BY <1>1, <1>3, <2>1, <2>2, <2>4, <2>5 DEF AnswerInv
<1>5. CASE elements' # << >>
  <2> DEFINE p == Head(down)
  <2>0. p.type \in Query /\ elements' = OnRecv(p)
    BY <1>1, <1>2, <1>5, OnRecvList
  <2>1. /\ gui = "reads" /\ Len(down) = 1 /\ p.n = command.n /\ Fresh /\ ~Waiting
    <3>1. 1 \in DOMAIN down /\ down[1].type \in Query
      BY <1>2, <2>0
    <3>2. QED
      BY <1>2, <3>1 DEF AnswerInv, Waiting
  <2>2. DOMAIN down' = {}
    BY <1>2, <2>1
  <2>3. toGui = None /\ element = NoElement
    BY <2>1 DEF Fresh
  <2>4. /\ p.lines \in Nat /\ Len(elements') = p.lines + 2
        /\ elements'[1] = Begin(p.n)
        /\ \A i \in 1 .. p.lines : elements'[i + 1] = Line(p.n, i)
        /\ elements'[p.lines + 2] = End(p.n, p.lines)
        /\ DOMAIN elements' = 1 .. p.lines + 2
    <3>1. p \in Down /\ p.lines \in Nat
      BY <1>2, ClientAssumption DEF Down
    <3>2. elements' \in Seq(Element)
      BY <2>0, <3>1, OnRecvList
    <3>3. DOMAIN elements' = 1 .. Len(elements')
      BY <3>2, LenProperties
    <3>4. QED
      BY <2>0, <3>1, <3>3, OnRecvList
  <2> HIDE DEF p
  <2>5. ASSUME NEW i \in DOMAIN elements'
        PROVE  /\ elements'[i].n = command.n
               /\ elements'[i].type = "PT_STRING_END" => i = Len(elements')
    <3>1. CASE i = 1
      BY <2>1, <2>4, <3>1 DEF Begin
    <3>2. CASE i = p.lines + 2
      BY <2>1, <2>4, <3>2 DEF End
    <3>3. CASE i # 1 /\ i # p.lines + 2
      <4>1. i - 1 \in 1 .. p.lines /\ (i - 1) + 1 = i
        BY <2>4, <3>3
      <4>2. elements'[i] = Line(p.n, i - 1)
        BY <2>4, <4>1
      <4>3. QED
        BY <2>1, <4>2 DEF Line
    <3>4. QED
      BY <3>1, <3>2, <3>3
  <2>6. QED
    BY <1>1, <1>3, <2>1, <2>2, <2>3, <2>4, <2>5 DEF AnswerInv
<1>6. QED
  BY <1>4, <1>5

\* The server answers a query once, and there is no other.
LEMMA ServerReadsAnswerInv ==
  ASSUME TypeInv, CommandInv, AnswerInv, ServerReads,
         UNCHANGED <<toGui, element, printed, gui, toDaemon, command, kills>>
  PROVE  AnswerInv'
<1> DEFINE p == up[answered + 1]
<1>1. /\ answered < Len(up) /\ answered' = answered + 1
      /\ UNCHANGED <<elements, up, write_msgs, posted>>
      /\ \/ UNCHANGED down
         \/ \E k \in 0 .. MaxLines : /\ p.type \in Query
                                     /\ down' = Append(down, [type |-> p.type, n |-> p.n, lines |-> k])
  BY DEF ServerReads, Answers, asyncVars, socketVars
<1>2. /\ Sent \in Seq(Packets) /\ Len(Sent) \in Nat /\ DOMAIN Sent = 1 .. Len(Sent)
      /\ answered \in Nat /\ answered + 1 \in answered + 1 .. Len(Sent)
      /\ answered + 1 \in DOMAIN Sent /\ Sent[answered + 1] = p /\ p # Close
  <2>1. /\ Sent \in Seq(Packets) /\ Len(Sent) = Len(up) + Len(write_msgs) + Len(posted)
        /\ Len(up) \in Nat /\ Len(write_msgs) \in Nat /\ Len(posted) \in Nat
        /\ \A i \in 1 .. Len(up) : Sent[i] = up[i]
    BY SentType DEF TypeInv
  <2>2. answered \in Nat /\ answered + 1 \in 1 .. Len(up)
    BY <1>1, <2>1 DEF TypeInv, TypeOK, ConnectionOK
  <2>3. Len(Sent) \in Nat /\ answered + 1 \in answered + 1 .. Len(Sent)
        /\ answered + 1 \in 1 .. Len(Sent)
    BY <2>1, <2>2
  <2>4. p \in Message
    BY <2>2, ElementOfSeq DEF TypeInv, TypeOK, ConnectionOK
  <2>5. QED
    BY <2>1, <2>2, <2>3, <2>4, MessageType, LenProperties
<1>3. Sent' = Sent /\ Shown' = Shown
  BY <1>1 DEF Sent, Shown
<1> HIDE DEF p
<1>4. CASE UNCHANGED down
  <2>1. \A i \in answered' + 1 .. Len(Sent') : i \in answered + 1 .. Len(Sent)
    BY <1>1, <1>2, <1>3
  <2>2. QED
    BY <1>1, <1>3, <1>4, <2>1, PassedAnswerInv
<1>5. ASSUME NEW k \in 0 .. MaxLines, p.type \in Query,
             down' = Append(down, [type |-> p.type, n |-> p.n, lines |-> k])
      PROVE  AnswerInv'
  <2> SUFFICES ASSUME kills = 0 PROVE AnswerInv'
    BY DEF AnswerInv
  <2>1. gui = "reads" /\ command.n = answered + 1 /\ Waiting /\ p.n = answered + 1
    BY <1>2, <1>5 DEF AnswerInv, CommandInv, GaplessInv
  <2>2. ~(toDaemon # None /\ toDaemon.type \in {"PT_GET_USERS", "PT_GET_GAMES"})
    <3>1. toDaemon # None => toDaemon.n = Len(Sent) + 1
      BY DEF CommandInv, GaplessInv
    <3>2. toDaemon # None => toDaemon.n # command.n
      BY <1>2, <2>1, <3>1
    <3>3. QED
      BY <3>2 DEF AnswerInv
  <2>3. \A i \in answered' + 1 .. Len(Sent') : Sent'[i].type \notin Query
    <3>1. \A i \in answered' + 1 .. Len(Sent') : i \in answered + 1 .. Len(Sent) /\ i # answered + 1
      BY <1>1, <1>2, <1>3
    <3>2. QED
      BY <1>3, <2>1, <3>1 DEF AnswerInv
  <2> DEFINE answer == [type |-> p.type, n |-> p.n, lines |-> k]
  <2>4. down \in Seq(Down) /\ answer \in Down
    <3>1. down \in Seq(Down) /\ p \in Message
      BY <1>2 DEF TypeInv, TypeOK, ConnectionOK, Down, Numbers, Packets
    <3>2. p.n \in Numbers
      BY <3>1, LobbyAssumption DEF Message, Numbers
    <3>3. QED
      BY <1>5, <3>1, <3>2 DEF Down
  <2>5. answer.n = command.n
    BY <2>1
  <2>6. down' = Append(down, answer)
    BY <1>5
  <2> HIDE DEF answer
  <2>7. /\ Len(down') = Len(down) + 1
        /\ \A i \in DOMAIN down' : i \in DOMAIN down \/ i = Len(down) + 1
        /\ \A i \in DOMAIN down : down'[i] = down[i]
        /\ down'[Len(down) + 1] = answer
    BY <2>4, <2>6, AppendProperties, LenProperties
  <2>8. Fresh /\ \A i \in DOMAIN down : down[i].type \notin Query
    BY <2>1 DEF Waiting
  <2>9. Fresh'
    BY <1>1, <2>8 DEF Fresh
  <2>10. \A i \in DOMAIN down' : down'[i].type \in Query =>
           gui' = "reads" /\ i = Len(down') /\ down'[i].n = command'.n /\ Fresh'
    BY <2>1, <2>5, <2>7, <2>8, <2>9
  <2>11. QED
    BY <1>1, <1>3, <2>2, <2>3, <2>10 DEF AnswerInv
<1>6. QED
  BY <1>1, <1>4, <1>5

\* The daemon passes on the one question there is.
LEMMA DaemonAnswerInv ==
  ASSUME TypeInv, CommandInv, ListInv, AnswerInv, Daemon
  PROVE  AnswerInv'
<1>1. /\ TypeOK /\ Sent \in Seq(Packets) /\ Len(Sent) \in Nat /\ DOMAIN Sent = 1 .. Len(Sent)
      /\ answered \in Nat
  <2>1. /\ TypeOK /\ Sent \in Seq(Packets) /\ Len(Sent) \in Nat /\ Len(up) \in Nat
    BY SentType, LenProperties DEF TypeInv
  <2>2. QED
    BY <2>1, LenProperties DEF TypeOK, ConnectionOK
<1>2. ASSUME NEW m \in Packets, Sent' = Append(Sent, m), UNCHANGED answered
      PROVE  /\ Len(Sent') = Len(Sent) + 1 /\ Sent'[Len(Sent) + 1] = m
             /\ \A i \in answered' + 1 .. Len(Sent') :
                  \/ i \in answered + 1 .. Len(Sent) /\ Sent'[i] = Sent[i]
                  \/ i = Len(Sent) + 1
  <2>1. /\ Len(Sent') = Len(Sent) + 1 /\ Sent'[Len(Sent) + 1] = m
        /\ \A i \in 1 .. Len(Sent) : Sent'[i] = Sent[i]
    BY <1>1, <1>2, AppendProperties
  <2>2. \A i \in answered' + 1 .. Len(Sent) + 1 :
          \/ i \in answered + 1 .. Len(Sent) /\ i \in 1 .. Len(Sent)
          \/ i = Len(Sent) + 1
    BY <1>1, <1>2
  <2>3. QED
    BY <2>1, <2>2
<1>3. CASE readDeamon
  <2> DEFINE m == [type |-> MsgType(toDaemon.type), n |-> toDaemon.n, id |-> id]
  <2>1. toDaemon # None /\ toDaemon \in Command /\ toDaemon' = None /\ daemon = "reads"
    BY <1>3 DEF readDeamon, TypeInv, TypeOK, MachineOK
  <2>2. /\ UNCHANGED <<kills, down, elements, toGui, gui, element, printed, command, up, write_msgs,
                       answered>>
        /\ posted' = Append(posted, m)
    BY <1>3 DEF readDeamon, write, guiVars, socketVars, serverVars
  <2>3. /\ m \in Packets
        /\ m.type \in Query => toDaemon.type \in {"PT_GET_USERS", "PT_GET_GAMES"}
    <3>1. /\ MsgType(toDaemon.type) \in {"MT_SET_NAME", "MT_BEGIN_GAME", "MT_DISCONNECT"} \cup Query
          /\ MsgType(toDaemon.type) \in Query => toDaemon.type \in {"PT_GET_USERS", "PT_GET_GAMES"}
      BY <2>1 DEF MsgType, Command, CommandType, Menu, Query
    <3>2. id \in SessionIds \cup {0}
      BY <1>1 DEF TypeOK, ConnectionOK
    <3>3. m \in Message
      BY <2>1, <3>1, <3>2 DEF Message, Command, RequestType
    <3>4. QED
      BY <3>1, <3>3 DEF Packets
  <2> HIDE DEF m
  <2>4. Sent' = Append(Sent, m)
    BY <1>1, <2>2, <2>3, SentAppend
  <2>5. kills = 0 => toDaemon.n = Len(Sent) + 1
    BY <2>1 DEF CommandInv, GaplessInv
  <2>6. kills = 0 => \A i \in answered' + 1 .. Len(Sent') :
          Sent'[i].type \in Query =>
            \/ i \in answered + 1 .. Len(Sent) /\ Sent[i].type \in Query
            \/ /\ toDaemon # None /\ toDaemon.type \in {"PT_GET_USERS", "PT_GET_GAMES"}
               /\ toDaemon.n = i
    BY <1>2, <2>1, <2>2, <2>3, <2>4, <2>5
  <2>7. QED
    BY <2>1, <2>2, <2>6, PassedAnswerInv
<1>4. CASE DaemonCloses
  <2>1. /\ UNCHANGED <<kills, down, elements, toGui, gui, element, printed, command, up, write_msgs,
                       answered, toDaemon>>
        /\ posted' = Append(posted, Close)
    BY <1>4 DEF DaemonCloses, close, guiVars, slotVars, socketVars, serverVars
  <2>2. Sent' = Append(Sent, Close) /\ Close \in Packets /\ Close.type \notin Query
    BY <1>1, <2>1, SentAppend DEF Packets, Close, Query
  <2>3. kills = 0 => \A i \in answered' + 1 .. Len(Sent') :
          Sent'[i].type \in Query =>
            i \in answered + 1 .. Len(Sent) /\ Sent[i].type \in Query
    BY <1>2, <2>1, <2>2
  <2>4. QED
    BY <2>1, <2>3, PassedAnswerInv
<1>5. CASE DaemonJoins
  <2>1. /\ UNCHANGED <<kills, down, elements, toGui, gui, element, printed, command, up, write_msgs,
                       posted, answered, toDaemon>>
    BY <1>5 DEF DaemonJoins, guiVars, slotVars, clientVars, asyncVars, socketVars, serverVars
  <2>2. Sent' = Sent
    BY <2>1 DEF Sent
  <2>3. QED
    BY <2>1, <2>2, PassedAnswerInv
<1>6. QED
  BY <1>3, <1>4, <1>5, OnRecvWriteAnswerInv DEF Daemon

\* Handlers and the server pass it on too, and its answer back.
LEMMA ConnectionAnswerInv ==
  ASSUME TypeInv, CommandInv, AnswerInv, Connection
  PROVE  AnswerInv'
<1>1. /\ UNCHANGED <<toDaemon, toGui, gui, element, printed, command, kills>>
      /\ TypeOK /\ (writing => write_msgs # << >>) /\ answered \in Nat
  <2>1. Len(up) \in Nat
    BY SentType DEF TypeInv
  <2>2. QED
    BY <2>1 DEF Connection, slotVars, guiVars, TypeInv, TypeOK, ConnectionOK
<1>2. CASE HandleConnect
  <2>1. /\ UNCHANGED <<elements, answered, up, write_msgs, posted>> /\ down' = <<SetId>>
    BY <1>2 DEF HandleConnect
  <2>2. Sent' = Sent /\ Fresh' = Fresh /\ Shown' = Shown
    BY <1>1, <2>1 DEF Sent, Fresh, Shown
  <2>3. \A i \in DOMAIN down' : down'[i].type \notin Query
    <3>1. DOMAIN down' = {1} /\ down'[1] = SetId
      BY <2>1
    <3>2. QED
      BY <3>1 DEF SetId, Query
  <2>4. Waiting => Waiting'
    BY <2>2, <2>3 DEF Waiting
  <2>5. QED
    BY <1>1, <2>1, <2>2, <2>3, <2>4 DEF AnswerInv
<1>3. CASE DoClose
  <2>1. /\ Sent \in Seq(Packets) /\ Len(Sent) \in Nat /\ Len(Sent') = Len(Sent) - 1
        /\ \A i \in 1 .. Len(Sent) - 1 : Sent'[i] = Sent[i]
    BY <1>1, <1>3, SentClosed DEF CommandInv
  <2>2. UNCHANGED <<down, elements, answered>>
    BY <1>3 DEF DoClose, serverVars
  <2>3. \A i \in answered' + 1 .. Len(Sent') :
          i \in answered + 1 .. Len(Sent) /\ Sent'[i] = Sent[i]
    <3>1. \A i \in answered + 1 .. Len(Sent) - 1 :
            i \in answered + 1 .. Len(Sent) /\ i \in 1 .. Len(Sent) - 1
      BY <1>1, <2>1
    <3>2. QED
      BY <2>1, <2>2, <3>1
  <2>4. QED
    BY <1>1, <2>2, <2>3, PassedAnswerInv
<1>4. CASE ~DoClose /\ ~HandleConnect /\ ~HandleReadBody /\ ~ServerReads
  <2>1. \/ DoWrite \/ (HandleWrite /\ write_msgs # << >>)
        \/ UNCHANGED <<up, write_msgs, posted>>
    BY <1>1, <1>4 DEF Connection, IoThread, Server, HandleConnectFails,
       HandleReadHeader, HandleReadFails, HandleWrite, HandleWriteFails,
       RunReturns, ServerLost, asyncVars, socketVars, serverVars
  <2>2. Sent' = Sent
    BY <1>1, <2>1, SentMoved DEF Sent
  <2>3. UNCHANGED <<down, elements, answered>>
    BY <1>4 DEF Connection, IoThread, Server, HandleConnectFails, HandleReadHeader,
       HandleReadFails, DoWrite, HandleWrite, HandleWriteFails, RunReturns, ServerLost, serverVars
  <2>4. QED
    BY <1>1, <2>2, <2>3, PassedAnswerInv
<1>5. QED
  BY <1>1, <1>2, <1>3, <1>4, ReadBodyAnswerInv, ServerReadsAnswerInv

\* Hence every step keeps question and answer together.
LEMMA AnswerInvStep ==
  ASSUME TypeInv, CommandInv, ListInv, AnswerInv, [Next]_vars
  PROVE  AnswerInv'
<1>1. CASE UNCHANGED vars
  <2>1. UNCHANGED <<kills, down, elements, toGui, gui, element, printed, command, up, write_msgs,
                    posted, answered, toDaemon>>
    BY <1>1 DEF vars, guiVars, slotVars, clientVars, asyncVars, socketVars, serverVars
  <2>2. Sent' = Sent
    BY <2>1 DEF Sent
  <2>3. QED
    BY <2>1, <2>2, PassedAnswerInv
<1>2. QED
  BY <1>1, GuiAnswerInv, ReadGuiAnswerInv, ReadAgainAnswerInv, DaemonAnswerInv,
     ConnectionAnswerInv DEF Next

LEMMA AnswerInvInit == Init => AnswerInv
<1> SUFFICES ASSUME Init PROVE AnswerInv
  OBVIOUS
<1>1. /\ Sent = << >> /\ answered = 0 /\ down = << >> /\ elements = << >> /\ toGui = None
      /\ toDaemon = None /\ gui = "off" /\ Shown = {} /\ element.type = "PT_NONE"
  BY DEF Init, ClientInit, Sent, NoElement, Shown
<1>2. answered + 1 .. Len(Sent) = {}
  BY <1>1
<1>3. QED
  BY <1>1, <1>2 DEF AnswerInv

LEMMA AnswerInvInvariant == Spec => [](TypeInv /\ CommandInv /\ ListInv /\ AnswerInv)
BY AnswerInvInit, AnswerInvStep, ListInvInvariant, PTL DEF Spec

\* As long as no GUI is killed, the screen shows the answer to the command that
\* was given last, whole when the menu comes back, and nothing is left over.
THEOREM AnswerIsShown == Spec => []AnswerShown
<1>1. ASSUME TypeInv, AnswerInv
      PROVE  AnswerShown
  <2> SUFFICES ASSUME kills = 0 PROVE AnswerShown
    BY DEF AnswerShown
  <2>1. gui \in {"menu", "asks"} => toGui = None /\ elements = << >>
    BY <1>1, NothingPending
  <2>2. QED
    BY <1>1, <2>1 DEF AnswerInv, AnswerShown
<1>2. TypeInv /\ AnswerInv => AnswerShown
  BY <1>1
<1>3. QED
  BY <1>2, AnswerInvInvariant, PTL
-----------------------------------------------------------------------------
(* The header of a packet.                                                 *)

LEMMA HeaderType ==
  ASSUME NEW m \in Message, m.id <= 999, NEW length \in BodyLengths
  PROVE  HeaderOf(m.type, m.id, length) \in [Fields -> 0 .. 999]
<1> DEFINE Small == 0 .. 999
<1>1. length \in Small
  BY ClientAssumption DEF max_body_length
<1>2. m.id \in Small
  <2>1. PICK i \in SessionIds \cup {0} : i = m.id
    BY Zenon DEF Message
  <2>2. SessionIds \cup {0} \subseteq Nat
    BY ClientAssumption
  <2>3. i <= 999
    BY <2>1
  <2>4. i \in 0 .. 999
    BY <2>2, <2>3
  <2> QED
    BY <2>1, <2>4
<1>3. MsgNumber(m.type) \in Small
  <2>1. m.type \in {"MT_SET_NAME", "MT_BEGIN_GAME", "MT_DISCONNECT", "MT_GET_USERS", "MT_GET_GAMES"}
    BY DEF Message, Query, RequestType
  <2> QED
    BY <2>1 DEF MsgNumber
<1>4. ASSUME NEW S, NEW a \in S, NEW b \in S, NEW c \in S, NEW d \in S
      PROVE  [type |-> a, senderId |-> b, reciverId |-> c, body_length |-> d] \in [Fields -> S]
  BY DEF Fields
<1> HIDE DEF Small
<1>5. HeaderOf(m.type, m.id, length) \in [Fields -> Small]
  BY <1>1, <1>2, <1>3, <1>4, Zenon DEF HeaderOf
<1> QED
  BY <1>5 DEF Small

(* The server reads the header the client has written, for every session   *)
(* with an id below 1000 (Packet.h, encode_header and decode_header).      *)
THEOREM HeaderArrives == Spec => []HeaderSurvives
<1>1. TypeInv => HeaderSurvives
  <2> SUFFICES ASSUME TypeInv, up # << >>, up[Len(up)].id <= 999,
                      NEW length \in BodyLengths, NEW layout \in Layout
               PROVE  decode_header(encode_header(HeaderOf(up[Len(up)].type, up[Len(up)].id, length)), layout)
                        = HeaderOf(up[Len(up)].type, up[Len(up)].id, length)
    BY Zenon DEF HeaderSurvives
  <2>1. up[Len(up)] \in Message
    BY DEF TypeInv, TypeOK, ConnectionOK
  <2>2. HeaderOf(up[Len(up)].type, up[Len(up)].id, length) \in [Fields -> 0 .. 999]
    BY <2>1, HeaderType, ZenonT(40)
  <2> QED
    BY <2>2, HeaderDecoded, ZenonT(40)
<1> QED
  BY <1>1, TypeInvInvariant, PTL
-----------------------------------------------------------------------------
(* The way of the commands implements CommandQueue.                        *)

Req == [type : RequestType, n : 1 .. MaxCommands]

\* The state of CommandQueue that a state of the client machine stands for.
Offered == IF gui = "writes" THEN <<RequestOf(command)>> ELSE << >>
InSlot  == IF toDaemon = None THEN << >> ELSE <<RequestOf(toDaemon)>>
Issued  == Requests(Sent) \o InSlot

\* A sequence of packets in which a request to close can only be the last.
Ordered(s) == s \in Seq(Packets) /\ \A i \in DOMAIN s : s[i] = Close => i = Len(s)

LEMMA RequestType1 ==
  ASSUME NEW m \in Message
  PROVE  Request(m) \in Req
BY DEF Message, Request, Req

\* The requests in a sequence without a request to close, or before it.
LEMMA RequestsAre ==
  ASSUME NEW s, Ordered(s)
  PROVE  /\ Requests(s) \in Seq(Req)
         /\ Len(s) \in Nat
         /\ Len(Requests(s)) = IF Len(s) > 0 /\ s[Len(s)] = Close THEN Len(s) - 1 ELSE Len(s)
         /\ \A i \in 1 .. Len(Requests(s)) : i \in 1 .. Len(s) /\ Requests(s)[i] = Request(s[i])
<1> DEFINE k == IF Len(s) > 0 /\ s[Len(s)] = Close THEN Len(s) - 1 ELSE Len(s)
           r == [i \in 1 .. k |-> Request(s[i])]
<1>1. s \in Seq(Packets) /\ Len(s) \in Nat /\ DOMAIN s = 1 .. Len(s)
  BY LenProperties DEF Ordered
<1>2. k \in Nat /\ k <= Len(s)
  BY <1>1
<1>3. {j \in DOMAIN s : s[j] # Close} = 1 .. k
  <2>1. ASSUME NEW j \in 1 .. Len(s), s[j] # Close
        PROVE  j \in 1 .. k
    BY <1>1, <2>1
  <2>2. ASSUME NEW j \in 1 .. k
        PROVE  j \in 1 .. Len(s) /\ s[j] # Close
    <3>1. CASE Len(s) > 0 /\ s[Len(s)] = Close
      <4>1. k = Len(s) - 1
        BY <3>1, Zenon
      <4>2. j \in 1 .. Len(s) - 1
        BY <4>1
      <4>3. j \in 1 .. Len(s) /\ j # Len(s)
        <5>1. \A l \in Nat : \A i \in 1 .. l - 1 : i \in 1 .. l /\ i # l
          OBVIOUS
        <5> QED
          BY <1>1, <4>2, <5>1, Zenon
      <4> QED
        BY <1>1, <4>3, Zenon DEF Ordered
    <3>2. CASE ~(Len(s) > 0 /\ s[Len(s)] = Close)
      <4>1. j \in 1 .. Len(s) /\ Len(s) > 0
        BY <1>1, <3>2
      <4> QED
        BY <1>1, <3>2, <4>1, Zenon DEF Ordered
    <3> QED
      BY <3>1, <3>2
  <2> HIDE DEF k
  <2> QED
    BY <1>1, <2>1, <2>2
<1>4. Requests(s) = r
  BY <1>3, Zenon DEF Requests
<1>5. \A i \in 1 .. k : Request(s[i]) \in Req
  <2> TAKE i \in 1 .. k
  <2>1. i \in 1 .. Len(s) /\ s[i] # Close
    BY <1>1, <1>3, Zenon
  <2>2. s[i] \in Packets
    BY <1>1, <2>1, ElementOfSeq
  <2> QED
    BY <2>1, <2>2, RequestType1 DEF Packets
<1>6. r \in Seq(Req) /\ Len(r) = k /\ \A i \in 1 .. k : r[i] = Request(s[i])
  <2> HIDE DEF k
  <2> QED
    BY <1>2, <1>5
<1>7. \A i \in 1 .. k : i \in 1 .. Len(s)
  BY <1>1, <1>2
<1> HIDE DEF r
<1> QED
  BY <1>1, <1>4, <1>6, <1>7, Zenon

\* A message put behind the others adds its request.
LEMMA RequestsAppend ==
  ASSUME NEW s \in Seq(Packets), \A i \in DOMAIN s : s[i] # Close,
         NEW m \in Message
  PROVE  Requests(Append(s, m)) = Append(Requests(s), Request(m))
<1> DEFINE t == Append(s, m)
<1>1. Ordered(s) /\ Len(s) \in Nat /\ DOMAIN s = 1 .. Len(s)
  BY LenProperties DEF Ordered
<1>2. m # Close /\ m \in Packets
  BY MessageType DEF Packets
<1>3. /\ t \in Seq(Packets) /\ Len(t) = Len(s) + 1 /\ DOMAIN t = 1 .. Len(s) + 1
      /\ \A i \in 1 .. Len(s) : t[i] = s[i]
      /\ t[Len(s) + 1] = m
  BY <1>1, <1>2, AppendProperties
<1> HIDE DEF t
<1>4. \A i \in DOMAIN t : t[i] # Close
  <2> TAKE i \in DOMAIN t
  <2>1. i \in 1 .. Len(s) \/ i = Len(s) + 1
    BY <1>1, <1>3
  <2> QED
    BY <1>1, <1>2, <1>3, <2>1, Zenon
<1>5. Ordered(t)
  BY <1>3, <1>4, Zenon DEF Ordered
<1>6. /\ Requests(s) \in Seq(Req) /\ Len(Requests(s)) = Len(s)
      /\ \A i \in 1 .. Len(s) : Requests(s)[i] = Request(s[i])
  <2>1. ~(Len(s) > 0 /\ s[Len(s)] = Close)
    BY <1>1
  <2> QED
    BY <1>1, <2>1, RequestsAre, Zenon
<1>7. /\ Requests(t) \in Seq(Req) /\ Len(Requests(t)) = Len(s) + 1
      /\ \A i \in 1 .. Len(s) + 1 : Requests(t)[i] = Request(t[i])
  <2>1. ~(Len(t) > 0 /\ t[Len(t)] = Close)
    BY <1>2, <1>3
  <2> QED
    BY <1>3, <1>5, <2>1, RequestsAre, ZenonT(40)
<1> DEFINE u == Append(Requests(s), Request(m))
<1>8. /\ u \in Seq(Req) /\ Len(u) = Len(s) + 1
      /\ \A i \in 1 .. Len(s) : u[i] = Request(s[i])
      /\ u[Len(s) + 1] = Request(m)
  <2>1. Request(m) \in Req
    BY RequestType1
  <2> QED
    BY <1>1, <1>6, <2>1, AppendProperties
<1> HIDE DEF u
<1>9. \A i \in 1 .. Len(s) + 1 : Requests(t)[i] = u[i]
  <2> TAKE i \in 1 .. Len(s) + 1
  <2>1. i \in 1 .. Len(s) \/ i = Len(s) + 1
    BY <1>1
  <2> QED
    BY <1>3, <1>7, <1>8, <2>1, Zenon
<1>10. Requests(t) = u
  BY <1>7, <1>8, <1>9, SeqEqual
<1> QED
  BY <1>10, Zenon DEF t, u

\* A request to close at the end of a sequence adds none.
LEMMA RequestsClosed ==
  ASSUME NEW s \in Seq(Packets), NEW t \in Seq(Packets), Len(t) = Len(s) + 1,
         t[Len(t)] = Close, \A i \in 1 .. Len(s) : t[i] = s[i]
  PROVE  Requests(t) = Requests(s)
<1>1. DOMAIN s = 1 .. Len(s) /\ DOMAIN t = 1 .. Len(s) + 1 /\ Len(s) \in Nat
  BY LenProperties
<1>2. ASSUME NEW j
      PROVE  j \in DOMAIN t /\ t[j] # Close <=> j \in DOMAIN s /\ s[j] # Close
  <2>1. j \in DOMAIN t => j \in DOMAIN s \/ j = Len(t)
    BY <1>1
  <2>2. j \in DOMAIN s => j \in DOMAIN t
    BY <1>1
  <2> QED
    BY <1>1, <2>1, <2>2, Zenon
<1> DEFINE D == {j \in DOMAIN s : s[j] # Close}
<1>3. {j \in DOMAIN t : t[j] # Close} = D
  BY <1>2
<1>4. \A j \in D : t[j] = s[j]
  BY <1>1
<1> HIDE DEF D
<1>5. Requests(t) = [i \in D |-> Request(t[i])] /\ Requests(s) = [i \in D |-> Request(s[i])]
  BY <1>3, Zenon DEF Requests, D
<1> QED
  BY <1>4, <1>5, Zenon
\* What a request of the menu becomes.
LEMMA RequestOfCommand ==
  ASSUME NEW c \in Command
  PROVE  /\ MsgType(c.type) \in RequestType
         /\ RequestOf(c) \in Req
         /\ RequestOf(c).type = "MT_DISCONNECT" <=> c.type = "PT_DISCONNECT"
<1>1. c.type \in CommandType /\ c.n \in 1 .. MaxCommands
  BY DEF Command
<1>2. /\ MsgType(c.type) \in RequestType
      /\ MsgType(c.type) = "MT_DISCONNECT" <=> c.type = "PT_DISCONNECT"
  BY <1>1 DEF MsgType, CommandType, Menu, RequestType, Query
<1> QED
  BY <1>1, <1>2 DEF RequestOf, Req

\* The queues, seen as requests.
LEMMA QueueState ==
  ASSUME TypeInv, CommandInv
  PROVE  /\ Ordered(Sent) /\ Ordered(up)
         /\ Requests(Sent) \in Seq(Req)
         /\ InSlot \in Seq(Req) /\ Issued \in Seq(Req)
<1>1. Sent \in Seq(Packets) /\ up \in Seq(Packets) /\ up \in Seq(Message)
  BY SentType DEF TypeInv, TypeOK, ConnectionOK
<1>2. Ordered(Sent)
  BY <1>1 DEF Ordered, CommandInv, OrderInv
<1>3. Ordered(up)
  <2>1. \A i \in DOMAIN up : up[i] # Close
    BY <1>1, ElementOfSeq, MessageType
  <2> QED
    BY <1>1, <2>1, Zenon DEF Ordered
<1>4. InSlot \in Seq(Req)
  <2>1. CASE toDaemon = None
    BY <2>1 DEF InSlot
  <2>2. CASE toDaemon # None
    <3>1. toDaemon \in Command
      BY <2>2 DEF TypeInv, TypeOK, MachineOK
    <3>2. RequestOf(toDaemon) \in Req
      BY <3>1, RequestOfCommand
    <3> QED
      BY <2>2, <3>2 DEF InSlot
  <2> QED
    BY <2>1, <2>2
<1>5. Requests(Sent) \in Seq(Req)
  BY <1>2, RequestsAre
<1>6. Issued \in Seq(Req)
  BY <1>4, <1>5, ConcatProperties DEF Issued
<1> QED
  BY <1>2, <1>3, <1>4, <1>5, <1>6

\* What neither issues nor receives is nothing to the queue.
LEMMA QueueUnchanged ==
  ASSUME UNCHANGED <<gui, command, commands>>, Issued' = Issued, up' = up
  PROVE  UNCHANGED Q!queueVars
<1>1. Offered' = Offered /\ Requests(up)' = Requests(up)
  BY DEF Offered
<1> QED
  BY <1>1, Zenon DEF Q!queueVars, Issued, InSlot, Offered

\* The GUI gives a command, hands it over, or is killed.
LEMMA GuiQueueStep ==
  ASSUME TypeInv, CommandInv, Gui
  PROVE  [Q!QueueNext]_(Q!queueVars)
<1>1. UNCHANGED <<up, write_msgs, posted>>
  BY DEF Gui, Start, Choose, ChooseGame, EnterGame, GuiWrite, readGui, readGuiAgain, Kill, clientVars, asyncVars,
         socketVars, serverVars
<1>2. Sent' = Sent /\ Requests(Sent)' = Requests(Sent) /\ Requests(up)' = Requests(up)
  BY <1>1 DEF Sent
<1>3. Requests(Sent) \in Seq(Req) /\ InSlot \in Seq(Req)
  BY QueueState
<1>4. ASSUME NEW t \in CommandType, Writes(t), gui \in {"off", "menu", "asks"},
             UNCHANGED toDaemon
      PROVE  Q!QueueNext
  <2>1. /\ gui' = "writes" /\ commands' = commands + 1
        /\ command' = [type |-> t, n |-> commands + 1]
    BY <1>4 DEF Writes
  <2>2. Offered = << >> /\ Offered' = <<[type |-> MsgType(t), n |-> commands + 1]>>
    BY <1>4, <2>1 DEF Offered, RequestOf
  <2>3. Issued' = Issued
    BY <1>2, <1>4 DEF Issued, InSlot
  <2>4. MsgType(t) \in RequestType
    BY DEF MsgType, CommandType, Menu, RequestType, Query
  <2>5. Q!Give(MsgType(t))
    BY <1>2, <1>4, <2>1, <2>2, <2>3 DEF Q!Give, Offered, Issued, InSlot
  <2> QED
    BY <2>4, <2>5, Zenon DEF Q!QueueNext
<1>5. CASE \/ Start \/ ChooseGame \/ EnterGame \/ \E type \in Menu : Choose(type)
  <2>1. \E t \in CommandType : Writes(t) /\ gui \in {"off", "menu", "asks"} /\ UNCHANGED toDaemon
    BY <1>5 DEF Start, ChooseGame, EnterGame, Choose, slotVars, CommandType, Menu
  <2> QED
    BY <1>4, <2>1, Zenon
<1>6. CASE GuiWrite
  <2>1. /\ gui = "writes" /\ toDaemon = None /\ toDaemon' = command /\ command \in Command
        /\ gui' # "writes" /\ UNCHANGED <<command, commands>>
        /\ gui' = "ended" <=> command.type = "PT_DISCONNECT"
    BY <1>6 DEF GuiWrite, TypeInv
  <2>2. command # None
    BY <2>1, NoneAssumption
  <2>3. InSlot = << >> /\ InSlot' = <<RequestOf(command)>>
    BY <2>1, <2>2 DEF InSlot, RequestOf
  <2>4. Offered = <<RequestOf(command)>> /\ Offered' = << >>
    BY <2>1 DEF Offered
  <2>5. Issued = Requests(Sent)
    BY <1>3, <2>3, ConcatEmptySeq, Zenon DEF Issued
  <2>6. Issued' = Issued \o Offered
    BY <1>2, <2>3, <2>4, <2>5, Zenon DEF Issued
  <2>7. (gui' # "ended") = (Offered[1].type # "MT_DISCONNECT")
    BY <2>1, <2>4, RequestOfCommand
  <2>8. Offered # << >>
    BY <2>4
  <2>9. Q!HandOver
    BY <1>2, <2>1, <2>4, <2>6, <2>7, <2>8, Zenon DEF Q!HandOver, Offered, Issued, InSlot
  <2> QED
    BY <2>9, Zenon DEF Q!QueueNext
<1>7. CASE readGui \/ readGuiAgain
  <2>1. /\ gui = "reads" /\ gui' \notin {"writes", "ended"}
        /\ UNCHANGED <<toDaemon, command, commands>>
    BY <1>7 DEF readGui, readGuiAgain, slotVars
  <2>2. Offered' = Offered /\ Issued' = Issued /\ (gui' # "ended") = (gui # "ended")
    BY <1>2, <2>1 DEF Offered, Issued, InSlot
  <2>3. UNCHANGED Q!queueVars
    BY <1>2, <2>1, <2>2, Zenon DEF Q!queueVars, Offered, Issued, InSlot
  <2> QED
    BY <2>3
<1>8. CASE Kill
  <2>1. gui \notin {"off", "ended"} /\ gui' = "off" /\ UNCHANGED <<toDaemon, command, commands>>
    BY <1>8 DEF Kill, Off, slotVars
  <2>2. Offered' = << >> /\ Issued' = Issued /\ (gui' # "ended") = (gui # "ended")
    BY <1>2, <2>1 DEF Offered, Issued, InSlot
  <2>3. CASE gui = "writes"
    <3>1. Offered # << >>
      BY <2>3 DEF Offered
    <3>2. Q!Withdraw
      BY <1>2, <2>1, <2>2, <3>1, Zenon DEF Q!Withdraw, Offered, Issued, InSlot
    <3> QED
      BY <3>2, Zenon DEF Q!QueueNext
  <2>4. CASE gui # "writes"
    <3>1. Offered = << >>
      BY <2>4 DEF Offered
    <3>2. UNCHANGED Q!queueVars
      BY <1>2, <2>1, <2>2, <3>1, Zenon DEF Q!queueVars, Offered, Issued, InSlot
    <3> QED
      BY <3>2
  <2> QED
    BY <2>3, <2>4
<1> QED
  BY <1>5, <1>6, <1>7, <1>8 DEF Gui

\* The daemon takes the command from the slot into the queue of the connection.
LEMMA DaemonQueueStep ==
  ASSUME TypeInv, CommandInv, Daemon
  PROVE  UNCHANGED Q!queueVars
<1>1. TypeOK /\ Sent \in Seq(Packets) /\ Len(Sent) \in Nat /\ DOMAIN Sent = 1 .. Len(Sent)
  BY SentType, LenProperties DEF TypeInv
<1>2. Requests(Sent) \in Seq(Req)
  BY QueueState
<1>3. CASE readDeamon
  <2> DEFINE m == [type |-> MsgType(toDaemon.type), n |-> toDaemon.n, id |-> id]
  <2>1. toDaemon # None /\ toDaemon \in Command /\ toDaemon' = None /\ daemon = "reads"
    BY <1>3 DEF readDeamon, TypeInv, TypeOK, MachineOK
  <2>2. /\ UNCHANGED <<gui, command, commands, up, write_msgs>>
        /\ posted' = Append(posted, m)
    BY <1>3 DEF readDeamon, write, guiVars, socketVars, serverVars
  <2>3. m \in Message
    <3>1. MsgType(toDaemon.type) \in RequestType /\ toDaemon.n \in 1 .. MaxCommands
      BY <2>1, RequestOfCommand DEF Command
    <3>2. id \in SessionIds \cup {0}
      BY <1>1 DEF TypeOK, ConnectionOK
    <3> QED
      BY <3>1, <3>2 DEF Message
  <2>4. Request(m) = RequestOf(toDaemon)
    BY DEF Request, RequestOf
  <2> HIDE DEF m
  <2>5. Sent' = Append(Sent, m)
    BY <1>1, <2>2, <2>3, SentAppend DEF Packets
  <2>6. \A i \in DOMAIN Sent : Sent[i] # Close
    BY <2>1 DEF CommandInv, OrderInv
  <2>7. Requests(Sent)' = Append(Requests(Sent), RequestOf(toDaemon))
    BY <1>1, <2>3, <2>4, <2>5, <2>6, RequestsAppend, Zenon
  <2>8. RequestOf(toDaemon) \in Req
    BY <2>1, RequestOfCommand
  <2>9. Issued = Append(Requests(Sent), RequestOf(toDaemon))
    <3>1. Issued = Requests(Sent) \o <<RequestOf(toDaemon)>>
      BY <2>1, Zenon DEF Issued, InSlot
    <3> QED
      BY <1>2, <2>8, <3>1, AppendIsConcat
  <2>10. Issued' = Append(Requests(Sent), RequestOf(toDaemon))
    <3>1. InSlot' = << >>
      BY <2>1 DEF InSlot
    <3>2. Issued' = Append(Requests(Sent), RequestOf(toDaemon)) \o << >>
      BY <2>7, <3>1, Zenon DEF Issued
    <3>3. Append(Requests(Sent), RequestOf(toDaemon)) \in Seq(Req)
      BY <1>2, <2>8, AppendProperties
    <3> QED
      BY <3>2, <3>3, ConcatEmptySeq, Zenon
  <2> QED
    BY <2>2, <2>9, <2>10, QueueUnchanged, Zenon
<1>4. CASE DaemonCloses
  <2>1. /\ UNCHANGED <<gui, command, commands, up, write_msgs, toDaemon>>
        /\ posted' = Append(posted, Close)
    BY <1>4 DEF DaemonCloses, close, guiVars, slotVars, socketVars, serverVars
  <2>2. Sent' = Append(Sent, Close) /\ Close \in Packets
    BY <1>1, <2>1, SentAppend DEF Packets
  <2> DEFINE t == Append(Sent, Close)
  <2>3. Requests(t) = Requests(Sent)
    <3>1. Sent \in Seq(Packets)
      BY <1>1, SentType
    <3>2. /\ t \in Seq(Packets) /\ Len(t) = Len(Sent) + 1 /\ t[Len(Sent) + 1] = Close
          /\ \A i \in 1 .. Len(Sent) : t[i] = Sent[i]
      BY <2>2, <3>1, AppendProperties
    <3> HIDE DEF t
    <3>3. t[Len(t)] = Close
      BY <3>2, Zenon
    <3> QED
      BY <3>1, <3>2, <3>3, RequestsClosed, Zenon
  <2>4. Issued' = Issued
    BY <2>1, <2>2, <2>3 DEF Issued, InSlot
  <2> QED
    BY <2>1, <2>4, QueueUnchanged, Zenon
<1>5. CASE DaemonJoins \/ OnRecvWrite
  <2>1. UNCHANGED <<gui, command, commands, up, write_msgs, posted, toDaemon>>
    BY <1>5 DEF DaemonJoins, OnRecvWrite, Written, guiVars, slotVars, clientVars, asyncVars,
                socketVars, serverVars
  <2>2. Issued' = Issued
    BY <2>1 DEF Issued, InSlot, Sent
  <2> QED
    BY <2>1, <2>2, QueueUnchanged, Zenon
<1> QED
  BY <1>3, <1>4, <1>5 DEF Daemon

\* The packet that is written next is the first of those that have not arrived.
LEMMA NextToArrive ==
  ASSUME TypeOK, write_msgs # << >>
  PROVE  /\ Len(up) + 1 \in 1 .. Len(Sent)
         /\ Sent[Len(up) + 1] = Head(write_msgs)
         /\ Head(write_msgs) \in Message
<1>1. /\ up \in Seq(Packets) /\ write_msgs \in Seq(Packets) /\ posted \in Seq(Packets)
      /\ write_msgs \in Seq(Message)
      /\ write_msgs \o posted \in Seq(Packets)
      /\ Len(Sent) = Len(up) + Len(write_msgs) + Len(posted)
      /\ Len(up) \in Nat /\ Len(write_msgs) \in Nat /\ Len(posted) \in Nat
  BY SentType DEF TypeOK, ConnectionOK
<1>2. /\ Head(write_msgs) \in Message /\ Head(write_msgs) = write_msgs[1]
      /\ Len(write_msgs) \in Nat \ {0}
  BY <1>1, HeadTaken
<1> DEFINE rest == write_msgs \o posted
<1>3. Len(rest) = Len(write_msgs) + Len(posted) /\ rest[1] = write_msgs[1]
  <2>1. 1 \in 1 .. Len(write_msgs) + Len(posted) /\ 1 <= Len(write_msgs)
    BY <1>1, <1>2
  <2> QED
    BY <1>1, <2>1, ConcatProperties, Zenon
<1>4. rest \in Seq(Packets) /\ Sent = up \o rest
  BY <1>1 DEF Sent
<1> HIDE DEF rest
<1>5. Sent[Len(up) + 1] = rest[1]
  <2>1. /\ Len(up) + 1 \in 1 .. Len(up) + Len(rest)
        /\ ~(Len(up) + 1 <= Len(up)) /\ (Len(up) + 1) - Len(up) = 1
    BY <1>1, <1>2, <1>3
  <2>2. \A i \in 1 .. Len(up) + Len(rest) :
            (up \o rest)[i] = IF i <= Len(up) THEN up[i] ELSE rest[i - Len(up)]
    BY <1>1, <1>4, ConcatProperties
  <2>3. (up \o rest)[Len(up) + 1] = IF Len(up) + 1 <= Len(up) THEN up[Len(up) + 1]
                                    ELSE rest[(Len(up) + 1) - Len(up)]
    BY <2>1, <2>2, Zenon
  <2>4. (up \o rest)[Len(up) + 1] = rest[(Len(up) + 1) - Len(up)]
    BY <2>1, <2>3, Zenon
  <2>5. rest[(Len(up) + 1) - Len(up)] = rest[1]
    BY <2>1, Zenon
  <2> QED
    BY <1>4, <2>4, <2>5, Zenon
<1> QED
  BY <1>1, <1>2, <1>3, <1>5

\* A packet written arrives, everything else is between the queues.
LEMMA ConnectionQueueStep ==
  ASSUME TypeInv, CommandInv, Connection
  PROVE  [Q!QueueNext]_(Q!queueVars)
<1>1. UNCHANGED <<toDaemon, gui, command, commands>>
  BY DEF Connection, slotVars, guiVars
<1>2. TypeOK /\ (writing => write_msgs # << >>) /\ up \in Seq(Message)
  BY DEF TypeInv, TypeOK, ConnectionOK
<1>3. CASE HandleWrite /\ write_msgs # << >>
  <2> DEFINE m == Head(write_msgs)
  <2>1. up' = Append(up, m)
    BY <1>3 DEF HandleWrite
  <2>2. /\ Len(up) + 1 \in 1 .. Len(Sent) /\ Sent[Len(up) + 1] = m /\ m \in Message
    BY <1>2, <1>3, NextToArrive, Zenon
  <2> HIDE DEF m
  <2>3. up \in Seq(Packets) /\ Len(up) \in Nat /\ Ordered(up) /\ Ordered(Sent) /\ Len(Sent) \in Nat
    BY <1>2, SentType, QueueState
  <2>4. \A i \in DOMAIN up : up[i] # Close
    BY <1>2, ElementOfSeq, MessageType
  <2>5. Requests(up)' = Append(Requests(up), Request(m))
    BY <2>1, <2>2, <2>3, <2>4, RequestsAppend, Zenon
  <2>6. Len(Requests(up)) = Len(up)
    <3>1. ~(Len(up) > 0 /\ up[Len(up)] = Close)
      BY <2>3, <2>4
    <3> QED
      BY <2>3, <3>1, RequestsAre, Zenon
  <2>7. /\ Len(up) + 1 \in 1 .. Len(Requests(Sent))
        /\ Requests(Sent)[Len(up) + 1] = Request(m)
    <3>1. m # Close
      BY <2>2, MessageType
    <3>2. ~(Len(Sent) > 0 /\ Sent[Len(Sent)] = Close) \/ Len(up) + 1 # Len(Sent)
      BY <2>2, <3>1, Zenon
    <3>3. Len(Requests(Sent)) = IF Len(Sent) > 0 /\ Sent[Len(Sent)] = Close
                                THEN Len(Sent) - 1 ELSE Len(Sent)
      BY <2>3, RequestsAre, Zenon
    <3>4. Len(up) + 1 \in 1 .. Len(Requests(Sent))
      <4>1. CASE Len(Sent) > 0 /\ Sent[Len(Sent)] = Close
        <5>1. Len(Requests(Sent)) = Len(Sent) - 1 /\ Len(up) + 1 # Len(Sent)
          BY <3>2, <3>3, <4>1, Zenon
        <5> QED
          BY <2>2, <2>3, <5>1
      <4>2. CASE ~(Len(Sent) > 0 /\ Sent[Len(Sent)] = Close)
        <5>1. Len(Requests(Sent)) = Len(Sent)
          BY <3>3, <4>2, Zenon
        <5> QED
          BY <2>2, <5>1, Zenon
      <4> QED
        BY <4>1, <4>2
    <3> QED
      BY <2>2, <2>3, <3>4, RequestsAre, Zenon
  <2>8. /\ Len(up) + 1 \in 1 .. Len(Issued)
        /\ Issued[Len(up) + 1] = Request(m)
    <3> DEFINE r == Requests(Sent)
    <3>1. r \in Seq(Req) /\ InSlot \in Seq(Req)
      BY QueueState
    <3>2. /\ Len(Issued) = Len(r) + Len(InSlot)
          /\ \A i \in 1 .. Len(r) + Len(InSlot) :
               Issued[i] = IF i <= Len(r) THEN r[i] ELSE InSlot[i - Len(r)]
      BY <3>1, ConcatProperties, Zenon DEF Issued
    <3>3. Len(r) \in Nat /\ Len(InSlot) \in Nat
      BY <3>1, LenProperties
    <3> HIDE DEF r
    <3>4. \A k \in 1 .. Len(r) : k \in 1 .. Len(r) + Len(InSlot) /\ k <= Len(r)
      BY <3>3
    <3>5. Len(up) + 1 \in 1 .. Len(r) /\ r[Len(up) + 1] = Request(m)
      BY <2>7, Zenon DEF r
    <3> QED
      BY <3>2, <3>4, <3>5, Zenon
  <2>9. Sent' = Sent
    BY <1>2, <1>3, SentMoved
  <2>10. Issued' = Issued /\ Offered' = Offered
    BY <1>1, <2>9 DEF Issued, InSlot, Offered
  <2>11. Len(Requests(up)) < Len(Issued)
    <3>1. Len(up) < Len(Issued)
      <4>1. Len(Issued) \in Nat
        BY QueueState, LenProperties
      <4> QED
        BY <2>3, <2>8, <4>1
    <3> QED
      BY <2>6, <3>1, Zenon
  <2>12. Q!Arrive
    BY <1>1, <2>5, <2>6, <2>8, <2>10, <2>11, Zenon DEF Q!Arrive, Issued, InSlot, Offered
  <2> QED
    BY <2>12, Zenon DEF Q!QueueNext
<1>4. CASE DoClose
  <2>1. up' = up
    BY <1>4 DEF DoClose, serverVars
  <2>2. /\ Sent \in Seq(Packets) /\ Sent' \in Seq(Packets) /\ Len(Sent) \in Nat
        /\ Sent[Len(Sent)] = Close /\ Len(Sent') = Len(Sent) - 1
        /\ \A i \in 1 .. Len(Sent) - 1 : Sent'[i] = Sent[i]
    BY <1>2, <1>4, SentClosed DEF CommandInv
  <2>3. Len(Sent) = Len(Sent') + 1 /\ \A i \in 1 .. Len(Sent') : Sent[i] = Sent'[i]
    BY <2>2
  <2>4. Requests(Sent) = Requests(Sent')
    BY <2>2, <2>3, RequestsClosed, Zenon
  <2>5. Issued' = Issued
    BY <1>1, <2>4 DEF Issued, InSlot
  <2> QED
    BY <1>1, <2>1, <2>5, QueueUnchanged, Zenon
<1>5. CASE ~DoClose /\ ~HandleWrite
  <2>1. DoWrite \/ UNCHANGED <<up, write_msgs, posted>>
    BY <1>5 DEF Connection, IoThread, Server, HandleConnect, HandleConnectFails,
       HandleReadHeader, HandleReadBody, HandleReadFails, HandleWriteFails,
       RunReturns, ServerReads, ServerLost, asyncVars, socketVars, serverVars
  <2>2. Sent' = Sent
    BY <1>2, <2>1, SentMoved DEF Sent
  <2>3. up' = up
    BY <2>1 DEF DoWrite, serverVars
  <2>4. Issued' = Issued
    BY <1>1, <2>2 DEF Issued, InSlot
  <2> QED
    BY <1>1, <2>3, <2>4, QueueUnchanged, Zenon
<1> QED
  BY <1>2, <1>3, <1>4, <1>5 DEF HandleWrite

LEMMA QueueInitial == Init => Q!QueueInit
<1> SUFFICES ASSUME Init PROVE Q!QueueInit
  OBVIOUS
<1>1. up = << >> /\ Sent = << >> /\ toDaemon = None /\ gui = "off" /\ commands = 0
  BY DEF Init, ClientInit, Sent
<1>2. Requests(<< >>) = << >>
  <2>1. Ordered(<< >>) /\ Len(<< >>) = 0
    BY DEF Ordered
  <2>2. Requests(<< >>) \in Seq(Req) /\ Len(Requests(<< >>)) = 0
    BY <2>1, RequestsAre
  <2> QED
    BY <2>2, EmptySeq
<1>3. Issued = << >> /\ Offered = << >>
  BY <1>1, <1>2 DEF Issued, InSlot, Offered
<1> QED
  BY <1>1, <1>2, <1>3 DEF Q!QueueInit, Issued, InSlot, Offered

(* Through the slot, the posted handlers and the write queue the server    *)
(* gets the requests the GUI has handed over, unchanged, in order and each *)
(* once, and none after a request to disconnect: every step is one of the  *)
(* abstract queue or nothing to it.                                        *)
THEOREM CommandsAreQueued == Spec => ImplementsCommandQueue
<1>1. TypeInv /\ CommandInv /\ [Next]_vars => [Q!QueueNext]_(Q!queueVars)
  <2> SUFFICES ASSUME TypeInv, CommandInv, [Next]_vars
               PROVE  [Q!QueueNext]_(Q!queueVars)
    OBVIOUS
  <2>1. CASE UNCHANGED vars
    <3>1. UNCHANGED <<gui, command, commands, up, write_msgs, posted, toDaemon>>
      BY <2>1 DEF vars, guiVars, slotVars, clientVars, asyncVars, socketVars, serverVars
    <3>2. Issued' = Issued
      BY <3>1 DEF Issued, InSlot, Sent
    <3> QED
      BY <3>1, <3>2, QueueUnchanged, Zenon
  <2> QED
    BY <2>1, GuiQueueStep, DaemonQueueStep, ConnectionQueueStep DEF Next
<1> QED
  BY <1>1, QueueInitial, CommandInvInvariant, PTL DEF Spec, ImplementsCommandQueue, Q!QueueSpec
=============================================================================
