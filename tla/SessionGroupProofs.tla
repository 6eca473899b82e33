------------------------- MODULE SessionGroupProofs -------------------------
(***************************************************************************)
(* Proof that the connection layer implements Group, for every value of    *)
(* the constants: each kind of step of SessionHistoryProofs is a step of   *)
(* Group, or changes nothing that Group sees.                              *)
(***************************************************************************)
EXTENDS SessionHistoryProofs

-----------------------------------------------------------------------------
(* The state of Group that a state of the connection layer stands for.     *)

Status == [c \in Conn |-> IF c \in Members THEN "member"
                          ELSE IF c \in Started THEN "left" ELSE "outside"]

Inbox == [c \in Conn |-> Outbox(c)]

\* Group's definitions, in terms of the connection layer.
LEMMA GroupState ==
  ASSUME SessionInv
  PROVE  /\ G!member = Members
         /\ Members \subseteq Conn
<1>1. Members \subseteq Conn
  BY DEF SessionInv, Seated, Started
<1>2. G!member = Members
  BY <1>1 DEF G!member
<1>3. QED
  BY <1>1, <1>2

\* Bcast and Ucast look only at ids, and find the audience of the sender: the
\* ids of the members are different from each other and from 0.
LEMMA AudienceFound ==
  ASSUME SessionInv, NEW c \in Started, NEW p,
         p.type = "MT_BCAST" => p.senderId \in {0, id[c]}
  PROVE  G!Audience(c, p) = Addressees(p)
<1>1. /\ Members \subseteq Started
      /\ \A d \in Started : id[d] \in 1..lastId
      /\ \A d, e \in Started : id[d] = id[e] => d = e
  BY DEF SessionInv, Seated, MapConsistent
<1>2. \A d \in Members : id[d] # 0
  BY <1>1 DEF SessionInv, TypeOK
<1>3. \A d \in Members : id[d] # id[c] <=> d # c
  BY <1>1
<1>4. QED
  BY <1>2, <1>3, GroupState DEF G!Audience, Addressees

\* Equal states of the connection layer stand for equal states of Group.
LEMMA SameGroupState ==
  ASSUME NothingGiven
  PROVE  /\ Inbox' = Inbox
         /\ Started' = Started /\ Members' = Members => Status' = Status
BY DEF NothingGiven, Inbox, Status

\* A session that is accepted enters the group.
LEMMA EntersGroup ==
  ASSUME SessionInv, IdInv, NEW c \in Conn, Enters(c)
  PROVE  G!Enter(c)
<1>1. /\ Running /\ Running' /\ c \in Conn \ Started
      /\ lastId' = lastId + 1
      /\ id' = [id EXCEPT ![c] = lastId + 1]
      /\ Started' = Started \cup {c} /\ Members' = Members \cup {c}
      /\ Given({c}, SetId(lastId + 1))
  BY DEF Enters
<1>2. c \notin Members
  BY <1>1 DEF SessionInv, Seated
<1>3. Status[c] = "outside" /\ Status' = [Status EXCEPT ![c] = "member"]
  BY <1>1, <1>2 DEF Status
<1>4. Inbox' = [Inbox EXCEPT ![c] = <<SetId(lastId + 1)>>]
  <2>1. Outbox(c) = <<>>
    BY <1>1 DEF IdInv, Fresh
  <2>2. Outbox(c)' = <<SetId(lastId + 1)>>
    BY <1>1, <2>1 DEF Given
  <2>3. \A d \in Conn \ {c} : Outbox(d)' = Outbox(d)
    BY <1>1 DEF Given
  <2>4. QED
    BY <2>2, <2>3 DEF Inbox
<1>5. QED
  BY <1>1, <1>3, <1>4 DEF G!Enter, G!SetId, SetId, Status, Inbox

\* A packet that is read goes to its audience.
LEMMA ServesGroup ==
  ASSUME SessionInv, IdInv, NEW c \in Conn, NEW p \in Packet, Serves(c, p)
  PROVE  \/ \E d \in Conn : G!Multicast(c, d)
         \/ G!Stop
         \/ UNCHANGED G!groupVars
<1>1. /\ Running /\ UNCHANGED <<lastId, id>>
      /\ Given(Addressees(p), p) /\ Started' = Started /\ Members' = Members
  BY DEF Serves
<1>2. Status' = Status
  BY <1>1 DEF Status
<1>3. /\ c \in Started
      /\ p.type = "MT_BCAST" => p.senderId \in {0, id[c]}
  BY ServesReads DEF Serves
<1>4. ASSUME NEW d \in Addressees(p)
      PROVE  G!Multicast(c, d)
  <2>1. d \in Members /\ d \in Conn
    BY GroupState DEF Addressees
  <2>2. Inbox'[d][Len(Inbox'[d])] = p
    <3>1. Outbox(d) \in Seq(Packet) /\ Outbox(d)' = Append(Outbox(d), p)
      BY <1>1, <2>1, OutboxType DEF Given, SessionInv
    <3>2. Outbox(d)'[Len(Outbox(d)')] = p
      BY <3>1, AppendProperties
    <3>3. QED
      BY <2>1, <3>2 DEF Inbox
  <2>3. Inbox' = [e \in Conn |-> IF e \in G!Audience(c, p) THEN Append(Inbox[e], p)
                                                           ELSE Inbox[e]]
    BY <1>1, <1>3, AudienceFound DEF Given, Inbox
  <2>4. Running' \in BOOLEAN
    BY DEF Running
  <2>5. d \in G!member
    BY <2>1, GroupState
  <2>6. Status[c] # "outside"
    BY <1>3 DEF Status
  <2>7. QED
    BY <1>1, <1>2, <1>3, <2>2, <2>3, <2>4, <2>5, <2>6 DEF G!Multicast, Inbox, Status
<1>5. CASE Addressees(p) = {}
  <2>1. Inbox' = Inbox
    BY <1>1, <1>5 DEF Given, Inbox
  <2>2. CASE Running'
    BY <1>1, <1>2, <2>1, <2>2 DEF G!groupVars, Inbox, Status
  <2>3. CASE ~Running'
    BY <1>1, <1>2, <2>1, <2>3 DEF G!Stop, Inbox, Status
  <2>4. QED
    BY <2>2, <2>3
<1>6. QED
  BY <1>4, <1>5, GroupState DEF Addressees

\* A step that gives nothing is one in which somebody leaves, or the server
\* stops, or Group sees nothing of it.
LEMMA QuietGroup ==
  ASSUME SessionInv, NEW c \in Conn, Running, NothingGiven,
         UNCHANGED <<lastId, id>>, Started' = Started,
         Members' \in {Members, Members \ {c}}
  PROVE  G!Exit(c) \/ G!Stop \/ UNCHANGED G!groupVars
<1>1. Inbox' = Inbox /\ Running' \in BOOLEAN
  BY SameGroupState DEF Running
<1>2. CASE Members' = Members
  <2>1. Status' = Status
    BY <1>2, SameGroupState
  <2>2. CASE Running'
    BY <1>1, <2>1, <2>2 DEF G!groupVars, Inbox, Status
  <2>3. CASE ~Running'
    BY <1>1, <2>1, <2>3 DEF G!Stop, Inbox, Status
  <2>4. QED
    BY <2>2, <2>3
<1>3. CASE c \in Members /\ Members' = Members \ {c}
  <2>1. c \in Started /\ Status[c] = "member"
    BY <1>3 DEF Status, SessionInv, Seated
  <2>2. Status' = [Status EXCEPT ![c] = "left"]
    BY <1>3, <2>1 DEF Status
  <2>3. QED
    BY <1>1, <2>1, <2>2 DEF G!Exit, Inbox, Status
<1>4. QED
  BY <1>2, <1>3

\* A new process is a new group.
LEMMA RestartGroup ==
  ASSUME Restart
  PROVE  G!Renew
<1>1. ~Running /\ Running' /\ lastId' = 0 /\ id' = [c \in Conn |-> 0]
  BY DEF Restart, Running
<1>2. Started' = {} /\ Members' = {}
  BY DEF Restart, Started, Members
<1>3. \A c \in Conn : Outbox(c)' = <<>>
  BY DEF Restart, Outbox
<1>4. Status' = [c \in Conn |-> "outside"] /\ Inbox' = [c \in Conn |-> <<>>]
  BY <1>2, <1>3 DEF Status, Inbox
<1>5. QED
  BY <1>1, <1>4 DEF G!Renew, Status, Inbox

\* The layer starts as an empty group.
LEMMA GroupInitial == SessionInit => G!GroupInit
<1> SUFFICES ASSUME SessionInit PROVE G!GroupInit
  OBVIOUS
<1>1. Running = TRUE /\ lastId = 0 /\ id = [c \in Conn |-> 0]
  BY DEF SessionInit, Running
<1>2. Started = {} /\ Members = {}
  BY DEF SessionInit, Started, Members
<1>3. \A c \in Conn : Outbox(c) = <<>>
  BY DEF SessionInit, Outbox
<1>4. Status = [c \in Conn |-> "outside"] /\ Inbox = [c \in Conn |-> <<>>]
  BY <1>2, <1>3 DEF Status, Inbox
<1>5. QED
  BY <1>1, <1>4 DEF G!GroupInit, Status, Inbox

\* Every step of the connection layer is a step of Group or a stutter.
LEMMA GroupStep ==
  ASSUME SessionInv, IdInv, [SessionNext]_vars
  PROVE  [G!GroupNext]_(G!groupVars)
<1>1. ASSUME NEW c \in Conn, Consumes(c) \/ Rests(c)
      PROVE  [G!GroupNext]_(G!groupVars)
  <2>1. /\ Running /\ NothingGiven /\ UNCHANGED <<lastId, id>>
        /\ Started' = Started /\ Members' \in {Members, Members \ {c}}
    BY <1>1 DEF Consumes, Rests
  <2>2. G!Exit(c) \/ G!Stop \/ UNCHANGED G!groupVars
    BY <2>1, QuietGroup
  <2>3. QED
    BY <2>2 DEF G!GroupNext
<1>2. CASE Still
  <2>1. Inbox' = Inbox /\ Status' = Status /\ UNCHANGED <<lastId, id>>
    BY <1>2, SameGroupState DEF Still
  <2>2. CASE Running' <=> Running
    <3>1. UNCHANGED G!groupVars
      BY <2>1, <2>2 DEF G!groupVars, Inbox, Status, Running
    <3>2. QED
      BY <3>1
  <2>3. CASE Running /\ ~Running'
    <3>1. G!Stop
      BY <2>1, <2>3 DEF G!Stop, Inbox, Status
    <3>2. QED
      BY <3>1 DEF G!GroupNext
  <2>4. QED
    BY <1>2, <2>2, <2>3 DEF Still
<1>3. CASE Restart
  <2>1. G!Renew
    BY <1>3, RestartGroup
  <2>2. QED
    BY <2>1 DEF G!GroupNext
<1>4. ASSUME NEW c \in Conn, Enters(c)
      PROVE  [G!GroupNext]_(G!groupVars)
  <2>1. G!Enter(c)
    BY <1>4, EntersGroup
  <2>2. QED
    BY <2>1 DEF G!GroupNext
<1>5. ASSUME NEW c \in Conn, NEW p \in Packet, Serves(c, p)
      PROVE  [G!GroupNext]_(G!groupVars)
  <2>1. \/ \E d \in Conn : G!Multicast(c, d)
        \/ G!Stop
        \/ UNCHANGED G!groupVars
    BY <1>5, ServesGroup
  <2>2. QED
    BY <2>1 DEF G!GroupNext
<1>6. QED
  BY <1>1, <1>2, <1>3, <1>4, <1>5, StepKinds

\* The connection layer keeps what Group promises.
THEOREM LayerImplementsGroup == SessionSpec => ImplementsGroup
<1>1. SessionInit => G!GroupInit
  BY GroupInitial
<1>2. SessionInv /\ IdInv /\ [SessionNext]_vars => [G!GroupNext]_(G!groupVars)
  BY GroupStep
<1>3. QED
  BY <1>1, <1>2, SessionInvInvariant, IdInvInvariant, PTL
  DEF SessionSpec, ImplementsGroup, G!GroupSpec
=============================================================================
