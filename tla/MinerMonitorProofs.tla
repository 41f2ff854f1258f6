------------------------ MODULE MinerMonitorProofs -------------------------
(***************************************************************************)
(* Proofs about the miner-monitor daemon: its types, with the commands and *)
(* the responses each in their own queue; that no received packet is       *)
(* dropped (RoomForReceived); that every wait has its whole length         *)
(* (WaitsWholeTimeout); that the response main takes is the one to its     *)
(* last answer (ResponsePaired); that the answer to an order names it      *)
(* (AnswerNamesOrder).                                                     *)
(***************************************************************************)
EXTENDS MinerMonitor, TLAPS

\* What the types rest on: a packet on its way to a queue is a packet, and a
\* blocked recv has a socket.
RevHolds ==
  /\ rpc = "enq" => package \in Packet
  /\ rpc = "blocked" => rsock \in Conn

TypeInv == TypeOK /\ RevHolds

-----------------------------------------------------------------------------
\* A packet is still of its kind when its connection is gone.
LEMMA OldTypes ==
  /\ \A p \in Command : Old(p) \in Command
  /\ \A p \in Response : Old(p) \in Response
  /\ \A p \in Packet : Old(p) \in Packet
  /\ Old(NoPkg) = NoPkg
BY DEF Old, Packet, Command, Response

\* Marking the packets of a queue changes neither their kind nor their number.
LEMMA StaleTypes ==
  /\ \A Q \in Seq(Command) : Stale(Q) \in Seq(Command) /\ Len(Stale(Q)) = Len(Q)
  /\ \A Q \in Seq(Response) : Stale(Q) \in Seq(Response) /\ Len(Stale(Q)) = Len(Q)
<1>1. ASSUME NEW S, \A p \in S : Old(p) \in S, NEW Q \in Seq(S)
      PROVE  Stale(Q) \in Seq(S) /\ Len(Stale(Q)) = Len(Q)
  BY <1>1 DEF Stale
<1> QED
  BY <1>1, OldTypes

\* The head of a queue is of the queue's kind, and what is left is a queue.
LEMMA TakeTypes ==
  ASSUME NEW S, NEW Q \in Seq(S), Q # <<>>
  PROVE  Head(Q) \in S /\ Tail(Q) \in Seq(S) /\ Len(Tail(Q)) = Len(Q) - 1
OBVIOUS

\* A packet put into a queue of its kind.
LEMMA EnQueueTypes ==
  ASSUME NEW S, NEW Q \in Seq(S), NEW p \in S
  PROVE  EnQueue(Q, p) \in Seq(S)
BY DEF EnQueue

\* A new socket, and one with other contents, are sockets.
LEMMA NetTypes ==
  /\ \A n \in Networks, c \in Conn : n[c].inbox \in Seq(Packet) /\ n[c].owed \in Seq(0 .. MaxCmds)
  /\ \A n \in Networks, c \in Conn, state \in {"syn", "idle", "est", "rst"} :
       [n EXCEPT ![c] = Socket(state)] \in Networks
  /\ \A n \in Networks, c \in Conn, q \in Seq(Packet) : [n EXCEPT ![c].inbox = q] \in Networks
  /\ \A n \in Networks, c \in Conn, o \in Seq(0 .. MaxCmds) : [n EXCEPT ![c].owed = o] \in Networks
  /\ \A n \in Networks, c \in Conn : [n EXCEPT ![c].st = "fin"] \in Networks
<1>1. \A n \in Networks, c \in Conn :
        n[c].inbox \in Seq(Packet) /\ n[c].owed \in Seq(0 .. MaxCmds)
  BY DEF Networks
<1>2. \A n \in Networks, c \in Conn, state \in {"syn", "idle", "est", "rst"} :
        [n EXCEPT ![c] = Socket(state)] \in Networks
  BY DEF Networks, Socket
<1>3. \A n \in Networks, c \in Conn, q \in Seq(Packet) : [n EXCEPT ![c].inbox = q] \in Networks
  BY DEF Networks
<1>4. \A n \in Networks, c \in Conn, o \in Seq(0 .. MaxCmds) :
        [n EXCEPT ![c].owed = o] \in Networks
  BY DEF Networks
<1>5. \A n \in Networks, c \in Conn : [n EXCEPT ![c].st = "fin"] \in Networks
  BY DEF Networks
<1> QED
  BY <1>1, <1>2, <1>3, <1>4, <1>5

\* Dropping the sockets out of reach keeps the types of what is left.
LEMMA ReachTypes ==
  /\ \A n \in Networks : \A s, r : Reachable(n, s, r) \in Networks
  /\ \A h \in [Threads -> Conn \cup {NoConn}] : \A s, r :
       Pending(h, s, r) \in [Threads -> Conn \cup {NoConn}]
BY DEF Reachable, Pending, Networks, Socket

\* A group of variables that a step leaves alone keeps its types.
LEMMA KeptTypes ==
  ASSUME TypeInv
  PROVE  /\ UNCHANGED sock_vars => SockTypes'
         /\ UNCHANGED queue_vars => QueueTypes'
         /\ UNCHANGED main_vars => MainTypes'
         /\ UNCHANGED rev_vars => RevTypes' /\ RevHolds'
         /\ UNCHANGED handler_vars => HandlerTypes'
         /\ UNCHANGED env_vars /\ UNCHANGED timer => EnvTypes'
BY DEF TypeInv, TypeOK, SockTypes, QueueTypes, MainTypes, RevTypes, RevHolds, HandlerTypes,
       EnvTypes, sock_vars, queue_vars, main_vars, rev_vars, handler_vars, env_vars

\* The daemon starts well typed.
LEMMA TypeInit == Init => TypeInv
<1> SUFFICES ASSUME Init PROVE TypeInv
  OBVIOUS
<1>1. SockTypes
  BY DEF Init, SockTypes, Networks, Socket
<1>2. QueueTypes
  BY DEF Init, QueueTypes
<1>7. RevTypes /\ RevHolds
  BY DEF Init, RevTypes, RevHolds
<1>3. 0 \in 0 .. MaxCmds /\ 0 \in 0 .. MaxFaults
  BY BoundAssumption
<1>4. MainTypes
  BY <1>3 DEF Init, MainTypes
<1>5. HandlerTypes
  BY DEF Init, HandlerTypes
<1>6. EnvTypes
  BY <1>3 DEF Init, EnvTypes
<1> QED
  BY <1>1, <1>2, <1>4, <1>5, <1>6, <1>7 DEF TypeInv, TypeOK

-----------------------------------------------------------------------------
\* The return of connect() keeps the types of what it sets.
LEMMA ConnectTypes ==
  ASSUME TypeInv, NEW t \in Threads, ConnectReturns(t)
  PROVE  /\ r_connect' \in {0, 1} /\ net' \in Networks
         /\ faults' \in 0 .. MaxFaults
         /\ hsock' \in [Threads -> Conn \cup {NoConn}]
<1>1. net' \in Networks
  <2>1. net \in Networks /\ hsock[t] \in Conn \cup {NoConn}
    BY DEF TypeInv, TypeOK, SockTypes, HandlerTypes
  <2>2. \E state \in {"est", "idle"} :
          net' = IF hsock[t] = NoConn THEN net ELSE [net EXCEPT ![hsock[t]] = Socket(state)]
    BY DEF ConnectReturns
  <2>3. CASE hsock[t] = NoConn
    BY <2>1, <2>2, <2>3
  <2>4. CASE hsock[t] \in Conn
    <3>1. NoConn \notin Conn
      BY ConnAssumption DEF NoConn
    <3>2. \A state \in {"est", "idle"} : [net EXCEPT ![hsock[t]] = Socket(state)] \in Networks
      BY <2>1, <2>4, NetTypes
    <3> QED
      BY <2>2, <2>4, <3>1, <3>2
  <2> QED
    BY <2>1, <2>3, <2>4
<1>2. r_connect' \in {0, 1}
  BY DEF ConnectReturns
<1>3. faults' \in 0 .. MaxFaults
  BY BoundAssumption DEF TypeInv, TypeOK, EnvTypes, ConnectReturns
<1>4. hsock' \in [Threads -> Conn \cup {NoConn}]
  BY DEF TypeInv, TypeOK, HandlerTypes, ConnectReturns
<1> QED
  BY <1>1, <1>2, <1>3, <1>4

\* sock_connect_server up to connect() keeps the types of what it sets.
LEMMA NewSocketTypes ==
  ASSUME TypeInv, NEW t \in Threads, NewSocket(t)
  PROVE  /\ sockfd' \in Conn /\ net' \in Networks
         /\ hsock' \in [Threads -> Conn \cup {NoConn}]
         /\ Q_cmd' \in Seq(Command) /\ Q_respond' \in Seq(Response)
         /\ deal_package' \in Packet \cup {NoPkg} /\ package' \in Packet \cup {NoPkg}
<1>1. PICK c \in Conn : /\ sockfd' = c
                        /\ net' = Reachable([net EXCEPT ![c] = Socket("syn")], c, rsock)
                        /\ hsock' = Pending([hsock EXCEPT ![t] = c], c, rsock)
  BY DEF NewSocket
<1>2. [net EXCEPT ![c] = Socket("syn")] \in Networks
  BY NetTypes DEF TypeInv, TypeOK, SockTypes
<1>3. [hsock EXCEPT ![t] = c] \in [Threads -> Conn \cup {NoConn}]
  BY DEF TypeInv, TypeOK, HandlerTypes
<1>4. /\ Q_cmd' \in Seq(Command) /\ Q_respond' \in Seq(Response)
      /\ deal_package' \in Packet \cup {NoPkg} /\ package' \in Packet \cup {NoPkg}
  BY OldTypes, StaleTypes
  DEF TypeInv, TypeOK, QueueTypes, MainTypes, RevTypes, NewSocket
<1> QED
  BY <1>1, <1>2, <1>3, <1>4, ReachTypes

\* Where a recv returns to, with the network it leaves.
LEMMA LeaveTypes ==
  ASSUME TypeInv, NEW n \in Networks, NEW place, LeaveRecv(n, place)
  PROVE  /\ net' \in Networks /\ rpc' = place /\ rsock' = NoConn
         /\ hsock' \in [Threads -> Conn \cup {NoConn}]
BY ReachTypes DEF TypeInv, TypeOK, HandlerTypes, LeaveRecv

-----------------------------------------------------------------------------
\* The connecting code keeps the types, on whichever thread.
LEMMA TypeHandler ==
  ASSUME TypeInv, NEW t \in Threads, Alarm(t) \/ Handler(t)
  PROVE  TypeInv'
<1>1. CASE Alarm(t)
  <2>1. HandlerTypes'
    BY <1>1, ReachTypes DEF TypeInv, TypeOK, HandlerTypes, Alarm, handler_vars
  <2> QED
    BY <1>1, <2>1, KeptTypes DEF TypeInv, TypeOK, Alarm
<1>2. CASE HandlerSwitchOff(t)
  <2>1. MainTypes'
    BY <1>2, OldTypes, BoundAssumption DEF TypeInv, TypeOK, MainTypes, HandlerSwitchOff, Exit, main_vars
  <2> QED
    BY <1>2, <2>1, KeptTypes DEF TypeInv, TypeOK, HandlerSwitchOff, Exit
<1>3. CASE HandlerUp(t)
  <2>1. HandlerTypes'
    BY <1>3, ReachTypes DEF TypeInv, TypeOK, HandlerTypes, HandlerUp, At, Leave, handler_vars
  <2> QED
    BY <1>3, <2>1, KeptTypes DEF TypeInv, TypeOK, HandlerUp, At, Leave
<1>4. CASE HandlerDown(t)
  <2>1. SockTypes'
    BY <1>4, NetTypes, ReachTypes DEF TypeInv, TypeOK, SockTypes, HandlerDown, At, Leave, sock_vars
  <2>2. MainTypes'
    BY <1>4, OldTypes, BoundAssumption DEF TypeInv, TypeOK, MainTypes, HandlerDown, At, Leave, main_vars
  <2>3. HandlerTypes'
    BY <1>4, ReachTypes DEF TypeInv, TypeOK, HandlerTypes, HandlerDown, At, Leave, handler_vars
  <2> QED
    BY <1>4, <2>1, <2>2, <2>3, KeptTypes DEF TypeInv, TypeOK, HandlerDown, At, Leave
<1>5. CASE HandlerSocket(t)
  <2>1. SockTypes'
    BY <1>5, NewSocketTypes DEF TypeInv, TypeOK, SockTypes, HandlerSocket
  <2>2. QueueTypes'
    BY <1>5, StaleTypes DEF TypeInv, TypeOK, QueueTypes, HandlerSocket, At, Leave, NewSocket, queue_vars
  <2>3. MainTypes'
    BY <1>5, OldTypes, BoundAssumption DEF TypeInv, TypeOK, MainTypes, HandlerSocket, At, Leave, NewSocket, main_vars
  <2>4. RevTypes' /\ RevHolds'
    BY <1>5, OldTypes DEF TypeInv, TypeOK, RevTypes, RevHolds, HandlerSocket, At, Leave, NewSocket, rev_vars
  <2>5. HandlerTypes'
    BY <1>5, NewSocketTypes DEF TypeInv, TypeOK, HandlerTypes, HandlerSocket, At, Leave, env_vars
  <2> QED
    BY <1>5, <2>1, <2>2, <2>3, <2>4, <2>5, KeptTypes DEF TypeInv, TypeOK, HandlerSocket, At, Leave, NewSocket
<1>6. CASE HandlerConnect(t)
  <2>1. SockTypes'
    BY <1>6, ConnectTypes DEF TypeInv, TypeOK, SockTypes, HandlerConnect
  <2>2. HandlerTypes'
    BY <1>6, ConnectTypes DEF TypeInv, TypeOK, HandlerTypes, HandlerConnect, At, Leave
  <2>3. EnvTypes'
    BY <1>6, ConnectTypes DEF TypeInv, TypeOK, EnvTypes, HandlerConnect
  <2>4. MainTypes'
    BY <1>6 DEF TypeInv, TypeOK, MainTypes, HandlerConnect, ConnectReturns
  <2> QED
    BY <1>6, <2>1, <2>2, <2>3, <2>4, KeptTypes DEF TypeInv, TypeOK, HandlerConnect, At, Leave, ConnectReturns
<1>7. CASE HandlerSslOk(t)
  <2>1. MainTypes'
    BY <1>7, OldTypes, BoundAssumption DEF TypeInv, TypeOK, MainTypes, HandlerSslOk, At, Leave, EndConnecting, main_vars
  <2>2. RevTypes' /\ RevHolds'
    BY <1>7, OldTypes DEF TypeInv, TypeOK, RevTypes, RevHolds, HandlerSslOk, At, Leave, EndConnecting, rev_vars
  <2>3. HandlerTypes'
    BY <1>7, ReachTypes DEF TypeInv, TypeOK, HandlerTypes, HandlerSslOk, At, Leave, EndConnecting, handler_vars
  <2>4. EnvTypes'
    BY <1>7, BoundAssumption DEF TypeInv, TypeOK, EnvTypes, HandlerSslOk, At, Leave, EndConnecting, env_vars
  <2> QED
    BY <1>7, <2>1, <2>2, <2>3, <2>4, KeptTypes DEF TypeInv, TypeOK, HandlerSslOk, At, Leave, EndConnecting
<1>8. CASE HandlerSslFail(t)
  <2>1. SockTypes'
    BY <1>8, NetTypes, ReachTypes DEF TypeInv, TypeOK, SockTypes, HandlerSslFail, At, Leave, sock_vars
  <2>2. HandlerTypes'
    BY <1>8, ReachTypes DEF TypeInv, TypeOK, HandlerTypes, HandlerSslFail, At, Leave, handler_vars
  <2> QED
    BY <1>8, <2>1, <2>2, KeptTypes DEF TypeInv, TypeOK, HandlerSslFail, At, Leave
<1>9. CASE HandlerReconnect(t)
  <2>1. SockTypes'
    BY <1>9, ConnectTypes DEF TypeInv, TypeOK, SockTypes, HandlerReconnect
  <2>2. MainTypes'
    BY <1>9, OldTypes, BoundAssumption DEF TypeInv, TypeOK, MainTypes, HandlerReconnect, At, Leave, EndConnecting, ConnectReturns, main_vars
  <2>3. RevTypes' /\ RevHolds'
    BY <1>9, OldTypes DEF TypeInv, TypeOK, RevTypes, RevHolds, HandlerReconnect, At, Leave, EndConnecting, ConnectReturns, rev_vars
  <2>4. HandlerTypes'
    BY <1>9, ConnectTypes DEF TypeInv, TypeOK, HandlerTypes, HandlerReconnect, At, Leave, EndConnecting
  <2>5. EnvTypes'
    BY <1>9, ConnectTypes DEF TypeInv, TypeOK, EnvTypes, HandlerReconnect, At, Leave, EndConnecting
  <2> QED
    BY <1>9, <2>1, <2>2, <2>3, <2>4, <2>5, KeptTypes DEF TypeInv, TypeOK, HandlerReconnect, At, Leave, EndConnecting, ConnectReturns
<1> QED
  BY <1>1, <1>2, <1>3, <1>4, <1>5, <1>6, <1>7, <1>8, <1>9 DEF Handler

\* The receiver keeps the types.
LEMMA TypeReceiver ==
  ASSUME TypeInv, Receiver
  PROVE  TypeInv'
<1>1. CASE RevGate
  <2>1. RevTypes' /\ RevHolds'
    BY <1>1, OldTypes DEF TypeInv, TypeOK, RevTypes, RevHolds, RevGate, rev_vars
  <2> QED
    BY <1>1, <2>1, KeptTypes DEF TypeInv, TypeOK, RevGate
<1>2. CASE RevCall
  <2>1. RevTypes' /\ RevHolds'
    BY <1>2, OldTypes DEF TypeInv, TypeOK, RevTypes, RevHolds, RevCall, HasPeer, SockState, rev_vars
  <2> QED
    BY <1>2, <2>1, KeptTypes DEF TypeInv, TypeOK, RevCall, HasPeer, SockState
<1>3. CASE RevHeadFails
  <2>1. SockTypes'
    BY <1>3, NetTypes, ReachTypes DEF TypeInv, TypeOK, SockTypes, RevHeadFails, LeaveRecv, ClearQueues, sock_vars
  <2>2. QueueTypes'
    BY <1>3, StaleTypes DEF TypeInv, TypeOK, QueueTypes, RevHeadFails, LeaveRecv, ClearQueues, queue_vars
  <2>3. MainTypes'
    BY <1>3, OldTypes, BoundAssumption DEF TypeInv, TypeOK, MainTypes, RevHeadFails, LeaveRecv, ClearQueues, main_vars
  <2>4. RevTypes' /\ RevHolds'
    BY <1>3, OldTypes DEF TypeInv, TypeOK, RevTypes, RevHolds, RevHeadFails, LeaveRecv, ClearQueues, rev_vars
  <2>5. HandlerTypes'
    BY <1>3, ReachTypes DEF TypeInv, TypeOK, HandlerTypes, RevHeadFails, LeaveRecv, ClearQueues, handler_vars
  <2> QED
    BY <1>3, <2>1, <2>2, <2>3, <2>4, <2>5, KeptTypes DEF TypeInv, TypeOK, RevHeadFails, LeaveRecv, ClearQueues
<1>4. CASE RevRestFails
  <2>1. SockTypes'
    <3> DEFINE q == IF net[rsock].inbox = <<>> THEN net[rsock].inbox ELSE Tail(net[rsock].inbox)
                n == [net EXCEPT ![rsock].inbox = q]
    <3>1. rsock \in Conn
      BY <1>4 DEF TypeInv, RevHolds, RevRestFails, RevAt
    <3>2. q \in Seq(Packet)
      BY <1>4, <3>1, NetTypes, TakeTypes DEF TypeInv, TypeOK, SockTypes, RevRestFails
    <3>3. n \in Networks
      BY <3>1, <3>2, NetTypes DEF TypeInv, TypeOK, SockTypes
    <3>4. \E place : LeaveRecv(n, place)
      BY <1>4 DEF RevRestFails
    <3> HIDE DEF n
    <3> QED
      BY <1>4, <3>3, <3>4, LeaveTypes DEF TypeInv, TypeOK, SockTypes, RevRestFails
  <2>2. RevTypes' /\ RevHolds'
    BY <1>4, OldTypes DEF TypeInv, TypeOK, RevTypes, RevHolds, RevRestFails, LeaveRecv, RevAt, rev_vars
  <2>3. HandlerTypes'
    BY <1>4, ReachTypes DEF TypeInv, TypeOK, HandlerTypes, RevRestFails, LeaveRecv, RevAt, handler_vars
  <2> QED
    BY <1>4, <2>1, <2>2, <2>3, KeptTypes DEF TypeInv, TypeOK, RevRestFails, LeaveRecv, RevAt
<1>5. CASE RevEof
  <2>1. SockTypes'
    BY <1>5, NetTypes, ReachTypes DEF TypeInv, TypeOK, SockTypes, RevEof, LeaveRecv, sock_vars
  <2>2. RevTypes' /\ RevHolds'
    BY <1>5, OldTypes DEF TypeInv, TypeOK, RevTypes, RevHolds, RevEof, LeaveRecv, rev_vars
  <2>3. HandlerTypes'
    BY <1>5, ReachTypes DEF TypeInv, TypeOK, HandlerTypes, RevEof, LeaveRecv, handler_vars
  <2> QED
    BY <1>5, <2>1, <2>2, <2>3, KeptTypes DEF TypeInv, TypeOK, RevEof, LeaveRecv
<1>6. CASE RevBadPackage
  <2>1. SockTypes'
    <3> DEFINE q == Tail(net[rsock].inbox)
                n == [net EXCEPT ![rsock].inbox = q]
    <3>1. rsock \in Conn
      BY <1>6 DEF TypeInv, RevHolds, RevBadPackage, RevAt
    <3>2. q \in Seq(Packet)
      BY <1>6, <3>1, NetTypes, TakeTypes DEF TypeInv, TypeOK, SockTypes, RevBadPackage
    <3>3. n \in Networks
      BY <3>1, <3>2, NetTypes DEF TypeInv, TypeOK, SockTypes
    <3>4. \E place : LeaveRecv(n, place)
      BY <1>6 DEF RevBadPackage
    <3> HIDE DEF n
    <3> QED
      BY <1>6, <3>3, <3>4, LeaveTypes DEF TypeInv, TypeOK, SockTypes, RevBadPackage
  <2>2. RevTypes' /\ RevHolds'
    BY <1>6, OldTypes DEF TypeInv, TypeOK, RevTypes, RevHolds, RevBadPackage, LeaveRecv, RevAt, rev_vars
  <2>3. HandlerTypes'
    BY <1>6, ReachTypes DEF TypeInv, TypeOK, HandlerTypes, RevBadPackage, LeaveRecv, RevAt, handler_vars
  <2> QED
    BY <1>6, <2>1, <2>2, <2>3, KeptTypes DEF TypeInv, TypeOK, RevBadPackage, LeaveRecv, RevAt
<1>7. CASE RevPackage
  <2>1. SockTypes'
    <3> DEFINE q == Tail(net[rsock].inbox)
                n == [net EXCEPT ![rsock].inbox = q]
    <3>1. rsock \in Conn
      BY <1>7 DEF TypeInv, RevHolds, RevPackage, RevAt
    <3>2. q \in Seq(Packet)
      BY <1>7, <3>1, NetTypes, TakeTypes DEF TypeInv, TypeOK, SockTypes, RevPackage
    <3>3. n \in Networks
      BY <3>1, <3>2, NetTypes DEF TypeInv, TypeOK, SockTypes
    <3>4. \E place : LeaveRecv(n, place)
      BY <1>7 DEF RevPackage
    <3> HIDE DEF n
    <3> QED
      BY <1>7, <3>3, <3>4, LeaveTypes DEF TypeInv, TypeOK, SockTypes, RevPackage
  <2>2. RevTypes' /\ RevHolds'
    <3>1. Head(net[rsock].inbox) \in Packet
      BY <1>7, NetTypes, TakeTypes DEF TypeInv, TypeOK, RevHolds, SockTypes, RevPackage, RevAt
    <3>2. rpc' = "enq" /\ rsock' = NoConn
      BY <1>7 DEF RevPackage, LeaveRecv
    <3> QED
      BY <1>7, <3>1, <3>2 DEF TypeInv, TypeOK, RevTypes, RevHolds, RevPackage
  <2>3. HandlerTypes'
    BY <1>7, ReachTypes DEF TypeInv, TypeOK, HandlerTypes, RevPackage, LeaveRecv, RevAt, handler_vars
  <2> QED
    BY <1>7, <2>1, <2>2, <2>3, KeptTypes DEF TypeInv, TypeOK, RevPackage, LeaveRecv, RevAt
<1>8. CASE RevEnQueue
  <2>1. QueueTypes'
    <3>1. CASE IsCommand(package)
      <4>1. package \in Command
        BY <1>8, <3>1 DEF TypeInv, RevHolds, RevEnQueue, RevAt, IsCommand, Packet, Response
      <4> QED
        BY <1>8, <3>1, <4>1, EnQueueTypes DEF TypeInv, TypeOK, QueueTypes, RevEnQueue
    <3>2. CASE ~IsCommand(package)
      <4>1. package \in Response
        BY <1>8, <3>2, KindsAssumption
        DEF TypeInv, RevHolds, RevEnQueue, RevAt, IsCommand, Packet, Command, Response, Responses
      <4> QED
        BY <1>8, <3>2, <4>1, EnQueueTypes DEF TypeInv, TypeOK, QueueTypes, RevEnQueue
    <3> QED
      BY <3>1, <3>2
  <2>2. RevTypes' /\ RevHolds'
    BY <1>8, OldTypes DEF TypeInv, TypeOK, RevTypes, RevHolds, RevEnQueue, RevAt, rev_vars
  <2> QED
    BY <1>8, <2>1, <2>2, KeptTypes DEF TypeInv, TypeOK, RevEnQueue, RevAt
<1> QED
  BY <1>1, <1>2, <1>3, <1>4, <1>5, <1>6, <1>7, <1>8 DEF Receiver

\* main keeps the types.
LEMMA TypeMain ==
  ASSUME TypeInv, Main
  PROVE  TypeInv'
<1>1. CASE MainSwitchOff
  <2>1. MainTypes'
    BY <1>1, OldTypes, BoundAssumption DEF TypeInv, TypeOK, MainTypes, MainSwitchOff, Exit, main_vars
  <2> QED
    BY <1>1, <2>1, KeptTypes DEF TypeInv, TypeOK, MainSwitchOff, Exit
<1>2. CASE MainDeQueue
  <2>1. QueueTypes'
    BY <1>2, StaleTypes DEF TypeInv, TypeOK, QueueTypes, MainDeQueue, queue_vars
  <2>2. MainTypes'
    <3>1. Head(Q_cmd) \in Command
      BY <1>2, TakeTypes DEF TypeInv, TypeOK, QueueTypes, MainDeQueue
    <3>2. Head(Q_cmd) \in Packet /\ Head(Q_cmd).id \in 0 .. MaxCmds
      BY <3>1 DEF Packet, Command
    <3> QED
      BY <1>2, <3>2 DEF TypeInv, TypeOK, MainTypes, MainDeQueue
  <2> QED
    BY <1>2, <2>1, <2>2, KeptTypes DEF TypeInv, TypeOK, MainDeQueue
<1>3. CASE MainAnswer
  <2>1. SockTypes'
    <3>1. CASE Established
      <4>1. sockfd \in Conn
        BY <3>1 DEF Established, SockState
      <4>2. Append(net[sockfd].owed, dealt) \in Seq(0 .. MaxCmds)
        BY <4>1, NetTypes DEF TypeInv, TypeOK, SockTypes, MainTypes
      <4>3. net' = [net EXCEPT ![sockfd].owed = Append(net[sockfd].owed, dealt)]
        BY <1>3, <3>1 DEF MainAnswer, SendTo
      <4> QED
        BY <1>3, <4>1, <4>2, <4>3, NetTypes DEF TypeInv, TypeOK, SockTypes, MainAnswer
    <3>2. CASE ~Established
      BY <1>3, <3>2 DEF TypeInv, TypeOK, SockTypes, MainAnswer, SendTo
    <3> QED
      BY <3>1, <3>2
  <2>2. MainTypes'
    BY <1>3, OldTypes, BoundAssumption DEF TypeInv, TypeOK, MainTypes, MainAnswer, SendTo, main_vars
  <2> QED
    BY <1>3, <2>1, <2>2, KeptTypes DEF TypeInv, TypeOK, MainAnswer, SendTo
<1>4. CASE MainAnswerFailed
  <2>1. SockTypes'
    <3>1. CASE Established
      <4>1. sockfd \in Conn
        BY <3>1 DEF Established, SockState
      <4>2. Append(net[sockfd].owed, dealt) \in Seq(0 .. MaxCmds)
        BY <4>1, NetTypes DEF TypeInv, TypeOK, SockTypes, MainTypes
      <4>3. net' = [net EXCEPT ![sockfd].owed = Append(net[sockfd].owed, dealt)]
        BY <1>4, <3>1 DEF MainAnswerFailed, SendTo
      <4> QED
        BY <1>4, <4>1, <4>2, <4>3, NetTypes DEF TypeInv, TypeOK, SockTypes, MainAnswerFailed
    <3>2. CASE ~Established
      BY <1>4, <3>2 DEF TypeInv, TypeOK, SockTypes, MainAnswerFailed, SendTo
    <3> QED
      BY <3>1, <3>2
  <2>2. MainTypes'
    BY <1>4, OldTypes, BoundAssumption DEF TypeInv, TypeOK, MainTypes, MainAnswerFailed, SendTo, main_vars
  <2> QED
    BY <1>4, <2>1, <2>2, KeptTypes DEF TypeInv, TypeOK, MainAnswerFailed, SendTo
<1>5. CASE MainSendFails
  <2>1. MainTypes'
    BY <1>5, OldTypes, BoundAssumption DEF TypeInv, TypeOK, MainTypes, MainSendFails, Exit, main_vars
  <2> QED
    BY <1>5, <2>1, KeptTypes DEF TypeInv, TypeOK, MainSendFails, Exit
<1>6. CASE MainApiDown
  <2>1. SockTypes'
    BY <1>6, NetTypes, ReachTypes DEF TypeInv, TypeOK, SockTypes, MainApiDown, ClearQueues, sock_vars
  <2>2. QueueTypes'
    BY <1>6, StaleTypes DEF TypeInv, TypeOK, QueueTypes, MainApiDown, ClearQueues, queue_vars
  <2>3. MainTypes'
    BY <1>6, OldTypes, BoundAssumption DEF TypeInv, TypeOK, MainTypes, MainApiDown, ClearQueues, main_vars
  <2>4. HandlerTypes'
    BY <1>6, ReachTypes DEF TypeInv, TypeOK, HandlerTypes, MainApiDown, ClearQueues, handler_vars
  <2>5. EnvTypes'
    BY <1>6, BoundAssumption DEF TypeInv, TypeOK, EnvTypes, MainApiDown, ClearQueues, env_vars
  <2> QED
    BY <1>6, <2>1, <2>2, <2>3, <2>4, <2>5, KeptTypes DEF TypeInv, TypeOK, MainApiDown, ClearQueues
<1>7. CASE MainApiBack
  <2>1. QueueTypes'
    BY <1>7, StaleTypes DEF TypeInv, TypeOK, QueueTypes, MainApiBack, ClearQueues, queue_vars
  <2>2. MainTypes'
    BY <1>7, OldTypes, BoundAssumption DEF TypeInv, TypeOK, MainTypes, MainApiBack, ClearQueues, main_vars
  <2>3. HandlerTypes'
    BY <1>7, ReachTypes DEF TypeInv, TypeOK, HandlerTypes, MainApiBack, ClearQueues, handler_vars
  <2>4. EnvTypes'
    BY <1>7, BoundAssumption DEF TypeInv, TypeOK, EnvTypes, MainApiBack, ClearQueues, env_vars
  <2> QED
    BY <1>7, <2>1, <2>2, <2>3, <2>4, KeptTypes DEF TypeInv, TypeOK, MainApiBack, ClearQueues
<1>8. CASE MainNoAnswer
  <2>1. MainTypes'
    BY <1>8, OldTypes, BoundAssumption DEF TypeInv, TypeOK, MainTypes, MainNoAnswer, main_vars
  <2> QED
    BY <1>8, <2>1, KeptTypes DEF TypeInv, TypeOK, MainNoAnswer
<1>9. CASE MainWait
  <2>1. MainTypes'
    <3>1. wait_res' \in Nat
      BY <1>9 DEF TypeInv, TypeOK, MainTypes, MainWait
    <3> QED
      BY <1>9, <3>1 DEF TypeInv, TypeOK, MainTypes, MainWait
  <2> QED
    BY <1>9, <2>1, KeptTypes DEF TypeInv, TypeOK, MainWait
<1>10. CASE MainRespond
  <2>1. QueueTypes'
    BY <1>10, StaleTypes DEF TypeInv, TypeOK, QueueTypes, MainRespond, queue_vars
  <2>2. MainTypes'
    <3>1. Head(Q_respond) \in Response
      BY <1>10, TakeTypes DEF TypeInv, TypeOK, QueueTypes, MainRespond
    <3>2. Head(Q_respond) \in Packet /\ Head(Q_respond).cmd \in Responses
      BY <3>1 DEF Packet, Response
    <3>3. 0 \in 0 .. MaxCmds
      BY BoundAssumption
    <3> QED
      BY <1>10, <3>2, <3>3 DEF TypeInv, TypeOK, MainTypes, MainRespond
  <2> QED
    BY <1>10, <2>1, <2>2, KeptTypes DEF TypeInv, TypeOK, MainRespond
<1>11. CASE MainNoResponse
  <2>1. MainTypes'
    BY <1>11, OldTypes, BoundAssumption DEF TypeInv, TypeOK, MainTypes, MainNoResponse, main_vars
  <2> QED
    BY <1>11, <2>1, KeptTypes DEF TypeInv, TypeOK, MainNoResponse
<1> QED
  BY <1>1, <1>2, <1>3, <1>4, <1>5, <1>6, <1>7, <1>8, <1>9, <1>10, <1>11 DEF Main

\* The switch thread and what is outside the daemon keep the types.
LEMMA TypeOutside ==
  ASSUME TypeInv, ReadSwitch \/ Environment
  PROVE  TypeInv'
<1>1. CASE ReadSwitch
  <2>1. EnvTypes'
    BY <1>1 DEF TypeInv, TypeOK, EnvTypes, ReadSwitch
  <2> QED
    BY <1>1, <2>1, KeptTypes DEF TypeInv, TypeOK, ReadSwitch
<1>2. CASE SwitchOff \/ CgminerDown \/ CgminerUp
  <2>1. EnvTypes'
    BY <1>2, BoundAssumption
    DEF TypeInv, TypeOK, EnvTypes, SwitchOff, CgminerDown, CgminerUp, Outside
  <2>2. SockTypes'
    BY <1>2 DEF TypeInv, TypeOK, SockTypes, SwitchOff, CgminerDown, CgminerUp, Outside
  <2> QED
    BY <1>2, <2>1, <2>2, KeptTypes
    DEF TypeInv, TypeOK, SwitchOff, CgminerDown, CgminerUp, Outside
<1>3. ASSUME NEW c \in Conn, NEW kind \in CmdKinds, ServerCommand(c, kind)
      PROVE  TypeInv'
  <2>1. EnvTypes'
    BY <1>3, BoundAssumption DEF TypeInv, TypeOK, EnvTypes, ServerCommand, Outside
  <2> DEFINE p == [cmd |-> kind, id |-> sent', fresh |-> TRUE]
             q == Append(net[c].inbox, p)
  <2>2. sent' \in 0 .. MaxCmds
    BY <2>1 DEF EnvTypes
  <2>3. p \in Packet
    BY <2>2 DEF Packet, Command
  <2>4. net' = [net EXCEPT ![c].inbox = q]
    BY <1>3 DEF ServerCommand
  <2> HIDE DEF p
  <2>5. q \in Seq(Packet)
    BY <2>3, NetTypes DEF TypeInv, TypeOK, SockTypes
  <2> HIDE DEF q
  <2>6. net \in Networks
    BY DEF TypeInv, TypeOK, SockTypes
  <2>7. net' \in Networks
    BY <2>4, <2>5, <2>6, NetTypes
  <2>8. SockTypes'
    BY <1>3, <2>7 DEF TypeInv, TypeOK, SockTypes, ServerCommand, Outside
  <2> QED
    BY <1>3, <2>1, <2>8, KeptTypes DEF TypeInv, TypeOK, ServerCommand, Outside
<1>4. ASSUME NEW c \in Conn, NEW res \in Responses, ServerRespond(c, res)
      PROVE  TypeInv'
  <2> DEFINE p == [cmd |-> res, id |-> Head(net[c].owed), fresh |-> TRUE]
             q == Append(net[c].inbox, p)
             n == [net EXCEPT ![c].inbox = q]
  <2>1. net[c].owed \in Seq(0 .. MaxCmds) /\ net[c].owed # <<>> /\ net[c].inbox \in Seq(Packet)
    BY <1>4, NetTypes DEF TypeInv, TypeOK, SockTypes, ServerRespond
  <2>2. Head(net[c].owed) \in 0 .. MaxCmds
    BY <2>1, TakeTypes
  <2>3. p \in Packet
    BY <2>2 DEF Packet, Response
  <2>4. net' = [n EXCEPT ![c].owed = Tail(n[c].owed)]
    BY <1>4 DEF ServerRespond
  <2> HIDE DEF p
  <2>5. q \in Seq(Packet)
    BY <2>1, <2>3
  <2> HIDE DEF q
  <2>6. n \in Networks
    BY <2>5, NetTypes DEF TypeInv, TypeOK, SockTypes
  <2>7. n[c].owed = net[c].owed
    BY DEF TypeInv, TypeOK, SockTypes, Networks
  <2> HIDE DEF n
  <2>8. Tail(n[c].owed) \in Seq(0 .. MaxCmds)
    BY <2>1, <2>7, TakeTypes
  <2>9. net' \in Networks
    BY <2>4, <2>6, <2>8, NetTypes
  <2>10. SockTypes'
    BY <1>4, <2>9 DEF TypeInv, TypeOK, SockTypes, ServerRespond, Outside
  <2>11. EnvTypes'
    BY <1>4 DEF TypeInv, TypeOK, EnvTypes, ServerRespond, Outside
  <2> QED
    BY <1>4, <2>10, <2>11, KeptTypes DEF TypeInv, TypeOK, ServerRespond, Outside
<1>5. ASSUME NEW c \in Conn, ServerClose(c)
      PROVE  TypeInv'
  <2> DEFINE n == [net EXCEPT ![c].st = "fin"]
  <2>1. n \in Networks
    BY NetTypes DEF TypeInv, TypeOK, SockTypes
  <2>2. net' = [n EXCEPT ![c].owed = <<>>]
    BY <1>5 DEF ServerClose
  <2> HIDE DEF n
  <2>3. <<>> \in Seq(0 .. MaxCmds)
    OBVIOUS
  <2>4. net' \in Networks
    BY <2>1, <2>2, <2>3, NetTypes
  <2>5. SockTypes'
    BY <1>5, <2>4 DEF TypeInv, TypeOK, SockTypes, ServerClose, Outside
  <2>6. EnvTypes'
    BY <1>5, BoundAssumption DEF TypeInv, TypeOK, EnvTypes, ServerClose, Outside
  <2> QED
    BY <1>5, <2>5, <2>6, KeptTypes DEF TypeInv, TypeOK, ServerClose, Outside
<1>6. ASSUME NEW c \in Conn, NetBreaks(c)
      PROVE  TypeInv'
  <2>1. SockTypes'
    BY <1>6, NetTypes DEF TypeInv, TypeOK, SockTypes, NetBreaks, Outside
  <2>2. EnvTypes'
    BY <1>6, BoundAssumption DEF TypeInv, TypeOK, EnvTypes, NetBreaks, Outside
  <2> QED
    BY <1>6, <2>1, <2>2, KeptTypes DEF TypeInv, TypeOK, NetBreaks, Outside
<1> QED
  BY <1>1, <1>2, <1>3, <1>4, <1>5, <1>6 DEF Environment

\* Every step keeps the types.
LEMMA TypeStep == TypeInv /\ [Next]_vars => TypeInv'
<1>1. TypeInv /\ UNCHANGED vars => TypeInv'
  BY KeptTypes DEF TypeInv, TypeOK, vars
<1> QED
  BY <1>1, TypeHandler, TypeReceiver, TypeMain, TypeOutside DEF Next

\* The types of the whole daemon.  Among them: commands and responses never
\* get into each other's queue, and what the auth entry of the file takes
\* from a response is a response's code.
THEOREM TypesHold == Spec => []TypeOK
<1>1. TypeInv => TypeOK
  BY DEF TypeInv
<1> QED
  BY <1>1, TypeInit, TypeStep, PTL DEF Spec

-----------------------------------------------------------------------------
\* The wait counter starts at a multiple of the timeout.
LEMMA NoRemainder == 0 % WIAT_RES_TIMEOUT = 0
BY TimeoutAssumption

\* What WaitsWholeTimeout speaks of: most steps leave it alone, or leave both
\* ends outside a wait.
LEMMA WaitKept ==
  ASSUME WaitsWholeTimeout, UNCHANGED wait_res, mpc' \in {"wait", "exit"} \/ mpc \notin {"wait", "exit"}
  PROVE  WaitsWholeTimeout'
BY DEF WaitsWholeTimeout

\* No step ends a wait but a poll that found a response or reached the timeout.
LEMMA WaitStep == WaitsWholeTimeout /\ [Next]_vars => WaitsWholeTimeout'
<1> SUFFICES ASSUME WaitsWholeTimeout, [Next]_vars
             PROVE  WaitsWholeTimeout'
  OBVIOUS
<1>1. CASE UNCHANGED <<mpc, wait_res>>
  BY <1>1 DEF WaitsWholeTimeout
<1>2. CASE MainWait
  <2>1. mpc = "wait"
    BY <1>2 DEF MainWait, MainAt
  <2>2. CASE Q_respond # <<>>
    <3>1. wait_res' = 0
      BY <1>2, <2>2 DEF MainWait
    <3> QED
      BY <3>1, NoRemainder DEF WaitsWholeTimeout
  <2>3. CASE Q_respond = <<>> /\ wait_res' % WIAT_RES_TIMEOUT = 0
    BY <2>3 DEF WaitsWholeTimeout
  <2>4. CASE Q_respond = <<>> /\ wait_res' % WIAT_RES_TIMEOUT # 0
    <3>1. mpc' = "wait"
      BY <1>2, <2>1, <2>4 DEF MainWait
    <3> QED
      BY <3>1 DEF WaitsWholeTimeout
  <2> QED
    BY <2>2, <2>3, <2>4
<1>3. CASE MainSwitchOff \/ MainDeQueue \/ MainAnswer \/ MainAnswerFailed \/ MainSendFails
  BY <1>3, WaitKept DEF MainSwitchOff, MainDeQueue, MainAnswer, MainAnswerFailed, MainSendFails,
                        MainAt, Exit
<1>4. CASE MainApiDown \/ MainApiBack \/ MainNoAnswer \/ MainRespond \/ MainNoResponse
  BY <1>4, WaitKept DEF MainApiDown, MainApiBack, MainNoAnswer, MainRespond, MainNoResponse,
                        MainAt
<1>5. ASSUME NEW t \in Threads, Alarm(t) \/ Handler(t)
      PROVE  WaitsWholeTimeout'
  <2>1. CASE Alarm(t) \/ HandlerUp(t) \/ HandlerDown(t) \/ HandlerSocket(t)
    BY <1>1, <2>1 DEF Alarm, HandlerUp, HandlerDown, HandlerSocket, main_vars
  <2>2. CASE HandlerConnect(t) \/ HandlerSslFail(t)
    BY <1>1, <2>2 DEF HandlerConnect, HandlerSslFail, main_vars
  <2>3. CASE HandlerSwitchOff(t)
    BY <2>3, WaitKept DEF HandlerSwitchOff, Exit
  <2>4. CASE HandlerSslOk(t) \/ HandlerReconnect(t)
    <3>1. UNCHANGED wait_res /\ EndConnecting(t)
      BY <2>4 DEF HandlerSslOk, HandlerReconnect
    <3> QED
      BY <3>1 DEF EndConnecting, WaitsWholeTimeout
  <2> QED
    BY <1>5, <2>1, <2>2, <2>3, <2>4 DEF Handler
<1>6. CASE Receiver
  <2>1. CASE RevGate \/ RevCall \/ RevHeadFails \/ RevRestFails
    BY <1>1, <2>1 DEF RevGate, RevCall, RevHeadFails, RevRestFails, main_vars
  <2>2. CASE RevEof \/ RevBadPackage \/ RevPackage \/ RevEnQueue
    BY <1>1, <2>2 DEF RevEof, RevBadPackage, RevPackage, RevEnQueue, main_vars
  <2> QED
    BY <1>6, <2>1, <2>2 DEF Receiver
<1>7. CASE ReadSwitch
  BY <1>1, <1>7 DEF ReadSwitch, main_vars
<1>8. CASE Environment
  <2>1. Outside
    BY <1>8 DEF Environment, SwitchOff, CgminerDown, CgminerUp, ServerCommand, ServerRespond,
                ServerClose, NetBreaks
  <2> QED
    BY <1>1, <2>1 DEF Outside, main_vars
<1>9. CASE UNCHANGED vars
  BY <1>1, <1>9 DEF vars, main_vars
<1> QED
  BY <1>2, <1>3, <1>4, <1>5, <1>6, <1>7, <1>8, <1>9 DEF Next, Main

\* Every wait for a response runs its whole length, for every timeout:
\* wait_res, which a timeout does not reset, is a multiple of it when the next
\* wait begins.
THEOREM WaitsAreWhole == Spec => []WaitsWholeTimeout
<1>1. Init => WaitsWholeTimeout
  BY NoRemainder DEF Init, WaitsWholeTimeout
<1> QED
  BY <1>1, WaitStep, PTL DEF Spec

-----------------------------------------------------------------------------
\* RoomForReceived is kept only with what the gate of pthr_rev relies on: no
\* queue is ever longer than its slots less one, so "not full" is "shorter".
QueuesFit == Len(Q_cmd) <= MAXQSIZE - 1 /\ Len(Q_respond) <= MAXQSIZE - 1
RoomInv == QueuesFit /\ RoomForReceived

\* Queues that do not grow keep their room, wherever the receiver goes but to
\* the queues' test.
LEMMA RoomKept ==
  ASSUME TypeInv, TypeInv', RoomInv,
         Len(Q_cmd') <= Len(Q_cmd), Len(Q_respond') <= Len(Q_respond),
         rpc' \in {"none", "gate"} \/ rpc \in {"call", "blocked", "enq"} \/ rpc' = rpc
  PROVE  RoomInv'
<1>1. /\ Len(Q_cmd) \in Nat /\ Len(Q_cmd') \in Nat
      /\ Len(Q_respond) \in Nat /\ Len(Q_respond') \in Nat
  BY DEF TypeInv, TypeOK, QueueTypes
<1>2. QueuesFit'
  BY <1>1, SizeAssumption DEF RoomInv, QueuesFit
<1>3. rpc' \in {"call", "blocked", "enq"} => rpc \in {"call", "blocked", "enq"}
  OBVIOUS
<1>4. RoomForReceived'
  BY <1>1, <1>3, SizeAssumption DEF RoomInv, QueuesFit, RoomForReceived, FUL_Queue
<1> QED
  BY <1>2, <1>4 DEF RoomInv

\* The gate and EnQueue: what is enqueued has had room since the gate.
LEMMA RoomReceiver ==
  ASSUME TypeInv, TypeInv', RoomInv, Receiver
  PROVE  RoomInv'
<1>1. CASE RevGate
  BY <1>1 DEF RoomInv, QueuesFit, RoomForReceived, RevGate, RevAt, FUL_Queue, queue_vars
<1>2. CASE RevEnQueue
  <2>1. rpc = "enq" /\ rpc' = "gate"
    BY <1>2 DEF RevEnQueue, RevAt
  <2>2. Len(Q_cmd) < MAXQSIZE - 1 /\ Len(Q_respond) < MAXQSIZE - 1
    BY <2>1, SizeAssumption
    DEF TypeInv, TypeOK, QueueTypes, RoomInv, QueuesFit, RoomForReceived, FUL_Queue
  <2>3. Len(Q_cmd') <= Len(Q_cmd) + 1 /\ Len(Q_respond') <= Len(Q_respond) + 1
    <3>1. \A Q \in Seq(Command) : Len(EnQueue(Q, package)) <= Len(Q) + 1
      BY DEF EnQueue
    <3>2. \A Q \in Seq(Response) : Len(EnQueue(Q, package)) <= Len(Q) + 1
      BY DEF EnQueue
    <3>3. Len(Q_cmd) \in Nat /\ Len(Q_respond) \in Nat
      BY DEF TypeInv, TypeOK, QueueTypes
    <3> QED
      BY <1>2, <3>1, <3>2, <3>3 DEF RevEnQueue, TypeInv, TypeOK, QueueTypes
  <2>4. QueuesFit'
    BY <2>2, <2>3, SizeAssumption DEF QueuesFit, TypeInv, TypeOK, QueueTypes
  <2> QED
    BY <2>1, <2>4 DEF RoomInv, RoomForReceived
<1>3. CASE RevCall \/ RevRestFails \/ RevEof \/ RevBadPackage \/ RevPackage
  <2>1. UNCHANGED queue_vars /\ rpc \in {"call", "blocked", "enq"}
    BY <1>3 DEF RevCall, RevRestFails, RevEof, RevBadPackage, RevPackage, RevAt
  <2> QED
    BY <2>1, RoomKept DEF queue_vars, TypeInv, TypeOK, QueueTypes
<1>4. CASE RevHeadFails
  <2>1. Q_cmd' = <<>> /\ Q_respond' = <<>> /\ rpc \in {"call", "blocked", "enq"}
    BY <1>4 DEF RevHeadFails, RevAt, ClearQueues
  <2> QED
    BY <2>1, RoomKept DEF TypeInv, TypeOK, QueueTypes
<1> QED
  BY <1>1, <1>2, <1>3, <1>4 DEF Receiver

\* main only takes packets out, or clears.
LEMMA RoomMain ==
  ASSUME TypeInv, TypeInv', RoomInv, Main
  PROVE  RoomInv'
<1>1. CASE MainDeQueue
  BY <1>1, TakeTypes, RoomKept
  DEF MainDeQueue, rev_vars, TypeInv, TypeOK, QueueTypes
<1>2. CASE MainRespond
  BY <1>2, TakeTypes, RoomKept
  DEF MainRespond, rev_vars, TypeInv, TypeOK, QueueTypes
<1>3. CASE MainApiDown \/ MainApiBack
  BY <1>3, RoomKept
  DEF MainApiDown, MainApiBack, ClearQueues, rev_vars, TypeInv, TypeOK, QueueTypes
<1>4. CASE UNCHANGED <<queue_vars, rev_vars>>
  BY <1>4, RoomKept DEF queue_vars, rev_vars, TypeInv, TypeOK, QueueTypes
<1>5. CASE MainSwitchOff \/ MainAnswer \/ MainAnswerFailed \/ MainSendFails
  BY <1>4, <1>5
  DEF MainSwitchOff, Exit, MainAnswer, MainAnswerFailed, MainSendFails, queue_vars, rev_vars
<1>6. CASE MainNoAnswer \/ MainWait \/ MainNoResponse
  BY <1>4, <1>6 DEF MainNoAnswer, MainWait, MainNoResponse, queue_vars, rev_vars
<1> QED
  BY <1>1, <1>2, <1>3, <1>5, <1>6, RoomKept DEF Main

\* The handlers start the receiver at its gate and mark the queued packets.
LEMMA RoomHandler ==
  ASSUME TypeInv, TypeInv', RoomInv, NEW t \in Threads, Alarm(t) \/ Handler(t)
  PROVE  RoomInv'
<1>1. CASE UNCHANGED queue_vars /\ rpc' \in {rpc, "gate"}
  BY <1>1, RoomKept DEF queue_vars, TypeInv, TypeOK, QueueTypes
<1>2. CASE HandlerSocket(t)
  BY <1>2, StaleTypes, RoomKept DEF HandlerSocket, NewSocket, TypeInv, TypeOK, QueueTypes
<1>3. CASE Alarm(t) \/ HandlerUp(t) \/ HandlerDown(t) \/ HandlerSwitchOff(t)
  BY <1>1, <1>3 DEF Alarm, HandlerUp, HandlerDown, HandlerSwitchOff, Exit, rev_vars
<1>4. CASE HandlerConnect(t) \/ HandlerSslFail(t)
  BY <1>1, <1>4 DEF HandlerConnect, HandlerSslFail, rev_vars
<1>5. CASE HandlerSslOk(t) \/ HandlerReconnect(t)
  BY <1>1, <1>5 DEF HandlerSslOk, HandlerReconnect, EndConnecting
<1> QED
  BY <1>2, <1>3, <1>4, <1>5 DEF Handler

\* Every step keeps the room.
LEMMA RoomStep == TypeInv /\ TypeInv' /\ RoomInv /\ [Next]_vars => RoomInv'
<1> SUFFICES ASSUME TypeInv, TypeInv', RoomInv, [Next]_vars
             PROVE  RoomInv'
  OBVIOUS
<1>1. CASE UNCHANGED <<queue_vars, rev_vars>>
  BY <1>1, RoomKept DEF queue_vars, rev_vars, TypeInv, TypeOK, QueueTypes
<1>2. CASE ReadSwitch \/ UNCHANGED vars
  BY <1>1, <1>2 DEF ReadSwitch, vars
<1>3. CASE Environment
  <2>1. Outside
    BY <1>3 DEF Environment, SwitchOff, CgminerDown, CgminerUp, ServerCommand, ServerRespond,
                ServerClose, NetBreaks
  <2> QED
    BY <1>1, <2>1 DEF Outside
<1> QED
  BY <1>2, <1>3, RoomMain, RoomReceiver, RoomHandler DEF Next

\* No packet the receiver brings back is dropped, for every size of the
\* queues: both have had a free slot ever since the gate.
THEOREM ReceivedHasRoom == Spec => []RoomForReceived
<1>1. Init => RoomInv
  BY SizeAssumption DEF Init, RoomInv, QueuesFit, RoomForReceived
<1>2. RoomInv => RoomForReceived
  BY DEF RoomInv
<1> QED
  BY <1>1, <1>2, TypeInit, TypeStep, RoomStep, PTL DEF Spec


-----------------------------------------------------------------------------
(* The response and its answer *)

\* An answer whose response is still to come is with the server, the response on
\* its way, in the receiver's hands or in the queue.
Brings(s) == \E j \in DOMAIN s.inbox : ~ IsCommand(s.inbox[j])
Clean(s) == s.owed = <<>> /\ ~ Brings(s)
Carried == ~ IsCommand(package)
AllClean == \A c \in Conn : Clean(net[c])

\* A socket has one at most, and it is about the command d.
One(s, d) ==
  /\ Len(s.owed) <= 1 /\ (s.owed # <<>> => s.owed[1] = d /\ ~ Brings(s))
  /\ \A j, k \in DOMAIN s.inbox : ~ IsCommand(s.inbox[j]) /\ ~ IsCommand(s.inbox[k]) => j = k
  /\ \A j \in DOMAIN s.inbox : ~ IsCommand(s.inbox[j]) => s.inbox[j].id = d

\* Until an answer slips there is one in all: main does not give another before
\* the response to the last one is out of the way.
PairInv ==
  ~ slipped =>
    /\ \A c \in Conn : One(net[c], dealt)
    /\ \A c, d \in Conn : ~ Clean(net[c]) /\ ~ Clean(net[d]) => c = d
    /\ Carried => package.id = dealt /\ Q_respond = <<>> /\ AllClean
    /\ Q_respond # <<>> => Len(Q_respond) = 1 /\ Q_respond[1].id = dealt /\ ~ Carried /\ AllClean
    /\ mpc \notin {"wait", "respond", "exit"} => Q_respond = <<>>
    /\ mpc \notin {"wait", "exit"} => ~ Carried /\ AllClean

\* t is what is left of s.
Left(s, t) ==
  /\ t.owed = s.owed \/ t.owed = <<>>
  /\ t.inbox = s.inbox \/ t.inbox = <<>> \/ (s.inbox # <<>> /\ t.inbox = Tail(s.inbox))

\* No packet is no response.
LEMMA NoPkgIsNone == IsCommand(NoPkg)
BY DEF IsCommand, NoPkg, Responses

\* A packet whose connection is gone is what it was, about the same command.
LEMMA OldIsSame ==
  ASSUME NEW p \in Packet \cup {NoPkg}
  PROVE  (IsCommand(Old(p)) <=> IsCommand(p)) /\ Old(p).id = p.id
<1>1. CASE p = NoPkg
  BY <1>1 DEF Old
<1>2. CASE p # NoPkg
  BY <1>2 DEF Old, IsCommand
<1> QED
  BY <1>1, <1>2

\* The empty sequence has no members.
LEMMA NothingIn == DOMAIN <<>> = {} /\ Len(<<>>) = 0
OBVIOUS

\* A new socket has nothing; one that has nothing has one at most.
LEMMA SocketClean ==
  /\ \A x : Clean(Socket(x))
  /\ \A s, d : Clean(s) => One(s, d)
<1>1. \A x : Clean(Socket(x))
  BY NothingIn DEF Clean, Brings, Socket
<1>2. \A s, d : Clean(s) => One(s, d)
  BY NothingIn DEF Clean, Brings, One
<1> QED
  BY <1>1, <1>2

\* The members of a tail are those of the sequence but the first.
LEMMA TailParts ==
  ASSUME NEW Q \in Seq(Packet), Q # <<>>
  PROVE  /\ Len(Q) \in Nat \ {0} /\ DOMAIN Q = 1 .. Len(Q) /\ Head(Q) = Q[1] /\ 1 \in DOMAIN Q
         /\ DOMAIN Tail(Q) = 1 .. Len(Q) - 1
         /\ \A j \in DOMAIN Tail(Q) : Tail(Q)[j] = Q[j + 1] /\ j + 1 \in DOMAIN Q /\ j + 1 # 1
OBVIOUS

\* What is left of a socket with one response has one at most.
LEMMA LeftKeeps ==
  ASSUME NEW s, s.inbox \in Seq(Packet), NEW t, Left(s, t), NEW d
  PROVE  (One(s, d) => One(t, d)) /\ (Clean(s) => Clean(t))
<1>1. ~ Brings(s) => ~ Brings(t)
  <2>1. CASE t.inbox = s.inbox
    BY <2>1 DEF Brings
  <2>2. CASE t.inbox = <<>>
    BY <2>2, NothingIn DEF Brings
  <2>3. CASE s.inbox # <<>> /\ t.inbox = Tail(s.inbox)
    BY <2>3, TailParts DEF Brings
  <2> QED
    BY <2>1, <2>2, <2>3 DEF Left
<1>2. Clean(s) => Clean(t)
  BY <1>1 DEF Clean, Left
<1>3. ASSUME One(s, d) PROVE One(t, d)
  <2>1. Len(t.owed) <= 1 /\ (t.owed # <<>> => t.owed[1] = d /\ ~ Brings(t))
    BY <1>1, <1>3, NothingIn DEF One, Left
  <2>2. /\ \A j, k \in DOMAIN t.inbox : ~ IsCommand(t.inbox[j]) /\ ~ IsCommand(t.inbox[k]) => j = k
        /\ \A j \in DOMAIN t.inbox : ~ IsCommand(t.inbox[j]) => t.inbox[j].id = d
    <3>1. CASE t.inbox = s.inbox
      BY <1>3, <3>1 DEF One
    <3>2. CASE t.inbox = <<>>
      BY <3>2, NothingIn
    <3>3. CASE s.inbox # <<>> /\ t.inbox = Tail(s.inbox)
      <4>1. \A j, k \in DOMAIN t.inbox : j + 1 = k + 1 => j = k
        BY <3>3, TailParts
      <4> QED
        BY <1>3, <3>3, <4>1, TailParts DEF One
    <3> QED
      BY <3>1, <3>2, <3>3 DEF Left
  <2> QED
    BY <2>1, <2>2 DEF One
<1> QED
  BY <1>2, <1>3

\* The receiver takes the response off the connection.
LEMMA TakenOff ==
  ASSUME NEW s, s.inbox \in Seq(Packet), s.inbox # <<>>, NEW t, NEW d, One(s, d),
         t.owed = s.owed, t.inbox = Tail(s.inbox), ~ IsCommand(Head(s.inbox))
  PROVE  Clean(t) /\ ~ Clean(s) /\ Head(s.inbox).id = d
<1>1. 1 \in DOMAIN s.inbox /\ ~ IsCommand(s.inbox[1]) /\ Head(s.inbox) = s.inbox[1]
  BY TailParts
<1>2. Brings(s) /\ s.owed = <<>>
  BY <1>1 DEF Brings, One
<1>3. ~ Brings(t)
  BY <1>1, TailParts DEF Brings, One
<1> QED
  BY <1>1, <1>2, <1>3 DEF Clean, One

\* The members of a sequence with one more.
LEMMA AppendParts ==
  ASSUME NEW Q \in Seq(Packet), NEW p \in Packet
  PROVE  /\ Len(Q) \in Nat /\ DOMAIN Q = 1 .. Len(Q)
         /\ DOMAIN Append(Q, p) = 1 .. Len(Q) + 1
         /\ \A j \in DOMAIN Q : Append(Q, p)[j] = Q[j]
         /\ Append(Q, p)[Len(Q) + 1] = p
         /\ \A j \in DOMAIN Append(Q, p) : j \in DOMAIN Q \/ j = Len(Q) + 1
OBVIOUS

\* Behind the only member there is nothing.
LEMMA SingleTail ==
  ASSUME NEW S, NEW Q \in Seq(S), Q # <<>>, Len(Q) <= 1
  PROVE  Head(Q) = Q[1] /\ Tail(Q) = <<>> /\ Len(Q) = 1 /\ Q[1] \in S
<1>1. Len(Q) \in Nat /\ Len(Q) # 0
  OBVIOUS
<1>2. Len(Q) = 1
  <2>1. \A n \in Nat : n # 0 /\ n <= 1 => n = 1
    OBVIOUS
  <2> QED
    BY <1>1, <2>1, Zenon
<1>3. Head(Q) = Q[1] /\ Q[1] \in S
  BY <1>2
<1>4. Tail(Q) \in Seq(S) /\ Len(Tail(Q)) = Len(Q) - 1
  BY TakeTypes
<1>5. \A R \in Seq(S) : Len(R) = 0 => R = <<>>
  OBVIOUS
<1>6. Tail(Q) = <<>>
  <2>1. Len(Tail(Q)) = 0
    BY <1>2, <1>4
  <2> QED
    BY <1>4, <1>5, <2>1
<1> QED
  BY <1>2, <1>3, <1>6

\* The server's answer to what it is owed.
LEMMA RespondedTo ==
  ASSUME NEW s, s.inbox \in Seq(Packet), s.owed \in Seq(0 .. MaxCmds), s.owed # <<>>,
         NEW t, NEW d, One(s, d), NEW p \in Packet, ~ IsCommand(p), p.id = Head(s.owed),
         t.owed = Tail(s.owed), t.inbox = Append(s.inbox, p)
  PROVE  One(t, d) /\ ~ Clean(s)
<1>1. ~ Brings(s) /\ s.owed[1] = d /\ Len(s.owed) <= 1
  BY DEF One
<1>2. Tail(s.owed) = <<>> /\ Head(s.owed) = d
  BY <1>1, SingleTail
<1>3. \A j \in DOMAIN t.inbox : ~ IsCommand(t.inbox[j]) => j = Len(s.inbox) + 1
  BY <1>1, AppendParts DEF Brings
<1>4. t.inbox[Len(s.inbox) + 1] = p
  BY AppendParts
<1>5. Len(t.owed) <= 1 /\ t.owed = <<>>
  BY <1>2, NothingIn
<1>6. \A j \in DOMAIN t.inbox : ~ IsCommand(t.inbox[j]) => t.inbox[j].id = d
  BY <1>2, <1>3, <1>4
<1> QED
  BY <1>3, <1>5, <1>6 DEF One, Clean

\* A command more.
LEMMA CommandedToo ==
  ASSUME NEW s, s.inbox \in Seq(Packet), NEW t, NEW p \in Packet, IsCommand(p),
         t.owed = s.owed, t.inbox = Append(s.inbox, p), NEW d
  PROVE  (One(s, d) => One(t, d)) /\ (Clean(s) => Clean(t))
<1>1. \A j \in DOMAIN t.inbox :
        ~ IsCommand(t.inbox[j]) => j \in DOMAIN s.inbox /\ t.inbox[j] = s.inbox[j]
  BY AppendParts
<1>2. Brings(t) => Brings(s)
  BY <1>1 DEF Brings
<1> QED
  BY <1>1, <1>2 DEF One, Clean

\* main's answer.
LEMMA AnsweredOn ==
  ASSUME NEW s, NEW d \in 0 .. MaxCmds, Clean(s), NEW t, t.inbox = s.inbox,
         t.owed = Append(s.owed, d)
  PROVE  One(t, d)
<1>1. Append(<<>>, d) = <<d>> /\ Len(<<d>>) = 1 /\ <<d>>[1] = d
  OBVIOUS
<1>2. t.owed = <<d>> /\ ~ Brings(t)
  BY <1>1 DEF Clean, Brings
<1> QED
  BY <1>1, <1>2 DEF One, Brings

\* What receives, drops and forgets makes no second response.
LEMMA PairShrinks ==
  ASSUME TypeInv, PairInv,
         \A c \in Conn : Left(net[c], net'[c]),
         package' \in {package, Old(package)} \/ IsCommand(package'),
         Q_respond' \in {Q_respond, Stale(Q_respond), <<>>},
         dealt' = dealt, slipped' = slipped \/ slipped' = TRUE,
         mpc' \in {mpc, "exit"} \/ mpc \notin {"wait", "respond", "exit"}
  PROVE  PairInv'
<1> SUFFICES ASSUME ~ slipped'
             PROVE  PairInv'
  BY DEF PairInv
<1>1. ~ slipped /\ net \in Networks /\ package \in Packet \cup {NoPkg} /\ Q_respond \in Seq(Response)
  BY DEF TypeInv, TypeOK, SockTypes, QueueTypes, RevTypes
<1>2. \A c \in Conn : /\ One(net[c], dealt) => One(net'[c], dealt)
                      /\ Clean(net[c]) => Clean(net'[c])
  BY <1>1, NetTypes, LeftKeeps
<1>3. Carried' => Carried /\ package'.id = package.id
  BY <1>1, OldIsSame DEF Carried
<1>4. Q_respond' # <<>> =>
        Q_respond # <<>> /\ Len(Q_respond') = Len(Q_respond)
        /\ (Len(Q_respond) = 1 => Q_respond'[1].id = Q_respond[1].id)
  <2>1. CASE Q_respond' = Stale(Q_respond)
    <3>1. Len(Stale(Q_respond)) = Len(Q_respond)
      BY <1>1, StaleTypes
    <3>2. Q_respond # <<>> \/ Q_respond' = <<>>
      BY <2>1 DEF Stale
    <3>3. Len(Q_respond) = 1 => Stale(Q_respond)[1].id = Q_respond[1].id
      <4>1. Len(Q_respond) = 1 => 1 \in DOMAIN Q_respond /\ Q_respond[1] \in Response
        BY <1>1
      <4>2. Len(Q_respond) = 1 => Stale(Q_respond)[1] = Old(Q_respond[1])
        BY <4>1 DEF Stale
      <4> QED
        BY <4>1, <4>2, OldIsSame DEF Packet
    <3> QED
      BY <2>1, <3>1, <3>2, <3>3
  <2>2. CASE Q_respond' = Q_respond
    BY <2>2
  <2>3. CASE Q_respond' = <<>>
    BY <2>3
  <2> QED
    BY <2>1, <2>2, <2>3
<1> DEFINE old == /\ \A c \in Conn : One(net[c], dealt)
                  /\ \A c, d \in Conn : ~ Clean(net[c]) /\ ~ Clean(net[d]) => c = d
                  /\ Carried => package.id = dealt /\ Q_respond = <<>> /\ AllClean
                  /\ Q_respond # <<>> => /\ Len(Q_respond) = 1 /\ Q_respond[1].id = dealt
                                         /\ ~ Carried /\ AllClean
                  /\ mpc \notin {"wait", "respond", "exit"} => Q_respond = <<>>
                  /\ mpc \notin {"wait", "exit"} => ~ Carried /\ AllClean
<1>5. old
  BY <1>1 DEF PairInv
<1>6. AllClean => AllClean'
  BY <1>2 DEF AllClean
<1> HIDE DEF old
<1>7. (\A c \in Conn : One(net[c], dealt))'
  BY <1>2, <1>5 DEF old
<1>8. (\A c, d \in Conn : ~ Clean(net[c]) /\ ~ Clean(net[d]) => c = d)'
  BY <1>2, <1>5 DEF old
<1>9. (Carried => package.id = dealt /\ Q_respond = <<>> /\ AllClean)'
  BY <1>3, <1>4, <1>5, <1>6 DEF old
<1>10. (Q_respond # <<>> => Len(Q_respond) = 1 /\ Q_respond[1].id = dealt /\ ~ Carried /\ AllClean)'
  BY <1>3, <1>4, <1>5, <1>6 DEF old
<1>11. (mpc \notin {"wait", "respond", "exit"} => Q_respond = <<>>)'
  BY <1>4, <1>5 DEF old
<1>12. (mpc \notin {"wait", "exit"} => ~ Carried /\ AllClean)'
  BY <1>3, <1>5, <1>6 DEF old
<1> QED
  BY <1>7, <1>8, <1>9, <1>10, <1>11, <1>12 DEF PairInv

\* What a socket is left with when others, or it, are dropped.
LEMMA LeftCases ==
  ASSUME NEW n \in Networks
  PROVE  /\ \A c \in Conn : Left(n[c], n[c])
         /\ \A m, s, r : (\A c \in Conn : Left(n[c], m[c]))
                          => \A c \in Conn : Left(n[c], Reachable(m, s, r)[c])
         /\ \A k \in Conn : \A x : \A c \in Conn : Left(n[c], [n EXCEPT ![k] = Socket(x)][c])
         /\ \A k \in Conn : n[k].inbox # <<>> =>
              \A c \in Conn : Left(n[c], [n EXCEPT ![k].inbox = Tail(@)][c])
         /\ \A k \in Conn : \A c \in Conn :
              Left(n[c], [n EXCEPT ![k].st = "fin", ![k].owed = <<>>][c])
<1>1. \A c \in Conn : Left(n[c], n[c])
  BY DEF Left
<1>2. \A m, s, r : (\A c \in Conn : Left(n[c], m[c]))
                    => \A c \in Conn : Left(n[c], Reachable(m, s, r)[c])
  BY DEF Left, Reachable, Socket
<1>3. \A k \in Conn : \A x : \A c \in Conn : Left(n[c], [n EXCEPT ![k] = Socket(x)][c])
  BY DEF Left, Socket, Networks
<1>4. \A k \in Conn : n[k].inbox # <<>> =>
        \A c \in Conn : Left(n[c], [n EXCEPT ![k].inbox = Tail(@)][c])
  BY DEF Left, Networks
<1>5. \A k \in Conn : \A c \in Conn :
        Left(n[c], [n EXCEPT ![k].st = "fin", ![k].owed = <<>>][c])
  BY DEF Left, Networks
<1> QED
  BY <1>1, <1>2, <1>3, <1>4, <1>5

\* A step that moves no packet, out of a wait at most.
LEMMA PairQuiet ==
  ASSUME TypeInv, PairInv, UNCHANGED <<net, package, Q_respond, dealt, slipped>>,
         mpc' \in {mpc, "exit"} \/ mpc \notin {"wait", "respond", "exit"}
  PROVE  PairInv'
<1>1. \A c \in Conn : Left(net[c], net'[c])
  BY LeftCases DEF TypeInv, TypeOK, SockTypes
<1> QED
  BY <1>1, PairShrinks

\* The connecting code drops sockets, and with them what was on its way.
LEMMA PairHandler ==
  ASSUME TypeInv, PairInv, NEW t \in Threads, Alarm(t) \/ Handler(t)
  PROVE  PairInv'
<1>0. net \in Networks /\ hsock \in [Threads -> Conn \cup {NoConn}]
  BY DEF TypeInv, TypeOK, SockTypes, HandlerTypes
<1>1. CASE Alarm(t)
  BY <1>1, PairQuiet DEF Alarm, sock_vars, queue_vars, main_vars, rev_vars
<1>2. CASE HandlerSwitchOff(t)
  BY <1>2, PairQuiet DEF HandlerSwitchOff, Exit, sock_vars, queue_vars, rev_vars
<1>3. CASE HandlerUp(t) \/ HandlerDown(t)
  BY <1>3, PairQuiet DEF HandlerUp, HandlerDown, sock_vars, queue_vars, main_vars, rev_vars
<1>4. CASE HandlerSocket(t)
  <2>1. PICK c \in Conn : net' = Reachable([net EXCEPT ![c] = Socket("syn")], c, rsock)
    BY <1>4 DEF HandlerSocket, NewSocket
  <2>2. \A d \in Conn : Left(net[d], net'[d])
    BY <1>0, <2>1, LeftCases
  <2> QED
    BY <1>4, <2>2, PairShrinks DEF HandlerSocket, NewSocket
<1>5. ASSUME ConnectReturns(t) PROVE \A d \in Conn : Left(net[d], net'[d])
  <2>1. \/ net' = net
        \/ \E state : hsock[t] \in Conn /\ net' = [net EXCEPT ![hsock[t]] = Socket(state)]
    BY <1>0, <1>5 DEF ConnectReturns
  <2> QED
    BY <1>0, <2>1, LeftCases
<1>6. CASE HandlerConnect(t)
  BY <1>5, <1>6, PairShrinks DEF HandlerConnect, queue_vars, main_vars, rev_vars
<1>7. CASE HandlerSslOk(t)
  BY <1>7, PairQuiet DEF HandlerSslOk, EndConnecting, sock_vars, queue_vars
<1>8. CASE HandlerSslFail(t)
  <2>1. \A d \in Conn : Left(net[d], net'[d])
    BY <1>0, <1>8, LeftCases DEF HandlerSslFail
  <2> QED
    BY <1>8, <2>1, PairShrinks DEF HandlerSslFail, queue_vars, main_vars, rev_vars
<1>9. CASE HandlerReconnect(t)
  BY <1>5, <1>9, PairShrinks DEF HandlerReconnect, EndConnecting, queue_vars
<1> QED
  BY <1>1, <1>2, <1>3, <1>4, <1>6, <1>7, <1>8, <1>9 DEF Handler

\* The receiver drops packets, or carries the one response to its queue.
LEMMA PairReceiver ==
  ASSUME TypeInv, PairInv, Receiver
  PROVE  PairInv'
<1>0. /\ net \in Networks /\ Q_respond \in Seq(Response) /\ package \in Packet \cup {NoPkg}
      /\ rpc = "blocked" => rsock \in Conn
  BY DEF TypeInv, TypeOK, SockTypes, QueueTypes, RevTypes, RevHolds
<1>1. CASE RevGate \/ RevCall
  BY <1>1, PairQuiet DEF RevGate, RevCall, sock_vars, queue_vars, main_vars
<1>2. CASE RevHeadFails
  <2>1. \A d \in Conn : Left(net[d], net'[d])
    BY <1>0, <1>2, LeftCases DEF RevHeadFails, LeaveRecv
  <2> QED
    BY <1>2, <2>1, PairShrinks DEF RevHeadFails, ClearQueues
<1>3. CASE RevRestFails
  <2>1. \A d \in Conn : Left(net[d], net'[d])
    <3> DEFINE m == [net EXCEPT ![rsock].inbox = IF @ = <<>> THEN @ ELSE Tail(@)]
    <3>1. \A d \in Conn : Left(net[d], m[d])
      BY <1>0, <1>3 DEF RevRestFails, RevAt, Left, Networks
    <3>2. net' = Reachable(m, sockfd, NoConn)
      BY <1>3 DEF RevRestFails, LeaveRecv
    <3> HIDE DEF m
    <3> QED
      BY <1>0, <3>1, <3>2, LeftCases
  <2> QED
    BY <1>3, <2>1, PairShrinks DEF RevRestFails, LeaveRecv, queue_vars, main_vars
<1>4. CASE RevEof
  <2>1. \A d \in Conn : Left(net[d], net'[d])
    BY <1>0, <1>4, LeftCases DEF RevEof, LeaveRecv
  <2> QED
    BY <1>4, <2>1, PairShrinks DEF RevEof, LeaveRecv, queue_vars, main_vars
<1> DEFINE left == [net EXCEPT ![rsock].inbox = Tail(@)]
<1>5. ASSUME rsock \in Conn, net[rsock].inbox # <<>>
      PROVE  \A d \in Conn : Left(net[d], left[d]) /\ Left(net[d], Reachable(left, sockfd, NoConn)[d])
  BY <1>0, <1>5, LeftCases
<1>6. CASE RevBadPackage
  <2>1. rsock \in Conn /\ net[rsock].inbox # <<>> /\ net' = Reachable(left, sockfd, NoConn)
    BY <1>0, <1>6 DEF RevBadPackage, RevAt, LeaveRecv
  <2>2. \A d \in Conn : Left(net[d], net'[d])
    BY <1>5, <2>1
  <2> QED
    BY <1>6, <2>2, PairShrinks DEF RevBadPackage, LeaveRecv, queue_vars, main_vars
<1>7. CASE RevPackage
  <2>1. /\ rsock \in Conn /\ net[rsock].inbox # <<>> /\ net' = Reachable(left, sockfd, NoConn)
        /\ package' = Head(net[rsock].inbox)
        /\ UNCHANGED <<Q_respond, dealt, slipped, mpc>>
    BY <1>0, <1>7 DEF RevPackage, RevAt, LeaveRecv, queue_vars, main_vars
  <2>2. \A d \in Conn : Left(net[d], net'[d])
    BY <1>5, <2>1
  <2>3. CASE IsCommand(package')
    BY <2>1, <2>2, <2>3, PairShrinks
  <2>4. CASE ~ IsCommand(package') /\ ~ slipped
    <3> DEFINE s == net[rsock]
               t == left[rsock]
    <3>1. s.inbox \in Seq(Packet) /\ s.inbox # <<>> /\ One(s, dealt) /\ ~ IsCommand(Head(s.inbox))
      BY <1>0, <2>1, <2>4, NetTypes DEF PairInv
    <3>2. t.owed = s.owed /\ t.inbox = Tail(s.inbox)
      BY <1>0, <2>1 DEF Networks
    <3>3. Clean(t) /\ ~ Clean(s) /\ Head(s.inbox).id = dealt
      <4> HIDE DEF s, t, left
      <4> QED
        BY <3>1, <3>2, TakenOff
    <3>4. \A c \in Conn : c # rsock => Clean(net[c])
      BY <2>1, <2>4, <3>3 DEF PairInv
    <3>5. \A c \in Conn : c # rsock => left[c] = net[c]
      BY <1>0 DEF Networks
    <3>6. \A c \in Conn : Clean(left[c])
      BY <3>3, <3>4, <3>5
    <3>7. \A c \in Conn : Reachable(left, sockfd, NoConn)[c] \in {left[c], Socket("unused")}
      BY DEF Reachable
    <3>8. \A c \in Conn : Clean(net'[c])
      BY <2>1, <3>6, <3>7, SocketClean
    <3>9. Q_respond = <<>> /\ mpc \in {"wait", "exit"}
      BY <2>1, <2>4, <3>3 DEF PairInv, AllClean
    <3> HIDE DEF s, t, left
    <3>10. package'.id = dealt /\ ~ slipped'
      BY <2>1, <2>4, <3>3 DEF s
    <3>11. \A c \in Conn : One(net'[c], dealt)
      BY <3>8, SocketClean
    <3> QED
      BY <2>1, <3>8, <3>9, <3>10, <3>11 DEF PairInv, AllClean
  <2>5. CASE slipped
    BY <2>1, <2>5 DEF PairInv
  <2> QED
    BY <2>3, <2>4, <2>5
<1>8. CASE RevEnQueue
  <2>1. /\ UNCHANGED <<net, dealt, slipped, mpc>> /\ package' = NoPkg
        /\ Q_respond' = IF IsCommand(package) THEN Q_respond ELSE EnQueue(Q_respond, package)
    BY <1>8 DEF RevEnQueue, sock_vars, main_vars
  <2>2. IsCommand(package')
    BY <2>1, NoPkgIsNone
  <2>3. CASE IsCommand(package)
    <3>1. \A c \in Conn : Left(net[c], net'[c])
      BY <1>0, <2>1, LeftCases
    <3> QED
      BY <2>1, <2>2, <2>3, <3>1, PairShrinks
  <2>4. CASE ~ IsCommand(package) /\ ~ slipped
    <3>1. /\ package.id = dealt /\ Q_respond = <<>> /\ AllClean /\ mpc \in {"wait", "exit"}
          /\ \A c \in Conn : One(net[c], dealt)
      BY <2>4 DEF PairInv, Carried
    <3>2. Q_respond' = <<>> \/ Q_respond' = <<package>>
      <4>1. Append(<<>>, package) = <<package>>
        OBVIOUS
      <4> QED
        BY <2>1, <2>4, <3>1, <4>1 DEF EnQueue
    <3>3. Len(<<package>>) = 1 /\ <<package>>[1] = package
      OBVIOUS
    <3>4. AllClean' /\ (\A c \in Conn : One(net[c], dealt))'
      BY <2>1, <3>1 DEF AllClean
    <3>5. (\A c, d \in Conn : ~ Clean(net[c]) /\ ~ Clean(net[d]) => c = d)'
      BY <3>4 DEF AllClean
    <3>6. ~ Carried'
      BY <2>2 DEF Carried
    <3>7. Q_respond' # <<>> => Len(Q_respond') = 1 /\ Q_respond'[1].id = dealt'
      BY <2>1, <3>1, <3>2, <3>3
    <3>8. mpc' \in {"wait", "exit"}
      BY <2>1, <3>1
    <3> QED
      BY <3>4, <3>5, <3>6, <3>7, <3>8 DEF PairInv
  <2>5. CASE slipped
    BY <2>1, <2>5 DEF PairInv
  <2> QED
    BY <2>3, <2>4, <2>5
<1> QED
  BY <1>1, <1>2, <1>3, <1>4, <1>6, <1>7, <1>8 DEF Receiver

\* With nothing on its way there is nothing to pair.
LEMMA PairNothing ==
  ASSUME UNCHANGED <<net, package>>, AllClean, ~ Carried, Q_respond' = <<>>
  PROVE  PairInv'
<1>1. AllClean' /\ ~ Carried'
  BY DEF AllClean, Carried
<1>2. (\A c \in Conn : One(net[c], dealt))'
  BY <1>1, SocketClean DEF AllClean
<1>3. (\A c, d \in Conn : ~ Clean(net[c]) /\ ~ Clean(net[d]) => c = d)'
  BY <1>1 DEF AllClean
<1> QED
  BY <1>1, <1>2, <1>3 DEF PairInv

\* main gives its answer when nothing is on its way, and takes the next command
\* when the response is taken or given up.
LEMMA PairMain ==
  ASSUME TypeInv, PairInv, Main
  PROVE  PairInv'
<1>0. net \in Networks /\ Q_respond \in Seq(Response) /\ dealt \in 0 .. MaxCmds
  BY DEF TypeInv, TypeOK, SockTypes, QueueTypes, MainTypes
<1>1. CASE MainSwitchOff \/ MainSendFails
  BY <1>1, PairQuiet DEF MainSwitchOff, MainSendFails, Exit, sock_vars, queue_vars, rev_vars
<1>2. CASE MainApiDown \/ MainApiBack
  <2>1. \A c \in Conn : Left(net[c], net'[c])
    BY <1>0, <1>2, LeftCases DEF MainApiDown, MainApiBack, sock_vars
  <2> QED
    BY <1>2, <2>1, PairShrinks DEF MainApiDown, MainApiBack, MainAt, ClearQueues, rev_vars
<1>3. CASE MainNoAnswer
  BY <1>3, PairQuiet DEF MainNoAnswer, MainAt, sock_vars, queue_vars, rev_vars
<1>4. CASE MainDeQueue
  <2>1. /\ mpc = "loop" /\ UNCHANGED <<net, package, Q_respond, slipped>>
    BY <1>4 DEF MainDeQueue, MainAt, sock_vars, rev_vars
  <2>2. CASE slipped
    BY <2>1, <2>2 DEF PairInv
  <2>3. CASE ~ slipped
    BY <2>1, <2>3, PairNothing DEF PairInv
  <2> QED
    BY <2>2, <2>3
<1>5. CASE MainAnswer
  <2>1. /\ mpc = "deal" /\ mpc' = "wait" /\ SendTo
        /\ UNCHANGED <<package, Q_respond, dealt, slipped>>
    BY <1>5 DEF MainAnswer, MainAt, queue_vars, rev_vars
  <2>2. CASE slipped
    BY <2>1, <2>2 DEF PairInv
  <2>3. CASE ~ slipped
    <3>1. Q_respond = <<>> /\ ~ Carried /\ AllClean
      BY <2>1, <2>3 DEF PairInv
    <3>2. \A c \in Conn : /\ One(net'[c], dealt)
                          /\ c # sockfd => Clean(net'[c])
      <4>1. CASE ~ Established
        BY <2>1, <3>1, <4>1, SocketClean DEF SendTo, AllClean
      <4>2. CASE Established
        <5>1. sockfd \in Conn
          BY <4>2 DEF Established, SockState
        <5>2. net' = [net EXCEPT ![sockfd].owed = Append(@, dealt)]
          BY <2>1, <4>2 DEF SendTo
        <5>3. \A c \in Conn : c # sockfd => net'[c] = net[c]
          BY <1>0, <5>2 DEF Networks
        <5>4. /\ net'[sockfd].inbox = net[sockfd].inbox
              /\ net'[sockfd].owed = Append(net[sockfd].owed, dealt)
          BY <1>0, <5>1, <5>2 DEF Networks
        <5>5. One(net'[sockfd], dealt)
          BY <1>0, <3>1, <5>1, <5>4, AnsweredOn DEF AllClean
        <5> QED
          BY <3>1, <5>3, <5>5, SocketClean DEF AllClean
      <4> QED
        BY <4>1, <4>2
    <3>3. (\A c \in Conn : One(net[c], dealt))'
      BY <2>1, <3>2
    <3>4. (\A c, d \in Conn : ~ Clean(net[c]) /\ ~ Clean(net[d]) => c = d)'
      BY <3>2
    <3>5. Q_respond' = <<>> /\ ~ Carried'
      BY <2>1, <3>1 DEF Carried
    <3> QED
      BY <2>1, <3>3, <3>4, <3>5 DEF PairInv
  <2> QED
    BY <2>2, <2>3
<1>6. CASE MainAnswerFailed
  BY <1>6 DEF MainAnswerFailed, PairInv
<1>7. CASE MainWait
  <2>1. /\ UNCHANGED <<net, package, Q_respond, dealt>> /\ mpc = "wait"
        /\ \/ mpc' = "respond" /\ slipped' = slipped /\ Q_respond # <<>>
           \/ slipped' = TRUE
           \/ mpc' = mpc /\ slipped' = slipped
    BY <1>7 DEF MainWait, MainAt, sock_vars, queue_vars, rev_vars
  <2>2. CASE slipped' = TRUE
    BY <2>2 DEF PairInv
  <2>3. CASE mpc' = mpc /\ slipped' = slipped
    BY <2>1, <2>3, PairQuiet
  <2>4. CASE mpc' = "respond" /\ slipped' = slipped /\ Q_respond # <<>> /\ ~ slipped
    <3>1. /\ \A c \in Conn : One(net[c], dealt)
          /\ Len(Q_respond) = 1 /\ Q_respond[1].id = dealt /\ ~ Carried /\ AllClean
      BY <2>4 DEF PairInv
    <3>2. (AllClean /\ ~ Carried)'
      BY <2>1, <3>1 DEF AllClean, Carried
    <3>3. (\A c \in Conn : One(net[c], dealt))'
      BY <2>1, <3>1
    <3>4. (\A c, d \in Conn : ~ Clean(net[c]) /\ ~ Clean(net[d]) => c = d)'
      BY <3>2 DEF AllClean
    <3>5. Len(Q_respond') = 1 /\ Q_respond'[1].id = dealt'
      BY <2>1, <3>1
    <3> QED
      BY <2>4, <3>2, <3>3, <3>4, <3>5 DEF PairInv
  <2>5. CASE slipped /\ slipped' = slipped
    BY <2>5 DEF PairInv
  <2> QED
    BY <2>1, <2>2, <2>3, <2>4, <2>5
<1>8. CASE MainRespond
  <2>1. /\ UNCHANGED <<net, package, slipped>>
        /\ Q_respond # <<>> /\ Q_respond' = Tail(Q_respond)
    BY <1>8 DEF MainRespond, sock_vars, rev_vars
  <2>2. CASE slipped
    BY <2>1, <2>2 DEF PairInv
  <2>3. CASE ~ slipped
    <3>1. Len(Q_respond) = 1 /\ ~ Carried /\ AllClean
      BY <2>1, <2>3 DEF PairInv
    <3>2. Len(Q_respond) <= 1
      BY <3>1
    <3>3. Q_respond' = <<>>
      BY <1>0, <2>1, <3>2, SingleTail
    <3> QED
      BY <2>1, <3>1, <3>3, PairNothing
  <2> QED
    BY <2>2, <2>3
<1>9. CASE MainNoResponse
  <2>1. UNCHANGED <<net, package, slipped, Q_respond>> /\ Q_respond = <<>> /\ mpc = "respond"
    BY <1>9 DEF MainNoResponse, MainAt, sock_vars, queue_vars, rev_vars
  <2>2. CASE slipped
    BY <2>1, <2>2 DEF PairInv
  <2>3. CASE ~ slipped
    BY <2>1, <2>3, PairNothing DEF PairInv
  <2> QED
    BY <2>2, <2>3
<1> QED
  BY <1>1, <1>2, <1>3, <1>4, <1>5, <1>6, <1>7, <1>8, <1>9 DEF Main

\* The server sends commands when it likes, but a response only for an answer.
LEMMA PairOutside ==
  ASSUME TypeInv, PairInv, ReadSwitch \/ Environment
  PROVE  PairInv'
<1>0. net \in Networks
  BY DEF TypeInv, TypeOK, SockTypes
<1>1. CASE ReadSwitch \/ SwitchOff \/ CgminerDown \/ CgminerUp
  BY <1>1, PairQuiet DEF ReadSwitch, SwitchOff, CgminerDown, CgminerUp, Outside,
                         sock_vars, queue_vars, main_vars, rev_vars
<1>2. ASSUME Outside
      PROVE  UNCHANGED <<package, Q_respond, dealt, slipped, mpc>>
  BY <1>2 DEF Outside, queue_vars, main_vars, rev_vars
<1>3. ASSUME NEW c \in Conn, ServerClose(c) \/ NetBreaks(c)
      PROVE  PairInv'
  <2>1. Outside /\ \A d \in Conn : Left(net[d], net'[d])
    <3>1. CASE ServerClose(c)
      BY <1>0, <3>1, LeftCases DEF ServerClose
    <3>2. CASE NetBreaks(c)
      BY <1>0, <3>2, LeftCases DEF NetBreaks
    <3> QED
      BY <1>3, <3>1, <3>2
  <2> QED
    BY <1>2, <2>1, PairShrinks
<1>4. ASSUME NEW c \in Conn, NEW kind \in CmdKinds, ServerCommand(c, kind), ~ slipped
      PROVE  PairInv'
  <2> DEFINE p == [cmd |-> kind, id |-> sent', fresh |-> TRUE]
  <2>1. Outside /\ sent' \in 0 .. MaxCmds
    BY <1>4, TypeOutside DEF ServerCommand, Environment, TypeInv, TypeOK, EnvTypes
  <2>2. p \in Packet /\ IsCommand(p)
    BY <2>1, KindsAssumption DEF Packet, Command, IsCommand, Responses
  <2>3. net' = [net EXCEPT ![c].inbox = Append(@, p)]
    BY <1>4 DEF ServerCommand
  <2> HIDE DEF p
  <2>4. \A d \in Conn : d # c => net'[d] = net[d]
    BY <1>0, <2>3 DEF Networks
  <2>5. net'[c].owed = net[c].owed /\ net'[c].inbox = Append(net[c].inbox, p)
    BY <1>0, <2>3 DEF Networks
  <2>6. /\ One(net[c], dealt) => One(net'[c], dealt)
        /\ Clean(net[c]) => Clean(net'[c])
    BY <1>0, <2>2, <2>5, NetTypes, CommandedToo
  <2>7. \A d \in Conn : /\ One(net[d], dealt) => One(net'[d], dealt)
                        /\ Clean(net[d]) => Clean(net'[d])
    BY <2>4, <2>6
  <2> QED
    BY <1>2, <1>4, <2>1, <2>7 DEF PairInv, AllClean, Carried
<1>5. ASSUME NEW c \in Conn, NEW res \in Responses, ServerRespond(c, res), ~ slipped
      PROVE  PairInv'
  <2> DEFINE p == [cmd |-> res, id |-> Head(net[c].owed), fresh |-> TRUE]
  <2>1. /\ Outside /\ net[c].owed # <<>>
        /\ net' = [net EXCEPT ![c].inbox = Append(@, p), ![c].owed = Tail(@)]
    BY <1>5 DEF ServerRespond
  <2>2. net[c].owed \in Seq(0 .. MaxCmds) /\ net[c].inbox \in Seq(Packet)
    BY <1>0, NetTypes
  <2>3. p \in Packet /\ ~ IsCommand(p) /\ p.id = Head(net[c].owed)
    <3>1. Head(net[c].owed) \in 0 .. MaxCmds
      BY <2>1, <2>2, TakeTypes
    <3> QED
      BY <3>1 DEF Packet, Response, IsCommand
  <2> HIDE DEF p
  <2>4. \A d \in Conn : d # c => net'[d] = net[d]
    BY <1>0, <2>1 DEF Networks
  <2>5. net'[c].owed = Tail(net[c].owed) /\ net'[c].inbox = Append(net[c].inbox, p)
    BY <1>0, <2>1 DEF Networks
  <2>6. One(net'[c], dealt) /\ ~ Clean(net[c])
    <3>1. One(net[c], dealt)
      BY <1>5 DEF PairInv
    <3> QED
      BY <2>1, <2>2, <2>3, <2>5, <3>1, RespondedTo
  <2>7. \A d \in Conn : d # c => Clean(net'[d])
    BY <1>5, <2>4, <2>6 DEF PairInv
  <2>8. \A d \in Conn : One(net'[d], dealt)
    BY <2>6, <2>7, SocketClean
  <2>9. Q_respond = <<>> /\ ~ Carried /\ mpc \in {"wait", "exit"}
    BY <1>5, <2>6 DEF PairInv, AllClean
  <2>10. /\ Q_respond' = <<>> /\ ~ Carried' /\ mpc' \in {"wait", "exit"}
         /\ (\A d \in Conn : One(net[d], dealt))'
    BY <1>2, <2>1, <2>8, <2>9 DEF Carried
  <2> QED
    BY <2>7, <2>10 DEF PairInv
<1>6. CASE slipped /\ Outside
  BY <1>2, <1>6 DEF PairInv
<1>7. CASE Environment
  <2>1. Outside
    BY <1>7 DEF Environment, SwitchOff, CgminerDown, CgminerUp, ServerCommand, ServerRespond,
                ServerClose, NetBreaks
  <2> QED
    BY <1>1, <1>3, <1>4, <1>5, <1>6, <1>7, <2>1 DEF Environment
<1> QED
  BY <1>1, <1>7

\* At the start nothing is on its way.
LEMMA PairInit == Init => PairInv
<1> SUFFICES ASSUME Init PROVE PairInv
  OBVIOUS
<1>1. AllClean /\ ~ Carried
  BY SocketClean, NoPkgIsNone DEF Init, AllClean, Carried
<1>2. \A c \in Conn : One(net[c], dealt)
  BY <1>1, SocketClean DEF AllClean
<1> QED
  BY <1>1, <1>2 DEF Init, PairInv, AllClean

\* Every step keeps the pairing.
LEMMA PairStep == TypeInv /\ PairInv /\ [Next]_vars => PairInv'
<1>1. TypeInv /\ PairInv /\ UNCHANGED vars => PairInv'
  BY PairQuiet DEF vars, sock_vars, queue_vars, main_vars, rev_vars
<1> QED
  BY <1>1, PairMain, PairReceiver, PairHandler, PairOutside DEF Next

\* Until an answer is left without its response, the response main takes is the
\* one to the answer it last gave: for any number of commands, connections and
\* threads, whatever breaks, closes or is reconnected in between.
THEOREM ResponsesPaired == Spec => []ResponsePaired
<1>1. TypeInv /\ PairInv => ResponsePaired
  <2> SUFFICES ASSUME TypeInv, PairInv, mpc = "respond", Q_respond # <<>>, ~ slipped
               PROVE  Head(Q_respond).id = dealt
    BY DEF ResponsePaired
  <2>1. Len(Q_respond) = 1 /\ Q_respond[1].id = dealt
    BY DEF PairInv
  <2>2. Q_respond \in Seq(Response) /\ Len(Q_respond) <= 1
    BY <2>1 DEF TypeInv, TypeOK, QueueTypes
  <2> QED
    BY <2>1, <2>2, SingleTail
<1> QED
  BY <1>1, TypeInit, TypeStep, PairInit, PairStep, PTL DEF Spec

-----------------------------------------------------------------------------
(* The answer to an order *)

\* A socket whose connect() is under way has received nothing, and waits for
\* one thread's connect() only.
Connecting ==
  /\ \A t \in Threads : hsock[t] # NoConn => net[hsock[t]].st = "syn" /\ net[hsock[t]].inbox = <<>>
  /\ \A t, u \in Threads : hsock[t] = hsock[u] /\ hsock[t] # NoConn => t = u

\* An order of the present connection, on its way to its answer.
Order(p) == p.cmd = "06" /\ p.fresh = TRUE
OrderHere == Order(package) \/ Order(deal_package) \/ \E j \in DOMAIN Q_cmd : Order(Q_cmd[j])

\* Its connection is made for good, ...
Made == OrderHere => \A t \in Threads : hsock[t] # sockfd

\* ... so that what erases the order's ID takes sending away until another
\* connect() returns.
IdKept ==
  mpc = "deal" /\ Order(deal_package) /\ ~ overtaken => rev_ID = deal_package.id \/ r_connect = 0

OrderInv == Connecting /\ Made /\ IdKept

\* What the steps have in common: a connect() still under way is the same one
\* on the same socket, ...
StillConnecting ==
  \A t \in Threads : hsock'[t] # NoConn =>
    /\ hsock'[t] = hsock[t]
    /\ net'[hsock[t]].st = net[hsock[t]].st /\ net'[hsock[t]].inbox = net[hsock[t]].inbox

\* ... an order that turns up comes over a connection that is made, ...
NothingNew == OrderHere' => OrderHere \/ \A t \in Threads : hsock[t] # sockfd

\* ... and its ID stays, or sending is taken away.
IdSafe ==
  mpc' = "deal" /\ Order(deal_package') =>
    \/ overtaken' = TRUE \/ r_connect' = 0 \/ rev_ID' = deal_package'.id
    \/ UNCHANGED <<mpc, deal_package, rev_ID, overtaken, r_connect>>

\* Such a step keeps the invariant.
LEMMA OrderKept ==
  ASSUME TypeInv', OrderInv, StillConnecting, NothingNew, IdSafe, sockfd' \in {sockfd, "closed"}
  PROVE  OrderInv'
<1>1. sockfd' \in Conn \cup {"closed"} /\ hsock' \in [Threads -> Conn \cup {NoConn}]
  BY DEF TypeInv, TypeOK, SockTypes, HandlerTypes
<1>2. "closed" \notin Conn /\ NoConn \notin Conn /\ NoConn # "closed"
  BY ConnAssumption DEF NoConn
<1>3. Connecting'
  BY DEF OrderInv, Connecting, StillConnecting
<1>4. Made'
  <2> SUFFICES ASSUME OrderHere', NEW t \in Threads, hsock'[t] = sockfd'
               PROVE  FALSE
    BY DEF Made
  <2>1. hsock'[t] # NoConn /\ sockfd' # "closed"
    BY <1>1, <1>2
  <2>2. hsock[t] = sockfd
    BY <2>1 DEF StillConnecting
  <2> QED
    BY <2>2 DEF OrderInv, Made, NothingNew
<1>5. IdKept'
  BY DEF OrderInv, IdKept, IdSafe
<1> QED
  BY <1>3, <1>4, <1>5 DEF OrderInv

\* Marked or absent, a packet is no order of the present connection.
LEMMA NoOrder ==
  /\ \A p : ~ Order(Old(p))
  /\ \A Q : \A j \in DOMAIN Stale(Q) : ~ Order(Stale(Q)[j])
  /\ ~ Order(NoPkg)
  /\ \A p \in Response : ~ Order(p)
<1>1. ~ Order(NoPkg)
  BY DEF Order, NoPkg
<1>2. \A p : ~ Order(Old(p))
  BY <1>1 DEF Order, Old
<1>3. \A Q : \A j \in DOMAIN Stale(Q) : ~ Order(Stale(Q)[j])
  BY <1>2 DEF Stale
<1>4. \A p \in Response : ~ Order(p)
  BY DEF Order, Response, Responses
<1> QED
  BY <1>1, <1>2, <1>3, <1>4

\* What Reachable and Pending leave.
LEMMA Dropped ==
  ASSUME NEW n, NEW h, NEW s, NEW r
  PROVE  /\ \A t \in Threads : Pending(h, s, r)[t] # NoConn =>
              Pending(h, s, r)[t] = h[t] /\ h[t] \in {s, r}
         /\ \A c \in Conn : c \in {s, r} => Reachable(n, s, r)[c] = n[c]
BY DEF Pending, Reachable

\* Dropping sockets does nothing to a connect() that is not dropped.
LEMMA DropsOnly ==
  ASSUME TypeInv, NEW n, NEW s, NEW r,
         net' = Reachable(n, s, r), hsock' = Pending(hsock, s, r),
         \A t \in Threads : hsock[t] # NoConn =>
           n[hsock[t]].st = net[hsock[t]].st /\ n[hsock[t]].inbox = net[hsock[t]].inbox
  PROVE  StillConnecting
<1> SUFFICES ASSUME NEW t \in Threads, hsock'[t] # NoConn
             PROVE  /\ hsock'[t] = hsock[t]
                    /\ net'[hsock[t]].st = net[hsock[t]].st
                    /\ net'[hsock[t]].inbox = net[hsock[t]].inbox
  BY DEF StillConnecting
<1>1. hsock'[t] = hsock[t] /\ hsock[t] \in {s, r}
  BY Dropped
<1>2. hsock[t] \in Conn
  BY <1>1 DEF TypeInv, TypeOK, HandlerTypes
<1>3. net'[hsock[t]] = n[hsock[t]]
  BY <1>1, <1>2, Dropped
<1> QED
  BY <1>1, <1>3

\* A step that does not touch what OrderInv speaks of, but may end main's dealing.
LEMMA OrderQuiet ==
  ASSUME TypeInv', OrderInv,
         UNCHANGED <<net, sockfd, hsock, package, deal_package, Q_cmd>>,
         mpc' # "deal" \/ r_connect' = 0 \/ UNCHANGED <<mpc, rev_ID, overtaken, r_connect>>
  PROVE  OrderInv'
<1>1. StillConnecting /\ NothingNew
  BY DEF StillConnecting, NothingNew, OrderHere
<1>2. IdSafe
  BY DEF IdSafe
<1> QED
  BY <1>1, <1>2, OrderKept

\* connect() returns: for a socket that is not the order's.
LEMMA OrderConnect ==
  ASSUME TypeInv, TypeInv', OrderInv, NEW t \in Threads, ConnectReturns(t),
         UNCHANGED <<sockfd, package, deal_package, Q_cmd, rev_ID>>,
         mpc' \in {mpc, "loop"}
  PROVE  OrderInv'
<1>0. net \in Networks /\ hsock \in [Threads -> Conn \cup {NoConn}] /\ NoConn \notin Conn
  BY ConnAssumption DEF TypeInv, TypeOK, SockTypes, HandlerTypes, NoConn
<1>1. hsock' = [hsock EXCEPT ![t] = NoConn]
  BY DEF ConnectReturns
<1>2. \A c \in Conn : c # hsock[t] => net'[c] = net[c]
  BY <1>0 DEF ConnectReturns, Networks
<1>3. StillConnecting
  <2> SUFFICES ASSUME NEW u \in Threads, hsock'[u] # NoConn
               PROVE  hsock'[u] = hsock[u] /\ net'[hsock[u]] = net[hsock[u]]
    BY DEF StillConnecting
  <2>1. u # t /\ hsock'[u] = hsock[u]
    BY <1>0, <1>1
  <2>2. hsock[u] \in Conn /\ hsock[u] # hsock[t]
    BY <1>0, <2>1 DEF OrderInv, Connecting
  <2> QED
    BY <1>2, <2>1, <2>2
<1>4. NothingNew
  BY DEF NothingNew, OrderHere
<1>5. IdSafe
  <2> SUFFICES ASSUME mpc' = "deal", Order(deal_package')
               PROVE  overtaken' = TRUE
    BY DEF IdSafe
  <2>1. mpc = "deal" /\ OrderHere
    BY DEF OrderHere
  <2>2. hsock[t] # sockfd
    BY <2>1 DEF OrderInv, Made
  <2> QED
    BY <2>1, <2>2 DEF ConnectReturns
<1> QED
  BY <1>3, <1>4, <1>5, OrderKept

\* The connecting code erases IDs only as it marks the connection, or marks the orders.
LEMMA OrderHandler ==
  ASSUME TypeInv, TypeInv', OrderInv, NEW t \in Threads, Alarm(t) \/ Handler(t)
  PROVE  OrderInv'
<1>0. /\ net \in Networks /\ hsock \in [Threads -> Conn \cup {NoConn}]
      /\ NoConn \notin Conn /\ "closed" \notin Conn
  BY ConnAssumption DEF TypeInv, TypeOK, SockTypes, HandlerTypes, NoConn
<1>1. CASE Alarm(t)
  BY <1>1, OrderQuiet DEF Alarm, sock_vars, queue_vars, main_vars, rev_vars
<1>2. CASE HandlerSwitchOff(t)
  BY <1>2, OrderQuiet DEF HandlerSwitchOff, Exit, sock_vars, queue_vars, rev_vars, handler_vars
<1>3. CASE HandlerUp(t)
  BY <1>3, OrderQuiet DEF HandlerUp, sock_vars, queue_vars, main_vars, rev_vars
<1>4. CASE HandlerDown(t)
  BY <1>4, OrderQuiet DEF HandlerDown, queue_vars, rev_vars
<1>5. CASE HandlerSocket(t)
  <2>1. PICK c \in Conn :
          /\ net[c].st = "unused" /\ sockfd' = c
          /\ net' = Reachable([net EXCEPT ![c] = Socket("syn")], c, rsock)
          /\ hsock' = Pending([hsock EXCEPT ![t] = c], c, rsock)
    BY <1>5 DEF HandlerSocket, NewSocket
  <2> DEFINE n == [net EXCEPT ![c] = Socket("syn")]
             h == [hsock EXCEPT ![t] = c]
  <2>2. h[t] = c /\ \A u \in Threads : u # t => h[u] = hsock[u]
    BY <1>0
  <2>3. n[c] = Socket("syn") /\ \A d \in Conn : d # c => n[d] = net[d]
    BY <1>0 DEF Networks
  <2>4. net' = Reachable(n, c, rsock) /\ hsock' = Pending(h, c, rsock)
    BY <2>1
  <2> HIDE DEF n, h
  <2>5. /\ \A u \in Threads : hsock'[u] # NoConn => hsock'[u] = h[u] /\ h[u] \in {c, rsock}
        /\ \A d \in Conn : d \in {c, rsock} => net'[d] = n[d]
    BY <2>4, Dropped
  <2>6. \A u \in Threads : u # t /\ hsock[u] # NoConn => hsock[u] # c /\ hsock[u] \in Conn
    BY <1>0, <2>1 DEF OrderInv, Connecting
  <2>7. \A u \in Threads :
          hsock'[u] # NoConn => net'[hsock'[u]].st = "syn" /\ net'[hsock'[u]].inbox = <<>>
    <3> SUFFICES ASSUME NEW u \in Threads, hsock'[u] # NoConn
                 PROVE  net'[hsock'[u]].st = "syn" /\ net'[hsock'[u]].inbox = <<>>
      OBVIOUS
    <3>1. CASE u = t
      <4>1. net'[hsock'[u]] = Socket("syn")
        BY <2>2, <2>3, <2>5, <3>1
      <4> QED
        BY <4>1 DEF Socket
    <3>2. CASE u # t
      <4>1. hsock'[u] = hsock[u] /\ hsock[u] # NoConn /\ h[u] = hsock[u]
        BY <2>2, <2>5, <3>2
      <4>2. net'[hsock[u]] = net[hsock[u]]
        BY <2>3, <2>5, <2>6, <3>2, <4>1
      <4> QED
        BY <4>1, <4>2 DEF OrderInv, Connecting
    <3> QED
      BY <3>1, <3>2
  <2>8. \A u, v \in Threads : hsock'[u] = hsock'[v] /\ hsock'[u] # NoConn => u = v
    BY <2>2, <2>5, <2>6 DEF OrderInv, Connecting
  <2>9. ~ OrderHere'
    BY <1>5, NoOrder DEF HandlerSocket, NewSocket, OrderHere
  <2> QED
    BY <2>7, <2>8, <2>9 DEF OrderInv, Connecting, Made, IdKept, OrderHere
<1>6. CASE HandlerConnect(t)
  BY <1>6, OrderConnect DEF HandlerConnect, queue_vars, rev_vars
<1>7. CASE HandlerSslOk(t)
  BY <1>7, OrderQuiet DEF HandlerSslOk, EndConnecting, sock_vars, queue_vars
<1>8. CASE HandlerSslFail(t)
  <2>1. StillConnecting
    BY <1>8, DropsOnly DEF HandlerSslFail
  <2>2. NothingNew /\ IdSafe
    BY <1>8 DEF HandlerSslFail, NothingNew, IdSafe, OrderHere, queue_vars, main_vars, rev_vars
  <2> QED
    BY <1>8, <2>1, <2>2, OrderKept DEF HandlerSslFail
<1>9. CASE HandlerReconnect(t)
  BY <1>9, OrderConnect DEF HandlerReconnect, EndConnecting, queue_vars
<1> QED
  BY <1>1, <1>2, <1>3, <1>4, <1>5, <1>6, <1>7, <1>8, <1>9 DEF Handler

\* The receiver brings an order over a connection that is made, and marks the
\* connection with every ID it erases.
LEMMA OrderReceiver ==
  ASSUME TypeInv, TypeInv', OrderInv, Receiver
  PROVE  OrderInv'
<1>0. /\ net \in Networks /\ hsock \in [Threads -> Conn \cup {NoConn}]
      /\ NoConn \notin Conn /\ Q_cmd \in Seq(Command)
  BY ConnAssumption DEF TypeInv, TypeOK, SockTypes, HandlerTypes, QueueTypes, NoConn
<1>1. CASE RevGate \/ RevCall
  BY <1>1, OrderQuiet DEF RevGate, RevCall, sock_vars, queue_vars, main_vars, handler_vars
<1>2. CASE RevHeadFails
  <2>1. StillConnecting
    BY <1>2, DropsOnly DEF RevHeadFails, LeaveRecv
  <2>2. NothingNew
    BY <1>2 DEF RevHeadFails, ClearQueues, NothingNew, OrderHere
  <2>3. IdSafe
    BY <1>2 DEF RevHeadFails, IdSafe
  <2> QED
    BY <1>2, <2>1, <2>2, <2>3, OrderKept DEF RevHeadFails
<1>3. CASE RevRestFails
  <2>1. rsock \in Conn
    BY <1>3 DEF RevRestFails, RevAt, TypeInv, RevHolds
  <2> DEFINE n == [net EXCEPT ![rsock].inbox = IF @ = <<>> THEN @ ELSE Tail(@)]
  <2>2. \A t \in Threads : hsock[t] # NoConn => n[hsock[t]] = net[hsock[t]]
    <3>1. \A c \in Conn : c # rsock => n[c] = net[c]
      BY <1>0 DEF Networks
    <3>2. \A t \in Threads : hsock[t] # NoConn => hsock[t] \in Conn /\ hsock[t] # rsock
      BY <1>0, <1>3 DEF RevRestFails, OrderInv, Connecting
    <3> QED
      BY <3>1, <3>2
  <2>3. net' = Reachable(n, sockfd, NoConn) /\ hsock' = Pending(hsock, sockfd, NoConn)
    BY <1>3 DEF RevRestFails, LeaveRecv
  <2> HIDE DEF n
  <2>4. StillConnecting
    BY <2>2, <2>3, DropsOnly
  <2>5. NothingNew /\ IdSafe
    BY <1>3 DEF RevRestFails, NothingNew, IdSafe, OrderHere, queue_vars, main_vars
  <2> QED
    BY <1>3, <2>4, <2>5, OrderKept DEF RevRestFails
<1>4. CASE RevEof
  <2>1. StillConnecting
    BY <1>4, DropsOnly DEF RevEof, LeaveRecv
  <2>2. NothingNew /\ IdSafe
    BY <1>4 DEF RevEof, NothingNew, IdSafe, OrderHere, queue_vars, main_vars
  <2> QED
    BY <1>4, <2>1, <2>2, OrderKept DEF RevEof
<1> DEFINE left == [net EXCEPT ![rsock].inbox = Tail(@)]
<1>5. ASSUME rsock \in Conn, net[rsock].inbox # <<>>,
             net' = Reachable(left, sockfd, NoConn), hsock' = Pending(hsock, sockfd, NoConn)
      PROVE  StillConnecting /\ \A t \in Threads : hsock[t] # rsock
  <2>1. \A t \in Threads : hsock[t] # rsock
    BY <1>0, <1>5 DEF OrderInv, Connecting
  <2>2. \A c \in Conn : c # rsock => left[c] = net[c]
    BY <1>0 DEF Networks
  <2>3. \A t \in Threads : hsock[t] # NoConn => left[hsock[t]] = net[hsock[t]]
    BY <1>0, <2>1, <2>2
  <2> HIDE DEF left
  <2>4. StillConnecting
    BY <1>5, <2>3, DropsOnly
  <2> QED
    BY <2>1, <2>4
<1>6. CASE RevBadPackage
  <2>1. StillConnecting
    BY <1>5, <1>6 DEF RevBadPackage, RevAt, LeaveRecv, TypeInv, RevHolds
  <2>2. NothingNew /\ IdSafe
    BY <1>6 DEF RevBadPackage, NothingNew, IdSafe, OrderHere, queue_vars, main_vars
  <2> QED
    BY <1>6, <2>1, <2>2, OrderKept DEF RevBadPackage
<1>7. CASE RevPackage
  <2>1. StillConnecting /\ \A t \in Threads : hsock[t] # sockfd
    BY <1>5, <1>7 DEF RevPackage, RevAt, LeaveRecv, TypeInv, RevHolds
  <2>2. NothingNew
    BY <2>1 DEF NothingNew
  <2>3. IdSafe
    BY <1>7 DEF RevPackage, IdSafe, main_vars
  <2> QED
    BY <1>7, <2>1, <2>2, <2>3, OrderKept DEF RevPackage
<1>8. CASE RevEnQueue
  <2>1. StillConnecting
    BY <1>8 DEF RevEnQueue, StillConnecting, sock_vars, handler_vars
  <2>2. NothingNew
    <3>1. Q_cmd' \in {Q_cmd, Append(Q_cmd, package)} /\ package' = NoPkg
          /\ deal_package' = deal_package
      BY <1>8 DEF RevEnQueue, EnQueue, main_vars
    <3>2. \A j \in DOMAIN Append(Q_cmd, package) :
            Append(Q_cmd, package)[j] = package \/ \E i \in DOMAIN Q_cmd :
              Append(Q_cmd, package)[j] = Q_cmd[i]
      BY <1>0
    <3> QED
      BY <3>1, <3>2, NoOrder DEF NothingNew, OrderHere
  <2>3. IdSafe
    BY <1>8 DEF RevEnQueue, IdSafe, main_vars, sock_vars
  <2> QED
    BY <1>8, <2>1, <2>2, <2>3, OrderKept DEF RevEnQueue, sock_vars
<1> QED
  BY <1>1, <1>2, <1>3, <1>4, <1>6, <1>7, <1>8 DEF Receiver

\* main remembers the ID of the order it takes.
LEMMA OrderMain ==
  ASSUME TypeInv, TypeInv', OrderInv, Main
  PROVE  OrderInv'
<1>0. /\ net \in Networks /\ hsock \in [Threads -> Conn \cup {NoConn}]
      /\ NoConn \notin Conn /\ Q_cmd \in Seq(Command) /\ Q_respond \in Seq(Response)
  BY ConnAssumption DEF TypeInv, TypeOK, SockTypes, HandlerTypes, QueueTypes, NoConn
<1>1. CASE MainSwitchOff \/ MainSendFails
  BY <1>1, OrderQuiet
  DEF MainSwitchOff, MainSendFails, Exit, sock_vars, queue_vars, rev_vars, handler_vars
<1>2. CASE MainNoAnswer \/ MainWait \/ MainNoResponse
  BY <1>2, OrderQuiet
  DEF MainNoAnswer, MainWait, MainNoResponse, MainAt, sock_vars, queue_vars, rev_vars, handler_vars
<1>3. CASE MainDeQueue
  <2>1. StillConnecting
    BY <1>3 DEF MainDeQueue, StillConnecting, sock_vars, handler_vars
  <2>2. NothingNew
    <3>1. /\ Q_cmd # <<>> /\ Q_cmd' = Tail(Q_cmd) /\ deal_package' = Head(Q_cmd)
          /\ package' = package
      BY <1>3 DEF MainDeQueue, rev_vars
    <3>2. /\ 1 \in DOMAIN Q_cmd /\ Head(Q_cmd) = Q_cmd[1]
          /\ \A j \in DOMAIN Tail(Q_cmd) : j + 1 \in DOMAIN Q_cmd /\ Tail(Q_cmd)[j] = Q_cmd[j + 1]
      BY <1>0, <3>1
    <3> QED
      BY <3>1, <3>2 DEF NothingNew, OrderHere
  <2>3. IdSafe
    BY <1>3 DEF MainDeQueue, IdSafe, Order
  <2> QED
    BY <1>3, <2>1, <2>2, <2>3, OrderKept DEF MainDeQueue, sock_vars
<1>4. CASE MainAnswer \/ MainAnswerFailed
  <2>1. /\ SendTo /\ mpc' # "deal"
        /\ UNCHANGED <<sockfd, hsock, package, deal_package, Q_cmd>>
    BY <1>4 DEF MainAnswer, MainAnswerFailed, queue_vars, rev_vars, handler_vars
  <2>2. \A c \in Conn : net'[c].st = net[c].st /\ net'[c].inbox = net[c].inbox
    <3>1. CASE Established
      <4>1. sockfd \in Conn /\ net' = [net EXCEPT ![sockfd].owed = Append(@, dealt)]
        BY <2>1, <3>1 DEF SendTo, Established, SockState
      <4> QED
        BY <1>0, <4>1 DEF Networks
    <3>2. CASE ~ Established
      BY <2>1, <3>2 DEF SendTo
    <3> QED
      BY <3>1, <3>2
  <2>3. StillConnecting
    BY <1>0, <2>1, <2>2 DEF StillConnecting
  <2>4. NothingNew /\ IdSafe
    BY <2>1 DEF NothingNew, IdSafe, OrderHere
  <2> QED
    BY <2>1, <2>3, <2>4, OrderKept
<1>5. CASE MainApiDown
  <2>1. StillConnecting
    BY <1>5, DropsOnly DEF MainApiDown
  <2>2. NothingNew /\ IdSafe
    BY <1>5 DEF MainApiDown, ClearQueues, NothingNew, IdSafe, OrderHere, rev_vars
  <2> QED
    BY <1>5, <2>1, <2>2, OrderKept DEF MainApiDown
<1>6. CASE MainApiBack
  <2>1. StillConnecting
    BY <1>6 DEF MainApiBack, StillConnecting, sock_vars
  <2>2. NothingNew /\ IdSafe
    BY <1>6 DEF MainApiBack, ClearQueues, NothingNew, IdSafe, OrderHere, rev_vars
  <2> QED
    BY <1>6, <2>1, <2>2, OrderKept DEF MainApiBack, sock_vars
<1>7. CASE MainRespond
  <2>1. StillConnecting
    BY <1>7 DEF MainRespond, StillConnecting, sock_vars, handler_vars
  <2>2. NothingNew
    <3>1. Head(Q_respond) \in Response
      BY <1>0, <1>7, TakeTypes DEF MainRespond
    <3> QED
      BY <1>7, <3>1, NoOrder DEF MainRespond, NothingNew, OrderHere, rev_vars
  <2>3. IdSafe
    BY <1>7 DEF MainRespond, IdSafe
  <2> QED
    BY <1>7, <2>1, <2>2, <2>3, OrderKept DEF MainRespond, sock_vars
<1> QED
  BY <1>1, <1>2, <1>3, <1>4, <1>5, <1>6, <1>7 DEF Main

\* Nothing comes over a socket whose connect() is under way.
LEMMA OrderOutside ==
  ASSUME TypeInv, TypeInv', OrderInv, ReadSwitch \/ Environment
  PROVE  OrderInv'
<1>0. /\ net \in Networks /\ hsock \in [Threads -> Conn \cup {NoConn}] /\ NoConn \notin Conn
  BY ConnAssumption DEF TypeInv, TypeOK, SockTypes, HandlerTypes, NoConn
<1>1. CASE ReadSwitch \/ SwitchOff \/ CgminerDown \/ CgminerUp
  BY <1>1, OrderQuiet DEF ReadSwitch, SwitchOff, CgminerDown, CgminerUp, Outside,
                          sock_vars, queue_vars, main_vars, rev_vars, handler_vars
<1>2. ASSUME Outside, NEW c \in Conn, net[c].st = "est",
             \A d \in Conn : d # c => net'[d] = net[d]
      PROVE  OrderInv'
  <2>1. \A t \in Threads : hsock[t] # NoConn => hsock[t] \in Conn /\ hsock[t] # c
    BY <1>0, <1>2 DEF OrderInv, Connecting
  <2>2. StillConnecting
    BY <1>2, <2>1 DEF StillConnecting, Outside, handler_vars
  <2>3. NothingNew /\ IdSafe
    BY <1>2 DEF Outside, NothingNew, IdSafe, OrderHere, queue_vars, main_vars, rev_vars
  <2> QED
    BY <1>2, <2>2, <2>3, OrderKept DEF Outside
<1>3. ASSUME NEW c \in Conn,
             \/ \E kind \in CmdKinds : ServerCommand(c, kind)
             \/ \E res \in Responses : ServerRespond(c, res)
             \/ ServerClose(c) \/ NetBreaks(c)
      PROVE  OrderInv'
  <2>1. Outside /\ net[c].st = "est"
    BY <1>3 DEF ServerCommand, ServerRespond, ServerClose, NetBreaks
  <2>2. \E x : net' = [net EXCEPT ![c] = x]
    <3>1. CASE \E kind \in CmdKinds : ServerCommand(c, kind)
      BY <3>1 DEF ServerCommand
    <3>2. CASE \E res \in Responses : ServerRespond(c, res)
      BY <1>0, <3>2 DEF ServerRespond, Networks
    <3>3. CASE ServerClose(c)
      BY <1>0, <3>3 DEF ServerClose, Networks
    <3>4. CASE NetBreaks(c)
      BY <3>4 DEF NetBreaks
    <3> QED
      BY <1>3, <3>1, <3>2, <3>3, <3>4
  <2>3. \A d \in Conn : d # c => net'[d] = net[d]
    BY <1>0, <2>2 DEF Networks
  <2> QED
    BY <1>2, <2>1, <2>3
<1> QED
  BY <1>1, <1>3 DEF Environment

\* At the start there is no order, and no connect().
LEMMA OrderInit == Init => OrderInv
<1> SUFFICES ASSUME Init PROVE OrderInv
  OBVIOUS
<1>1. ~ OrderHere
  BY NoOrder DEF Init, OrderHere
<1> QED
  BY <1>1 DEF Init, OrderInv, Connecting, Made, IdKept

\* Every step keeps the invariant.
LEMMA OrderStep == TypeInv /\ TypeInv' /\ OrderInv /\ [Next]_vars => OrderInv'
<1>1. TypeInv' /\ OrderInv /\ UNCHANGED vars => OrderInv'
  BY OrderQuiet DEF vars, sock_vars, queue_vars, main_vars, rev_vars, handler_vars
<1> QED
  BY <1>1, OrderHandler, OrderReceiver, OrderMain, OrderOutside DEF Next

\* Only main's two answers end its dealing with an order; both need r_connect.
LEMMA OrderAnswered ==
  ASSUME TypeInv, OrderInv, [Next]_vars, mpc = "deal", mpc' \in {"wait", "loop"},
         deal_package.cmd = "06", deal_package.fresh, ~ overtaken
  PROVE  rev_ID = deal_package.id
<1>1. Order(deal_package)
  <2>1. deal_package.fresh \in BOOLEAN
    BY DEF TypeInv, TypeOK, MainTypes, Packet, Command, Response, NoPkg
  <2> QED
    BY <2>1, Zenon DEF Order
<1>2. r_connect = 1
  <2>1. CASE MainAnswer \/ MainAnswerFailed
    BY <2>1 DEF MainAnswer, MainAnswerFailed, CanSend
  <2>2. CASE MainSwitchOff \/ MainDeQueue \/ MainSendFails \/ MainApiDown \/ MainApiBack
    BY <2>2 DEF MainSwitchOff, MainDeQueue, MainSendFails, MainApiDown, MainApiBack, MainAt, Exit
  <2>3. CASE MainNoAnswer \/ MainWait \/ MainRespond \/ MainNoResponse
    BY <2>3 DEF MainNoAnswer, MainWait, MainRespond, MainNoResponse, MainAt
  <2>4. CASE Receiver
    BY <2>4 DEF Receiver, RevGate, RevCall, RevHeadFails, RevRestFails, RevEof, RevBadPackage,
                RevPackage, RevEnQueue, main_vars
  <2>5. CASE ReadSwitch
    BY <2>5 DEF ReadSwitch, main_vars
  <2>6. CASE Environment
    BY <2>6 DEF Environment, SwitchOff, CgminerDown, CgminerUp, ServerCommand, ServerRespond,
                ServerClose, NetBreaks, Outside, main_vars
  <2>7. ASSUME NEW t \in Threads, Alarm(t) \/ Handler(t) PROVE FALSE
    <3>1. CASE Alarm(t) \/ HandlerUp(t) \/ HandlerDown(t) \/ HandlerSocket(t) \/ HandlerSslFail(t)
      BY <3>1 DEF Alarm, HandlerUp, HandlerDown, HandlerSocket, HandlerSslFail, main_vars
    <3>2. CASE HandlerSwitchOff(t) \/ HandlerConnect(t)
      BY <3>2 DEF HandlerSwitchOff, HandlerConnect, Exit
    <3>3. CASE HandlerSslOk(t) \/ HandlerReconnect(t)
      BY <3>3 DEF HandlerSslOk, HandlerReconnect, EndConnecting
    <3> QED
      BY <2>7, <3>1, <3>2, <3>3 DEF Handler
  <2>8. CASE UNCHANGED vars
    BY <2>8 DEF vars, main_vars
  <2> QED
    BY <2>1, <2>2, <2>3, <2>4, <2>5, <2>6, <2>7, <2>8 DEF Next, Main
<1> QED
  BY <1>1, <1>2 DEF OrderInv, IdKept

\* The answer to an order of the present connection names it, for any number of
\* threads in the connecting code: what erases rev_ID also takes sending away,
\* and only a connect() for a replaced socket would give it back.
THEOREM AnswersNameOrders == Spec => AnswerNamesOrder
<1>1. TypeInv /\ OrderInv /\ [Next]_vars =>
        [mpc = "deal" /\ mpc' \in {"wait", "loop"} /\ deal_package.cmd = "06"
         /\ deal_package.fresh /\ ~ overtaken => rev_ID = deal_package.id]_vars
  BY OrderAnswered
<1> QED
  BY <1>1, TypeInit, TypeStep, OrderInit, OrderStep, PTL DEF Spec, AnswerNamesOrder
=============================================================================
