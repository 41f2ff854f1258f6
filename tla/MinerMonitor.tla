---------------------------- MODULE MinerMonitor ----------------------------
(***************************************************************************)
(* The miner-monitor daemon (minermonitor/client.c, send_pkg.c,            *)
(* dataexchange.c, callapi of cgminer_api.c): the main thread, the         *)
(* receiver thread pthr_rev, the switch thread, and the signal handlers,   *)
(* against a server, a network, cgminer and the web page's api-switch.     *)
(*                                                                         *)
(* A step runs from one blocking call to the next.  A packet is one step,  *)
(* and so are EnQueue, DeQueue and ClearQueue, whose own steps are in      *)
(* RevQueue.  sleep() is not modelled: every step may be delayed for any   *)
(* time, and SIGALRM may come at any moment while its timer runs.          *)
(*                                                                         *)
(* External: the server, the network and cgminer.  The server sends any    *)
(* command at any time and answers each packet the client sends with one   *)
(* response, in order, at any time.                                        *)
(***************************************************************************)
EXTENDS Integers, Sequences, FiniteSets

CONSTANTS
  MAXQSIZE,          \* slots of each queue
  WIAT_RES_TIMEOUT,  \* polls main waits for a response
  Conn,              \* names of sockets and their connections
  Threads,           \* the threads that may take SIGALRM
  CmdKinds,          \* the commands the server uses: "01" auth, "03" status, "06" pools
  MaxCmds,           \* bound: commands the server sends
  MaxFaults,         \* bound: network faults and cgminer stops
  SwitchUsed         \* bound: whether api-switch is ever turned off

ASSUME SizeAssumption == MAXQSIZE \in Nat /\ MAXQSIZE > 1
ASSUME TimeoutAssumption == WIAT_RES_TIMEOUT \in Nat \ {0}
ASSUME KindsAssumption == CmdKinds \subseteq {"01", "03", "06"}
ASSUME ThreadsAssumption == "main" \in Threads /\ Threads \subseteq {"main", "rev", "switch"}
\* One for sockfd, one the receiver is blocked on, one to open.
ASSUME ConnAssumption ==
  IsFiniteSet(Conn) /\ Cardinality(Conn) >= 3 /\ {"none", "closed"} \cap Conn = {}
ASSUME BoundAssumption == MaxCmds \in Nat /\ MaxFaults \in Nat
ASSUME SwitchAssumption == SwitchUsed \in BOOLEAN

VARIABLES
  SW, api_switch,       \* the daemon's copy of the switch, the file's
  r_connect,            \* 1 when the daemon believes it is connected
  sockfd,               \* a socket, or "closed"
  net,                  \* each socket: its state and what is in flight
  Q_cmd, Q_respond,     \* the two queues
  mpc, deal_package, auth_flag, wait_res, rev_ID,   \* main
  conf_auth,            \* the auth entry of minermonitor.conf
  rpc, rsock, retrying, package,                    \* pthr_rev
  hpc, hsock,           \* tcp_state on each thread, and the socket its
                        \* connect() is waiting for
  timer,                \* the 30 s timer runs
  cgminer,              \* cgminer accepts connections
  sent, faults,         \* commands the server sent, faults so far
  dealt, slipped,       \* history: the last command dealt with, whether an
                        \* answer has been left without its response,
  overtaken             \* whether, while main dealt with it, a connect()
                        \* has returned for another socket than sockfd

sock_vars == <<r_connect, sockfd, net>>
queue_vars == <<Q_cmd, Q_respond>>
main_vars == <<mpc, deal_package, auth_flag, wait_res, rev_ID, conf_auth, dealt, slipped,
               overtaken>>
rev_vars == <<rpc, rsock, retrying, package>>
env_vars == <<SW, api_switch, cgminer, sent, faults>>
handler_vars == <<hpc, hsock>>
vars == <<sock_vars, queue_vars, main_vars, rev_vars, env_vars, handler_vars, timer>>

NoConn == "none"
NoPkg == [cmd |-> "", id |-> 0, fresh |-> TRUE]
Socket(state) == [st |-> state, inbox |-> <<>>, owed |-> <<>>]
Responses == {"f5", "f1"}   \* accepted, and any other
Alive == mpc # "exit"

\* fresh is history: the packet came over the connection sockfd names.
Command == [cmd : CmdKinds, id : 0 .. MaxCmds, fresh : BOOLEAN]
Response == [cmd : Responses, id : 0 .. MaxCmds, fresh : BOOLEAN]
Packet == Command \cup Response

Networks == [Conn -> [st : {"unused", "syn", "idle", "est", "fin", "rst"},
                      inbox : Seq(Packet), owed : Seq(0 .. MaxCmds)]]

SockTypes == r_connect \in {0, 1} /\ sockfd \in Conn \cup {"closed"} /\ net \in Networks
QueueTypes == Q_cmd \in Seq(Command) /\ Q_respond \in Seq(Response)
MainTypes ==
  /\ mpc \in {"start", "loop", "deal", "api_down", "api_back", "wait", "respond", "exit"}
  /\ deal_package \in Packet \cup {NoPkg}
  /\ auth_flag \in {0, 1} /\ wait_res \in Nat /\ rev_ID \in 0 .. MaxCmds
  /\ conf_auth \in {"fx"} \cup Responses
  /\ dealt \in 0 .. MaxCmds /\ slipped \in BOOLEAN /\ overtaken \in BOOLEAN
RevTypes ==
  /\ rpc \in {"none", "gate", "call", "blocked", "enq"}
  /\ rsock \in Conn \cup {NoConn} /\ retrying \in BOOLEAN
  /\ package \in Packet \cup {NoPkg}
HandlerTypes ==
  /\ hpc \in [Threads -> {"none", "check", "socket", "connect", "ssl",
                         "resocket", "reconnect"}]
  /\ hsock \in [Threads -> Conn \cup {NoConn}]
EnvTypes ==
  /\ SW \in {0, 1} /\ api_switch \in {"on", "off"}
  /\ timer \in BOOLEAN /\ cgminer \in {"up", "down"}
  /\ sent \in 0 .. MaxCmds /\ faults \in 0 .. MaxFaults

TypeOK == SockTypes /\ QueueTypes /\ MainTypes /\ RevTypes /\ HandlerTypes /\ EnvTypes

\* main runs the connecting code of tcp_state before the receiver exists.
Init ==
  /\ SW = 0 /\ api_switch = "on"
  /\ r_connect = 1 /\ sockfd = "closed" /\ net = [c \in Conn |-> Socket("unused")]
  /\ Q_cmd = <<>> /\ Q_respond = <<>>
  /\ mpc = "start" /\ deal_package = NoPkg /\ auth_flag = 0 /\ wait_res = 0
  /\ rev_ID = 0 /\ conf_auth = "fx"
  /\ rpc = "none" /\ rsock = NoConn /\ retrying = FALSE /\ package = NoPkg
  /\ hpc = [t \in Threads |-> IF t = "main" THEN "socket" ELSE "none"]
  /\ hsock = [t \in Threads |-> NoConn]
  /\ timer = FALSE /\ cgminer = "up"
  /\ sent = 0 /\ faults = 0 /\ dealt = 0
  /\ slipped = FALSE /\ overtaken = FALSE

-----------------------------------------------------------------------------
\* Operators on the state

FUL_Queue(Q) == Len(Q) = MAXQSIZE - 1
EnQueue(Q, p) == IF FUL_Queue(Q) THEN Q ELSE Append(Q, p)
ClearQueues == Q_cmd' = <<>> /\ Q_respond' = <<>>

IsCommand(p) == p.cmd \notin Responses

SockState == IF sockfd \in Conn THEN net[sockfd].st ELSE "closed"
Established == SockState = "est"   \* TCP_ESTABLISHED in tcp_info

\* A socket neither sockfd nor a blocked recv names is out of reach: what
\* becomes of it no longer matters to the daemon.
Reachable(n, s, r) == [c \in Conn |-> IF c \in {s, r} THEN n[c] ELSE Socket("unused")]
Pending(h, s, r) == [t \in Threads |-> IF h[t] \in {s, r} THEN h[t] ELSE NoConn]

\* Mutant: the thread returns where it should have called exit().
ExitReturns == UNCHANGED vars

\* exit(), from any thread.
Exit == mpc' = "exit" /\ UNCHANGED <<sock_vars, queue_vars, deal_package, auth_flag,
                                     wait_res, rev_ID, conf_auth, dealt, slipped, overtaken,
                                     rev_vars, env_vars, handler_vars, timer>>

Old(p) == IF p = NoPkg THEN p ELSE [cmd |-> p.cmd, id |-> p.id, fresh |-> FALSE]
Stale(Q) == [i \in DOMAIN Q |-> Old(Q[i])]

\* sock_connect_server up to connect(): sockfd names a new socket, without
\* the old one being closed, and whatever was received came over the old one.
NewSocket(t) ==
  \E c \in {d \in Conn : net[d].st = "unused"} :
    /\ sockfd' = c
    /\ net' = Reachable([net EXCEPT ![c] = Socket("syn")], c, rsock)
    /\ hsock' = Pending([hsock EXCEPT ![t] = c], c, rsock)
    /\ Q_cmd' = Stale(Q_cmd)
    /\ Q_respond' = Stale(Q_respond)
    /\ package' = Old(package)
    /\ deal_package' = Old(deal_package)

\* connect() returns.  Its socket may not be sockfd any more.
ConnectReturns(t) ==
  LET become(state) == IF hsock[t] = NoConn THEN net
                                            ELSE [net EXCEPT ![hsock[t]] = Socket(state)]
  IN /\ \/ r_connect' = 1 /\ net' = become("est") /\ UNCHANGED faults
        \/ /\ faults < MaxFaults /\ faults' = faults + 1
           /\ r_connect' = 0 /\ net' = become("idle")
     /\ hsock' = [hsock EXCEPT ![t] = NoConn]
     /\ overtaken' = (overtaken \/ (mpc = "deal" /\ hsock[t] # sockfd))

-----------------------------------------------------------------------------
\* The connecting code: tcp_state on the thread t that took SIGALRM (or main,
\* on SIGUSR2), and main's own at the start.  It suspends its thread.

\* SIGALRM is blocked on a thread that is in its handler; the kernel then
\* gives it to another one.
Alarm(t) ==
  /\ timer /\ Alive /\ hpc[t] = "none"
  /\ t # "main" => hpc["main"] # "none"
  /\ hpc' = [hpc EXCEPT ![t] = "check"]
  /\ UNCHANGED <<sock_vars, queue_vars, main_vars, rev_vars, env_vars, hsock, timer>>

At(t, place) == Alive /\ hpc[t] = place
Leave(t, place) == hpc' = [hpc EXCEPT ![t] = place]

\* The web switch is off: tcp_state and sock_connect_server exit.
HandlerSwitchOff(t) ==
  /\ Alive /\ hpc[t] \in {"check", "socket", "resocket"}
  /\ SW = 1
  /\ Exit

\* getsockopt on a closed descriptor leaves info as it was on the stack.
HandlerUp(t) ==
  /\ At(t, "check") /\ SW = 0
  /\ Established \/ sockfd = "closed"
  /\ Leave(t, "none")
  /\ UNCHANGED <<sock_vars, queue_vars, main_vars, rev_vars, env_vars, hsock, timer>>

\* Mutant: r_connect counts the broken connections down.
HandlerDownCounts(t) ==
  /\ At(t, "check") /\ SW = 0
  /\ ~Established
  /\ Leave(t, "socket")
  /\ r_connect' = r_connect - 1
  /\ rev_ID' = 0
  /\ UNCHANGED <<sockfd, net, queue_vars, mpc, deal_package, auth_flag, wait_res,
                 conf_auth, dealt, slipped, overtaken, rev_vars, env_vars, hsock, timer>>

HandlerDown(t) ==
  /\ At(t, "check") /\ SW = 0
  /\ ~Established
  /\ Leave(t, "socket")
  /\ r_connect' = 0
  /\ rev_ID' = 0
  /\ UNCHANGED <<sockfd, net, queue_vars, mpc, deal_package, auth_flag, wait_res,
                 conf_auth, dealt, slipped, overtaken, rev_vars, env_vars, hsock, timer>>

HandlerSocket(t) ==
  /\ SW = 0
  /\ \/ At(t, "socket") /\ Leave(t, "connect")
     \/ At(t, "resocket") /\ Leave(t, "reconnect")
  /\ NewSocket(t)
  /\ UNCHANGED <<r_connect, mpc, auth_flag, wait_res, rev_ID, conf_auth, dealt, slipped,
                 overtaken, rpc, rsock, retrying, env_vars, timer>>

HandlerConnect(t) ==
  /\ At(t, "connect")
  /\ ConnectReturns(t)
  /\ Leave(t, CASE r_connect' = 1 -> "ssl"
                [] r_connect' = 0 /\ mpc = "start" -> "socket"
                [] OTHER -> "none")
  /\ UNCHANGED <<sockfd, queue_vars, mpc, deal_package, auth_flag, wait_res, rev_ID,
                 conf_auth, dealt, slipped, rev_vars, SW, api_switch, cgminer, sent, timer>>

\* Mutant: signal_check does not start the timer.
EndConnectingNoTimer(t) ==
  /\ Leave(t, "none")
  /\ IF mpc = "start"
       THEN mpc' = "loop" /\ rpc' = "gate"
       ELSE UNCHANGED <<mpc, rpc>>
  /\ UNCHANGED timer

\* main starts the receiver and the timer when its own connecting is over.
EndConnecting(t) ==
  /\ Leave(t, "none")
  /\ IF mpc = "start"
       THEN mpc' = "loop" /\ rpc' = "gate" /\ timer' = TRUE
       ELSE UNCHANGED <<mpc, rpc, timer>>

HandlerSslOk(t) ==
  /\ At(t, "ssl")
  /\ EndConnecting(t)
  /\ UNCHANGED <<sock_vars, queue_vars, deal_package, auth_flag, wait_res, rev_ID, conf_auth,
                 dealt, slipped, overtaken, rsock, retrying, package, env_vars, hsock>>

\* No SSL: plain TCP from now on, over a connection of its own.
HandlerSslFail(t) ==
  /\ At(t, "ssl")
  /\ Leave(t, "resocket")
  /\ sockfd' = "closed"
  /\ net' = Reachable(net, "closed", rsock)
  /\ hsock' = Pending(hsock, "closed", rsock)
  /\ UNCHANGED <<r_connect, queue_vars, main_vars, rev_vars, env_vars, timer>>

\* Whether this one connects is not looked at.
HandlerReconnect(t) ==
  /\ At(t, "reconnect")
  /\ ConnectReturns(t)
  /\ EndConnecting(t)
  /\ UNCHANGED <<sockfd, queue_vars, deal_package, auth_flag, wait_res, rev_ID, conf_auth,
                 dealt, slipped, rsock, retrying, package, SW, api_switch, cgminer, sent>>

Handler(t) ==
  \/ HandlerSwitchOff(t)
  \/ HandlerUp(t) \/ HandlerDown(t)
  \/ HandlerSocket(t) \/ HandlerConnect(t)
  \/ HandlerSslOk(t) \/ HandlerSslFail(t)
  \/ HandlerReconnect(t)

-----------------------------------------------------------------------------
\* pthr_rev.  "call" is a call of rev_data_struct, "blocked" its recv.
InHandler(t) == t \in Threads /\ hpc[t] # "none"
RevAt(place) == Alive /\ ~InHandler("rev") /\ rpc = place

\* Mutant: pthr_rev looks at the command queue only.
RevGateCmdOnly ==
  /\ RevAt("gate")
  /\ ~FUL_Queue(Q_cmd)
  /\ rpc' = "call"
  /\ retrying' = FALSE
  /\ UNCHANGED <<sock_vars, queue_vars, main_vars, rsock, package, env_vars, handler_vars,
                 timer>>

RevGate ==
  /\ RevAt("gate")
  /\ ~FUL_Queue(Q_cmd) /\ ~FUL_Queue(Q_respond)
  /\ rpc' = "call"
  /\ retrying' = FALSE
  /\ UNCHANGED <<sock_vars, queue_vars, main_vars, rsock, package, env_vars, handler_vars,
                 timer>>

\* A recv on sockfd waits; on a closed one, or on a socket that
\* never got connected, it fails at once.
HasPeer == SockState \notin {"closed", "idle"}

\* receivedata passes the test of r_connect and enters recv on sockfd.
RevCall ==
  /\ RevAt("call")
  /\ r_connect = 1 /\ HasPeer
  /\ rpc' = "blocked"
  /\ rsock' = sockfd
  /\ UNCHANGED <<sock_vars, queue_vars, main_vars, retrying, package, env_vars, handler_vars,
                 timer>>

\* Where a recv returns to: out of reach is what only it was holding.
LeaveRecv(n, place) ==
  /\ rpc' = place
  /\ rsock' = NoConn
  /\ net' = Reachable(n, sockfd, NoConn)
  /\ hsock' = Pending(hsock, sockfd, NoConn)

\* rev_data_struct got -1 for the head: the connection is taken for broken,
\* and recv_serpkg_struct goes round its loop.
RevHeadFails ==
  /\ \/ RevAt("call") /\ (r_connect = 0 \/ ~HasPeer)
     \/ RevAt("blocked") /\ net[rsock].st \in {"rst", "idle"}
  /\ LeaveRecv(net, "call")
  /\ retrying' = TRUE
  /\ r_connect' = 0
  /\ rev_ID' = 0
  /\ ClearQueues
  /\ UNCHANGED <<sockfd, mpc, deal_package, auth_flag, wait_res, conf_auth, dealt, slipped,
                 overtaken, package, env_vars, hpc, timer>>

\* The head is there but a later part is not: -1, or a body of 0 bytes.
RevRestFails ==
  /\ RevAt("blocked")
  /\ \/ net[rsock].st \in {"fin", "rst"}
     \/ net[rsock].inbox # <<>> /\ r_connect = 0
  /\ LeaveRecv([net EXCEPT ![rsock].inbox = IF @ = <<>> THEN @ ELSE Tail(@)], "call")
  /\ retrying' = TRUE
  /\ r_connect' = 0
  /\ UNCHANGED <<sockfd, queue_vars, main_vars, package, env_vars, hpc, timer>>

\* Mutant: clear_recv is called at the end of the stream too.
RevEofForgets ==
  /\ RevAt("blocked")
  /\ net[rsock].st = "fin" /\ net[rsock].inbox = <<>>
  /\ LeaveRecv(net, "call")
  /\ retrying' = TRUE
  /\ rev_ID' = 0
  /\ UNCHANGED <<r_connect, sockfd, queue_vars, mpc, deal_package, auth_flag, wait_res,
                 conf_auth, dealt, slipped, overtaken, package, env_vars, hpc, timer>>

\* 0 bytes for the head: the server closed; r_connect and the queues stay.
RevEof ==
  /\ RevAt("blocked")
  /\ net[rsock].st = "fin" /\ net[rsock].inbox = <<>>
  /\ LeaveRecv(net, "call")
  /\ retrying' = TRUE
  /\ UNCHANGED <<r_connect, sockfd, queue_vars, main_vars, package, env_vars, hpc, timer>>

\* A part came short, the head is not "00", or the rest was read from the
\* connection that replaced this one.  -1 is "Bad Package" to pthr_rev, and
\* one more round to the loop of recv_serpkg_struct.
RevBadPackage ==
  /\ RevAt("blocked")
  /\ net[rsock].inbox # <<>> /\ r_connect = 1
  /\ LeaveRecv([net EXCEPT ![rsock].inbox = Tail(@)], IF retrying THEN "call" ELSE "gate")
  /\ UNCHANGED <<r_connect, sockfd, queue_vars, main_vars, retrying, package, env_vars,
                 hpc, timer>>

RevPackage ==
  /\ RevAt("blocked")
  /\ rsock = sockfd /\ r_connect = 1
  /\ net[rsock].inbox # <<>>
  /\ package' = Head(net[rsock].inbox)
  /\ LeaveRecv([net EXCEPT ![rsock].inbox = Tail(@)], "enq")
  /\ UNCHANGED <<r_connect, sockfd, queue_vars, main_vars, retrying, env_vars, hpc, timer>>

\* pkg_cmd[0] tells a response from a command.  EnQueue's result is ignored.
RevEnQueue ==
  /\ RevAt("enq")
  /\ IF IsCommand(package)
       THEN Q_cmd' = EnQueue(Q_cmd, package) /\ UNCHANGED Q_respond
       ELSE Q_respond' = EnQueue(Q_respond, package) /\ UNCHANGED Q_cmd
  /\ rpc' = "gate"
  /\ package' = NoPkg
  /\ UNCHANGED <<sock_vars, main_vars, rsock, retrying, env_vars, handler_vars, timer>>

Receiver == RevGate \/ RevCall \/ RevHeadFails \/ RevRestFails \/ RevEof
            \/ RevBadPackage \/ RevPackage \/ RevEnQueue

-----------------------------------------------------------------------------
\* main
MainAt(place) == hpc["main"] = "none" /\ mpc = place

MainSwitchOff ==
  /\ MainAt("loop") /\ SW = 1
  /\ Exit

MainDeQueue ==
  /\ MainAt("loop") /\ SW = 0
  /\ Q_cmd # <<>>
  /\ deal_package' = Head(Q_cmd)
  /\ Q_cmd' = Tail(Q_cmd)
  /\ auth_flag' = IF Head(Q_cmd).cmd = "01" THEN 1 ELSE auth_flag
  /\ rev_ID' = IF Head(Q_cmd).cmd = "06" THEN Head(Q_cmd).id ELSE rev_ID
  /\ dealt' = Head(Q_cmd).id
  /\ overtaken' = FALSE
  /\ mpc' = "deal"
  /\ UNCHANGED <<sock_vars, Q_respond, wait_res, conf_auth, slipped, rev_vars, env_vars,
                 handler_vars, timer>>

\* send_head and what follows it.  The bytes reach the server on the
\* connection of sockfd, or nobody (a send after the server closed).
SendTo == IF Established
            THEN net' = [net EXCEPT ![sockfd].owed = Append(@, dealt)]
            ELSE UNCHANGED net

CanSend == r_connect = 1 /\ SockState \in {"est", "fin"}

\* An answer that waits for its response; clear_recv ends deal_cmd.
MainAnswer ==
  /\ MainAt("deal")
  /\ deal_package.cmd = "03" => cgminer = "up"
  /\ CanSend
  /\ SendTo
  /\ rev_ID' = 0
  /\ mpc' = "wait"
  /\ UNCHANGED <<r_connect, sockfd, queue_vars, deal_package, auth_flag, wait_res, conf_auth,
                 dealt, slipped, overtaken, rev_vars, env_vars, handler_vars, timer>>

\* restart_cgminer did not reach cgminer in time: "F", and on to the next
\* command without waiting.
MainAnswerFailed ==
  /\ MainAt("deal")
  /\ deal_package.cmd = "06"
  /\ CanSend
  /\ SendTo
  /\ slipped' = TRUE
  /\ mpc' = "loop"
  /\ UNCHANGED <<r_connect, sockfd, queue_vars, deal_package, auth_flag, wait_res, rev_ID,
                 conf_auth, dealt, overtaken, rev_vars, env_vars, handler_vars, timer>>

\* send_head cannot send (on a socket that is still connecting it waits).
MainSendFails ==
  /\ MainAt("deal")
  /\ deal_package.cmd = "03" => cgminer = "up"
  /\ r_connect = 0 \/ SockState \in {"closed", "idle", "fin", "rst"}
  /\ Exit

\* callapi finds cgminer down: SIGUSR1 ...
MainApiDown ==
  /\ MainAt("deal")
  /\ deal_package.cmd = "03" /\ cgminer = "down"
  /\ timer' = FALSE
  /\ r_connect' = 0
  /\ sockfd' = "closed"
  /\ net' = Reachable(net, "closed", rsock)
  /\ hsock' = Pending(hsock, "closed", rsock)
  /\ ClearQueues
  /\ mpc' = "api_down"
  /\ UNCHANGED <<deal_package, auth_flag, wait_res, rev_ID, conf_auth, dealt, slipped,
                 overtaken, rev_vars, env_vars, hpc>>

\* ... and SIGUSR2 once it is back: tcp_state runs in the handler.
MainApiBack ==
  /\ MainAt("api_down") /\ cgminer = "up"
  /\ ClearQueues
  /\ timer' = TRUE
  /\ hpc' = [hpc EXCEPT !["main"] = "check"]
  /\ mpc' = "api_back"
  /\ UNCHANGED <<sock_vars, deal_package, auth_flag, wait_res, rev_ID, conf_auth, dealt,
                 slipped, overtaken, rev_vars, env_vars, hsock>>

\* callapi returns "", deal_cmd 0: no answer, the next command.  So it does
\* after an outage, and when cgminer takes the call and sends nothing.
MainNoAnswer ==
  /\ \/ MainAt("api_back")
     \/ MainAt("deal") /\ deal_package.cmd = "03" /\ cgminer = "up"
  /\ mpc' = "loop"
  /\ UNCHANGED <<sock_vars, queue_vars, deal_package, auth_flag, wait_res, rev_ID, conf_auth,
                 dealt, slipped, overtaken, rev_vars, env_vars, handler_vars, timer>>

\* Mutant: the wait ends as soon as wait_res is at least the timeout.
MainWaitAtLeast ==
  /\ MainAt("wait")
  /\ IF Q_respond # <<>>
       THEN wait_res' = 0 /\ mpc' = "respond" /\ UNCHANGED slipped
       ELSE /\ wait_res' = wait_res + 1
            /\ IF wait_res' >= WIAT_RES_TIMEOUT
                 THEN mpc' = "respond" /\ slipped' = TRUE
                 ELSE UNCHANGED <<mpc, slipped>>
  /\ UNCHANGED <<sock_vars, queue_vars, deal_package, auth_flag, rev_ID, conf_auth, dealt,
                 overtaken, rev_vars, env_vars, handler_vars, timer>>

\* Mutant: the wait has no timeout.
MainWaitForever ==
  /\ MainAt("wait")
  /\ Q_respond # <<>>
  /\ wait_res' = 0
  /\ mpc' = "respond"
  /\ UNCHANGED <<sock_vars, queue_vars, deal_package, auth_flag, rev_ID, conf_auth, dealt,
                 slipped, overtaken, rev_vars, env_vars, handler_vars, timer>>

\* One poll of the response queue.
MainWait ==
  /\ MainAt("wait")
  /\ IF Q_respond # <<>>
       THEN wait_res' = 0 /\ mpc' = "respond" /\ UNCHANGED slipped
       ELSE /\ wait_res' = wait_res + 1
            /\ IF wait_res' % WIAT_RES_TIMEOUT = 0
                 THEN mpc' = "respond" /\ slipped' = TRUE
                 ELSE UNCHANGED <<mpc, slipped>>
  /\ UNCHANGED <<sock_vars, queue_vars, deal_package, auth_flag, rev_ID, conf_auth, dealt,
                 overtaken, rev_vars, env_vars, handler_vars, timer>>

\* Mutant: the response is looked at (GetHead) and not taken.
MainRespondPeeks ==
  /\ MainAt("respond")
  /\ Q_respond # <<>>
  /\ deal_package' = Head(Q_respond)
  /\ auth_flag' = 0
  /\ conf_auth' = IF auth_flag = 1 THEN Head(Q_respond).cmd ELSE conf_auth
  /\ IF Head(Q_respond).cmd = "f5"
       THEN mpc' = "loop" /\ rev_ID' = 0
       ELSE mpc' = "exit" /\ UNCHANGED rev_ID
  /\ UNCHANGED <<sock_vars, queue_vars, wait_res, dealt, slipped, overtaken, rev_vars,
                 env_vars, handler_vars, timer>>

MainRespond ==
  /\ MainAt("respond")
  /\ Q_respond # <<>>
  /\ deal_package' = Head(Q_respond)
  /\ Q_respond' = Tail(Q_respond)
  /\ auth_flag' = 0
  /\ conf_auth' = IF auth_flag = 1 THEN Head(Q_respond).cmd ELSE conf_auth
  /\ IF Head(Q_respond).cmd = "f5"   \* rev_respond exits on any other
       THEN mpc' = "loop" /\ rev_ID' = 0
       ELSE mpc' = "exit" /\ UNCHANGED rev_ID
  /\ UNCHANGED <<sock_vars, Q_cmd, wait_res, dealt, slipped, overtaken, rev_vars, env_vars,
                 handler_vars, timer>>

MainNoResponse ==
  /\ MainAt("respond")
  /\ Q_respond = <<>>
  /\ mpc' = "loop"
  /\ UNCHANGED <<sock_vars, queue_vars, deal_package, auth_flag, wait_res, rev_ID, conf_auth,
                 dealt, slipped, overtaken, rev_vars, env_vars, handler_vars, timer>>

Main == MainSwitchOff \/ MainDeQueue \/ MainAnswer \/ MainAnswerFailed \/ MainSendFails
        \/ MainApiDown \/ MainApiBack \/ MainNoAnswer \/ MainWait \/ MainRespond
        \/ MainNoResponse

-----------------------------------------------------------------------------
\* read_switch, and what is outside the daemon
ReadSwitch ==
  /\ Alive /\ ~InHandler("switch") /\ SW = 0 /\ api_switch = "off"
  /\ SW' = 1
  /\ UNCHANGED <<sock_vars, queue_vars, main_vars, rev_vars, api_switch, cgminer, sent,
                 faults, handler_vars, timer>>

\* An environment step leaves the daemon alone.
Outside == Alive /\ UNCHANGED <<r_connect, sockfd, queue_vars, main_vars, rev_vars, SW,
                                 handler_vars, timer>>

\* At any moment, whatever faults there are.
SwitchOff ==
  /\ Outside /\ SwitchUsed
  /\ api_switch = "on" /\ api_switch' = "off"
  /\ UNCHANGED <<net, cgminer, sent, faults>>

CgminerDown ==
  /\ Outside /\ faults < MaxFaults
  /\ cgminer = "up" /\ cgminer' = "down"
  /\ faults' = faults + 1
  /\ UNCHANGED <<net, api_switch, sent>>

CgminerUp ==
  /\ Outside
  /\ cgminer = "down" /\ cgminer' = "up"
  /\ UNCHANGED <<net, api_switch, sent, faults>>

ServerCommand(c, kind) ==
  /\ Outside /\ net[c].st = "est" /\ sent < MaxCmds
  /\ sent' = sent + 1
  /\ net' = [net EXCEPT ![c].inbox = Append(@, [cmd |-> kind, id |-> sent', fresh |-> TRUE])]
  /\ UNCHANGED <<api_switch, cgminer, faults>>

ServerRespond(c, res) ==
  /\ Outside /\ net[c].st = "est" /\ net[c].owed # <<>>
  /\ net' = [net EXCEPT
       ![c].inbox = Append(@, [cmd |-> res, id |-> Head(net[c].owed), fresh |-> TRUE]),
       ![c].owed = Tail(@)]
  /\ UNCHANGED <<api_switch, cgminer, sent, faults>>

\* The server closes, or the connection breaks and takes along what is in it.
ServerClose(c) ==
  /\ Outside /\ net[c].st = "est" /\ faults < MaxFaults
  /\ faults' = faults + 1
  /\ net' = [net EXCEPT ![c].st = "fin", ![c].owed = <<>>]
  /\ UNCHANGED <<api_switch, cgminer, sent>>

NetBreaks(c) ==
  /\ Outside /\ net[c].st = "est" /\ faults < MaxFaults
  /\ faults' = faults + 1
  /\ net' = [net EXCEPT ![c] = Socket("rst")]
  /\ UNCHANGED <<api_switch, cgminer, sent>>

Environment ==
  \/ SwitchOff \/ CgminerDown \/ CgminerUp
  \/ \E c \in Conn : \/ \E kind \in CmdKinds : ServerCommand(c, kind)
                     \/ \E res \in Responses : ServerRespond(c, res)
                     \/ ServerClose(c) \/ NetBreaks(c)

Next ==
  \/ Main \/ Receiver \/ ReadSwitch \/ Environment
  \/ \E t \in Threads : Alarm(t) \/ Handler(t)

Spec == Init /\ [][Next]_vars

\* Every thread is scheduled; a step that the 30 s alarm interrupts is taken
\* in the end, since the handler returns long before the next alarm; the
\* timer expires again and again while it runs; cgminer comes back (monitorcg
\* restarts it).
Fairness ==
  /\ SF_vars(Main) /\ SF_vars(Receiver) /\ WF_vars(ReadSwitch)
  /\ WF_vars(Alarm("main"))
  /\ \A t \in Threads : WF_vars(Handler(t))
  /\ WF_vars(CgminerUp)

FairSpec == Spec /\ Fairness

-----------------------------------------------------------------------------
\* The receiver tests both queues before it blocks in recv, and never again:
\* main only takes packets out, so the packet it brings back has room.  No
\* packet is dropped by EnQueue, whose result pthr_rev ignores.
RoomForReceived ==
  rpc \in {"call", "blocked", "enq"} => ~FUL_Queue(Q_cmd) /\ ~FUL_Queue(Q_respond)

\* wait_res is not reset by a timeout, yet every wait runs its full length:
\* outside a wait it is a multiple of the timeout.
WaitsWholeTimeout == mpc \notin {"wait", "exit"} => wait_res % WIAT_RES_TIMEOUT = 0

\* Until a wait times out or a failed "06" goes on without waiting, the
\* response that main takes is the one to the answer it last gave, so the
\* auth entry of the file is the server's word on the auth command.
ResponsePaired ==
  mpc = "respond" /\ Q_respond # <<>> /\ ~slipped => Head(Q_respond).id = dealt

\* The "60" answer names the order it is the result of: rev_ID, which
\* clear_recv erases on any of three threads, is only ever erased along with
\* the connection the order came over, which is then not used again.  (It is
\* when a connect() for a socket that was replaced returns just then.)
AnswerNamesOrder ==
  [][mpc = "deal" /\ mpc' \in {"wait", "loop"} /\ deal_package.cmd = "06" /\ deal_package.fresh
     /\ ~overtaken => rev_ID = deal_package.id]_vars

\* The switch ends the daemon, wherever its threads are when it is turned off.
SwitchOffExits == SW = 1 ~> mpc = "exit"

\* main comes back for a waiting command, whatever became of the response,
\* the connection or cgminer: it is taken, or the queue is cleared.
CommandsServed == Q_cmd # <<>> ~> mpc \in {"deal", "exit"} \/ Q_cmd = <<>>

\* However often the connection is lost or refused, TCP to the server is up
\* again, or the daemon exits.  (After an outage of cgminer sockfd is closed, and
\* what tcp_state then sees is whatever the stack holds.)
TcpComesBack ==
  Alive /\ sockfd \in Conn /\ ~Established ~> ~Alive \/ Established \/ sockfd = "closed"

\* ... and the daemon knows it.
KnowsConnected == r_connect = 0 ~> r_connect = 1 \/ mpc = "exit"
=============================================================================
