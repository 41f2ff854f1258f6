# A TLA+ model of the S9 miner firmware's own programs

The repository is a Yocto layer that builds the firmware of a miner's control
board. Most of it is recipes, vendored JavaScript, pages and binary images. What
it adds of its own is a handful of C programs and shell scripts under
`src/sources/meta-altera/recipes-bitmianer` (written `R/` below) and one kernel
module. This directory models those programs, the most important first, checks
the models with TLC and proves results about them with TLAPS.

Contents: 1 inventory, 2 modules, 3 runs, 4 bounds, 5 fairness, 6 proofs,
7 findings, 8 what is left out, 9 plan.

## 1. Inventory

| Component | State it keeps | Operations | Interacts with |
|---|---|---|---|
| Packet queues, `R/minermonitor/.../rev_queue.c` | a ring of `MAXQSIZE` slots, `front`, `rear`; twice (`Q_cmd`, `Q_respond`) | `InitQueue`, `EnQueue`, `DeQueue`, `ClearQueue`, `FUL_Queue`, `NUL_Queue` | receiver thread, main, signal handlers, with no lock |
| miner-monitor daemon, `client.c`, `send_pkg.c`, `dataexchange.c`, `callapi` | `SW`, `r_connect`, `sockfd`, `package`, `deal_package`, `wait_res`, `rev_ID`, `auth_flag`, the interval timer | the loop of `main`, `pthr_rev`, `read_switch`, `tcp_state` on SIGALRM, `sig_handle` on SIGUSR1/2 | remote server over TCP or SSL, cgminer's API, `minermonitor.conf` |
| Packet framing, `rev_data_struct` | the bytes of the connection, `package` | reads head, command, length, body | receiver thread |
| Pools order, `write_conf.c`, `restart_cgminer` | the globals `changed_pools` and `get_cgminer_conf`, `/config/cgminer.conf` | `rev_pools`, `save_old_conf`, `creat_newpools`, `create_conf`, restart and probe | web page, `cgminer.sh`, `monitorcg`, cgminer |
| `minermonitor.conf` | a JSON file | `read_s4_switch`, `write_s4_respond`, `set_monitor_conf.cgi` | two threads of the daemon and the web server, with no lock |
| d-ddos, `R/d-ddos` | list of pools, backup addresses, priorities | `check_status_and_backup` every 90 s | cgminer's API, a server of backup addresses |
| Watchdogs, `R/initscripts`: `cgminer.sh`, `monitorcg`, `miner-m.sh`, `d-ddos-m.sh` | process table, driver loaded or not | start, stop, restart, poll | cgminer, miner-monitor, d-ddos |
| Buttons, `R/monitor-recobtn`, `R/monitor-ipsig` | descriptors taken, length of a press, `interval_count` | factory reset, IP report | `/config`, network, clock |
| The monitor's page, `R/lighttpd/.../www_miner/cgi-bin/minerMonitor.cgi` with jQuery's `ajax` | the form, the request under way, its timer | save, time out, reload | `set_monitor_conf.cgi` over lighttpd |
| bitmain-axi driver, `recipes-kernel/bitmain-axi` | mapped regions | init, mmap, exit | cgminer |
| Web CGI, `R/lighttpd/.../cgi-bin` | `/config/*` | set, upload, upgrade, reset | every program above |

**How they interact.** The server sends commands; the receiver thread of
miner-monitor reads packets from `sockfd` and puts commands in `Q_cmd` and
responses in `Q_respond`. `main` takes a command, asks cgminer (status, "03"),
identifies itself ("01") or writes `cgminer.conf` and restarts cgminer (pools,
"06"), sends an answer and waits for a response to it before it takes the next.
A thread re-reads the web page's switch. Every 30 s SIGALRM runs `tcp_state`, on
whichever thread the kernel picks, which looks at the TCP state and, if it is not
established, connects again inside the handler. If cgminer is down, `callapi`
raises SIGUSR1 (disconnect) and later SIGUSR2 (connect) on its own thread.

**What is hard.** All of that is shared with no lock (the semaphores of
`client.c` are commented out). The alarm's handler makes blocking connections in
the middle of any code. The connection may be replaced under a thread that is
blocked on the old one. A response carries nothing that says to which answer it
belongs. Several programs rewrite the same files and restart the same process.

**What makes each part correct.**

* Queues: a FIFO that loses, repeats and reorders nothing and that main's clears
  empty, unless one falls inside the receiver's `EnQueue`; whatever falls where, no
  slot is read before it is written.
* Daemon: no received packet is dropped; a response is matched with the answer it
  belongs to; results name the order they are for; commands of a lost session are
  forgotten; the switch always ends the daemon; main never stays in a wait; the
  connection always comes back, and the daemon knows it.
* Pools order: it changes what it asks for and nothing else; success is reported
  exactly when cgminer runs with the new file; it always ends with a result.
* `minermonitor.conf`: switch and account belong together; the daemons come to be
  what the file says, and the file what the page saved last.
* d-ddos: one backup at a time, but for those it has lost sight of; at the place of
  the pool it stands in for; and one that is alive, and kept, while that pool is dead.
* Watchdogs: no two processes by one starter; none in the end, or some, as the file
  says.
* The page: one handler for each request, what is shown is what was saved, and the
  page comes back whatever becomes of the answer.
* Buttons: a short press never resets; a report ends, and for a reason of its own.
* Driver: each error path frees what was taken.

## 2. Modules

### `PkgFifo`, `RevQueue`: the queue

`RevQueue` is one `SqQueue`, with `EnQueue` and `DeQueue` split where another thread
can see the difference: the test of the indices (`EnQueueTest`, `DeQueueTest`), the
slot (`EnQueueStore`, `DeQueueCopy`), the load of the thread's own index
(`EnQueueLoad`, `DeQueueLoad`) and its store (`EnQueueAdvance`, `DeQueueAdvance`). What
a call goes by is in a register, `rev_rear` or `deal_front`. The test loads it;
compiled code may keep it or load the global again at each later place that names it,
and the model has both. So a clear on the other thread may be overwritten by an
index from before it: that is hazard H4's stale store. `ClearQueue`'s two stores are
two steps in either order, because `front=rear=0` leaves the order to the compiler.
`rev` and `deal` say where the receiver and main are inside a call. Stores become
visible in program order; the board has a weaker memory model, which the module
leaves out. A packet is a model value: how many bytes its copy takes does not matter
once the index moves after it.

There are two specifications. `MainClearSpec` has clears by the SIGUSR1/SIGUSR2
handler, which `callapi` raises on main outside `DeQueue`. `Spec` adds clears by the
receiver (`rev_data_struct` when the head cannot be read). The history `torn` says
that main's last clear met an `EnQueue` half done: the receiver may then store an old
`rear` over the zero, and packets that were cleared come back. `PkgFifo` is the
abstract promise, a FIFO of `MAXQSIZE - 1` packets with `Clear`, which promises
nothing between a torn clear (`Tear`) and the next one; the refinement maps the
window of the ring from `front` (past the slot already copied, and 0 while a clear is
half done) to `rear` to its `queue`.

### `MinerMonitor`: the daemon

A step runs from one blocking call to the next. The steps of the queues are whole
here (`RevQueue` has them split), and a packet is read in one step whose outcomes
are those `rev_data_struct` has.

| Variables | Code |
|---|---|
| `mpc` | where `main` is: `start` (first connecting), `loop`, `deal` (`deal_cmd`), `api_down`/`api_back` (inside `callapi`), `wait`, `respond`, `exit` |
| `rpc`, `rsock`, `retrying` | where `pthr_rev` is; the socket its `recv` was called with, which may not be `sockfd` any more; whether `recv_serpkg_struct` is on a further round |
| `hpc[t]`, `hsock[t]` | where `tcp_state` is on the thread `t` that took the signal; the socket of its pending `connect()` |
| `sockfd`, `net` | the global descriptor or `"closed"`; for each socket its TCP state, what is on the way in, and the answers the server still owes a response |
| `fresh`, `dealt`, `slipped`, `overtaken` | history only: whether a packet came over the present connection, the last command dealt with, whether an answer went without its response, whether a `connect()` for a replaced socket returned while main dealt with a command |

`Main*` actions are the branches of `main`'s loop and of `deal_cmd`; `Rev*` those of
`pthr_rev` and `rev_data_struct`; `Handler*` those of `tcp_state` and
`sock_connect_server`; `ReadSwitch` is the switch thread. A thread whose `hpc` is not
`"none"` does nothing else: the handler runs on its stack. While main is in its
handler (SIGALRM is blocked there) a further alarm goes to another thread, so two
`tcp_state` may overlap. `sleep()` has no counterpart: a step may always be delayed,
and an alarm may come at any time while the timer runs. `exit()` from any thread is
`Exit`. Sockets that neither `sockfd` nor a blocked `recv` names are dropped from the
state (`Reachable`): the daemon cannot reach them again.

Undefined behaviour: when `sockfd` is closed, `getsockopt` fails and `tcp_state` tests
an uninitialised `tcp_info`. Both outcomes are in the model (`HandlerUp`,
`HandlerDown`).

External: server, network, cgminer and the switch of the page, which is turned off at
any moment, an outage, a lost connection and a reconnect included, and spends none of
the faults. The server sends any command at any time
on a connection that is up, and answers each packet with one response, in order;
it may close. A connection may break. A connect may fail.

### `SetPools`: the pools order "06"

One action for each stretch of `write_config_s4` and `restart_cgminer` between
points at which another process can come in (`RestartUntried` is a restart that is
answered without a try to connect): `WriteConfig` up to the `fopen("w+")`
that empties `cgminer.conf`, `create_conf` up to `system()`, `Restarted` when the
script is through, `TryAgain` and `RestartResult` for the loop around `connect`.
`ConfigFaults` is the null pointer that `save_old_conf` follows when the file lacks
an option or is empty. `rev_pools` is what its two loops come to: a field that is not
empty is taken for what the number of such fields before it says (`count`, modulo 4,
over the ends of the pools), in the pool it stands in (`num`), so that an empty field
shifts the ones after it as it does in the code. That is a closed form and not a fold,
because what a recursion over data computes cannot be proved here. `creat_newpools` has
the four cases of its switches. `cgminer.sh restart`, run by the
daemon and by the page, is `do_stop` and `do_start`, with `monitorcg` in between
(`MonitorStarts`). `running` is the file cgminer was started with. `Kill` and
`Restart` are the page's `kill -9` and `miner-m.sh`; `WebSave` is the page saving the
miner's configuration.

A string is a member of the constant `Text`; of the options the file keeps the two that may be
missing. Two simplifications are choices of grain: the page's forty appends
are one step kept out of `create_conf`'s, and a script of a killed daemon has ended
before the next daemon is given an order (which takes a connection, seconds later).

### `MonitorConf`: the file of the switch

The file is a sequence of lines, so that a file that was emptied, is half written, or
has the lines of two writers is what it is in the code. A process of the daemon has
main's reads and writes of the file (`RespondReads`, `RespondTruncates`,
`RespondWrites`, which are the three stretches of `write_s4_respond`) and the switch
thread (`read_switch`); the CGI has its truncating first `echo`, its appends
(`CgiAppends`, line by line), `killall -9` and the start; `miner-m.sh` has its counts
of processes and of lines with `"on"`, and what it does on them later. Reading a file
without a switch or an account follows a null pointer and ends the process. Processes
are named by what started them (boot script, page, watchdog).

### `DDos`: the backup of a dead pool

`check_status_and_backup` is cut at its calls of cgminer's API and at the tries to
reach the addresses. The four nested loops over pools and list are one index, `next`,
counted the way the loops count. Each call may be answered, may be read from the node
that `exec_api_cmd` has already freed (then the answer may be missing or the process
may end), and cgminer may have been restarted before it.

What cgminer says of a pool (`dead`) and whether its address takes a TCP connection
(`down`) are two variables and change on their own or together. The addresses are
tried one after another for seconds: one that changed meanwhile (`moved`) was found the
one way or the other. cgminer takes a `removepool` or refuses it, for a number that is
not there, for the only pool and for the one in use (`InUse`); what it says is not
looked at, and the pool is forgotten either way (`RemovePool`, `RemovePoolRefused`).
The history `left` counts the backups that were left so in cgminer's list: by refusals,
by processes that ended and by answers to `addpool` that were not read.

### `MonitorPage`: the page in a browser

One action for each event of the browser: a click (`Submit`), the transport's callback
(`Response`), the timer (`Timeout`), leaving and loading the page. `Done` is jQuery's
`done` with the guard on its state and the clearing of the timer; `Settled` is the
deferred. The file is the two parts each of the CGI's runs writes. Both handlers load
the page again, and the file goes into its script unparsed: a load between the two
writes gives a page whose script does not parse (`Broken`), from which nothing can be
saved. A second click while a request is on its way starts a second CGI, whose lines may
mix with the first one's, and the reload after the first answer drops the second request
(`Gone`): both are in the model, and no property of `MonitorPage` is about them.

### `Buttons`: the two buttons

`get_gpio` is "up", "down" or, once `close()` on a `FILE*` has cost the last
descriptor, "failed", which is neither of the values the loops compare with. The rest
are the branches of `monitor-recobtn`'s three loops, of `key_test`, `send_ipmac` and
`check_result`. They are one module because a factory reset reboots the board and
starts both anew.

### The modules of proofs

`RevQueueProofs`, `MinerMonitorProofs`, `SetPoolsProofs`, `MonitorConfProofs`,
`DDosProofs`, `MonitorPageProofs` and `ButtonsProofs` each extend the module they are
named for and hold its theorems (section 6). `MinTheorems` has what two of them need of
the least and the greatest element of a finite set of numbers.

### `MCMinerMonitor`, `MCSetPools`, `MCMonitorConf`, `MCDDos`

The symmetry set of the sockets; orders, files and strings of the pools runs; the forms;
the backups and the pools cgminer starts with.

## 3. Runs

Passing:

| Run | Property | Meaning |
|---|---|---|
| `revqueue_fifo` | `TestsStillHold` | a test of full or empty still holds when the index moves, whatever the other thread did in between (until a torn clear) |
| | `FifoRefinement` | the unlocked ring with main's clears implements `PkgFifo` |
| | `TakenWasReceived` | main never takes a slot that was not written, though clears of its handler fall between any two steps of an `EnQueue` and the old `rear` is stored over the zero |
| `monitor_safety` | `RoomForReceived` | the receiver's test of both queues holds until its packet is in: `EnQueue`, whose result is ignored, never drops one |
| | `WaitsWholeTimeout` | `wait_res` is not reset by a timeout, yet each wait has its full length |
| | `ResponsePaired` | until a wait times out or a failed "06" goes on without one, the response main takes is the one to its last answer |
| | `AnswerNamesOrder` | the "60" answer names its order although three threads may erase `rev_ID` meanwhile, as long as the order's connection is still the present one and no `connect()` for a socket that was replaced returns meanwhile |
| `monitor_served` | `TcpComesBack` | a connection that was lost without `sockfd` being closed is established again, or given up by closing it, or the daemon exits |
| | `SwitchOffExits` | the switch ends the daemon wherever its threads are, cgminer down, the connection lost or being made again included |
| | `CommandsServed` | main comes back for a waiting command whatever became of the response, the connection or cgminer |
| `setpools_orders` | `FirstOrderApplied` | the fields found by counting and the cases taken by number come to what the order asks, for the first order of a daemon with no empty field |
| | `SuccessMeansRunning` | "S" is said only when cgminer runs with the file as it is, or the page is about to restart it |
| | `OrderEnds` | main gets out of `restart_cgminer` whether cgminer comes up or not |
| `conf_file` | `PairsTogether` | switch and account read from the file were sent in one form, though the daemon writes back what it read, over the CGI or under it, and processes die anywhere (one browser) |
| | `OnePerStarter` | kills and starts of boot script, page and watchdog never give two processes by one starter |
| | `OffEnds` | once the file is "off" for good, no process is left |
| | `OnRuns` | once it is "on" for good, there is a process again and again |
| `ddos` | `BackupsCounted` | cgminer's list has one backup more at most than were left in it, unremembered, by ended processes, unread answers and refused removals |
| | `StandsIn` | the backup comes right before the pool it stands in for and no two other pools change places, if cgminer still has the pools that were read, in the order of their numbers (`AsRead`: a restart or reordering in between, H30, is excluded) |
| | `Backed` | while a pool stays Dead with its domain unreachable, and a backup of it stays alive and reachable, cgminer comes to keep some backup that is alive (or its list is full, a bound), if no backup takes connections that is Dead to cgminer: one that does is added and removed for ever, before any after it in the list is tried |
| `page` | `OneHandler` | one handler, once, for each request, in whatever order answer, lost connection and timer come |
| | `ShowsSaved` | a page loaded because an answer came shows what was saved, if no other request was on its way |
| | `ComesBack` | the page comes back after each click although the answer may never end |
| `buttons` | `ResetMeansHeld` | only a press of more than 3 s (or a step of the clock) erases the configuration, even if descriptors run out during it |
| | `EndsForAReason` | a report ends by its MAC or by five silences in a row, none of them left from an earlier report |
| | `ReportEnds` | a report ends |

`TypeOK` is checked once for each module. The
runs that end in a violation are the findings of section 7. Every property of a
passing run has a mutant of the code (marked "Mutant" in the modules) that breaks it.

Deadlock is checked for `RevQueue`, `MonitorConf`, `DDos` and `Buttons`, of which some
process never stops. It is not checked for the others: the daemon may exit, and orders,
saves and clicks are bounded.

## 4. Bounds

* `MAXQSIZE = 4` in `RevQueue`: three packets fit, so the window wraps at every
  position and both limits are reached. The code has 9; the theorems
  hold for all sizes above 1.
* `MAXQSIZE = 3` in `monitor_safety` and `monitor_wedge`: two packets fit, so two
  commands fill `Q_cmd` and the receiver's gate closes. In `monitor_served` it is 2:
  one packet fits, and the second command closes the gate.
* `WIAT_RES_TIMEOUT = 2` (60 in the code): a wait can end at once, after a poll, or by time-out.
  `wait_res` needs no bound: a time-out is an answer, and commands are bounded.
* `Conn` of three sockets: `sockfd`, the one the receiver is still blocked on, and the
  one being opened. `Reachable` gives the others back, so no execution runs out
  (`ConnAssumption` says so).
* `MaxCmds` 2 (0 in `monitor_wedge`), `MaxFaults = 1`: two commands are the least for one session's
  command or response to be met by another's. The number of alarms, reconnects and
  handlers is not bounded.
* `SwitchUsed`: the switch is turned off in `monitor_served`, at any moment and beside
  the fault. In the other two runs it stays on: an exit at any step breaks no invariant
  that is about running daemons, and `SW` only grows. The theorems hold for both.
* `CmdKinds`: "03" reaches cgminer's API and its outage, "06" sets and uses `rev_ID`
  and has the answer without a wait, "01" sets `auth_flag`. Each run has the kinds
  its property is about.
* `Threads = {"main", "rev"}` in the safety run: two handlers overlap. A third, on the
  switch thread, and a second fault multiply the states beyond what a run can hold; what
  they add is met with one command only (section 7, `overtaken`), and the theorems hold
  for all three threads and any number of faults. In the liveness runs `{"main"}`: two
  overlapping handlers could replace each other's connection for ever, each time
  within the 30 s of the timer, which connects on a working network do not last.
  With faults at an end, that is a schedule the timer excludes and the untimed
  model does not. The hazard list has the overlap (`client.c:173`).
* `MonitorConf`: one page, two saves, one auth response and one power cut: the second
  save meets a daemon that the first one started while the old one writes back.
  Ends of processes are not bounded.
* `DDos`: two domains, of which the second's backup also serves the first, so that a
  backup must be moved and not added twice; four pools, the two and two more; one
  restart of cgminer, with the pools of both domains or of the first alone, so that numbers
  change and go out of range; three changes of the first domain and the two backups,
  each of the status, the address or both. `left` stops counting at `MaxPools`, above
  which `BackupsCounted` says nothing that the bound of the list does not.
* `MonitorPage`: three clicks, so that two requests may overlap and a third meet what
  they left.
* `Buttons`: `HoldPolls = 1`, with seven descriptors: a press that needs five fits
  once, and may begin at any of the seven. `KEY_TIMES = 2`, `FOR_2MIM = 3` (5 and 5 in
  the code) are the least with a reading, or a silence, that is neither the first nor
  the last. Three sockets, two datagrams, one step of the clock; presses are not
  bounded.
* `MaxOrders = 2`: `changed_pools` of the first order meets the second.
  `MaxKills = 1`, `MaxSaves = 1` put a kill and a page's restart anywhere in them.
  The orders have one, two and three pools, in and out of order, and empty fields.

## 5. Fairness

* Strong fairness of `Main` and `Receiver`: both threads are always scheduled, but the
  alarm's handler suspends the thread it lands on, so their steps are disabled again
  and again. A handler returns long before the next alarm 30 s later, so between two
  alarms the thread takes steps.
* Weak fairness of `ReadSwitch`, of each handler (a system call returns: `connect`
  fails or succeeds, and faults are bounded) and of `Alarm("main")` (the interval
  timer reloads itself).
* Weak fairness of `CgminerUp`: `monitorcg` restarts cgminer whenever it is gone.
* None for the server: it need not ever send, respond or close.
* `SetPools`: the daemon and the scripts are scheduled. cgminer need not ever come up,
  `monitorcg` need not ever run, the daemon need not be restarted, the page need not
  save.
* `MonitorConf`: every process, CGI and the watchdog are scheduled; strong fairness of
  the watchdog acting with cgminer there, since it acts only while `pidof` finds one
  cgminer and `monitorcg` restarts it.
* `DDos`: the process and `d-ddos-m.sh` are scheduled. Strong fairness of `GetPools` and
  `GetBackups` says that cgminer and the resolver do not fail each time they are asked.
  Of the additions d-ddos asks for cgminer carries out one now and then; what d-ddos
  then reads of the answer, in memory it has freed, may be wrong each time.
* `MonitorPage`: timers fire, a page that is left is loaded, a CGI runs to its end. No
  fairness for answers: the daemon the CGI starts keeps the CGI's output open.
* `Buttons`: a send returns and `select` waits two seconds; it need never fail.

## 6. What is proved

Every invariant and every action property of the passing runs is a theorem, checked to
the last leaf and for every value of the constants that meets the modules' named
assumptions, and so is the refinement of `PkgFifo`. The assumptions say no more than the
code does: `MAXQSIZE` above 1, a positive timeout, three names for sockets of which none
is `"none"` or `"closed"`, main among the threads; strings in `Text`, orders of one to
three pools of four strings, files of three pools of three (`SetPools`); a form is an
account and a switch, and the words of a switch are no account (`MonitorConf`); finitely
many domains, backups that are not domains, and at least one configured pool (`DDos`).
Each run evaluates those of its module.

Each proof has one lemma for each process, handler or action, and most have a lemma for
what groups of steps have in common (`RoomKept`, `PairShrinks`, `OrderKept`,
`TypesKept`).

**`RevQueueProofs`**

* `FifoInvariant`: `MainClearSpec => []FifoInv`. `FifoInv` is `TypeOK`, `TestsStillHold`,
  `StoredIsReceived`, and that registers name their index (`RegistersHold`) and a clear
  half done skips nothing (`ClearingStarts`); it is inductive as it stands. The second
  part carries it: `~Full` under an `EnQueue` in progress is what keeps `front` from
  being overtaken, and DeQueue only frees slots. `IndicesInRange` and `TestsHold` are its
  parts `TypeOK` and `TestsStillHold`.
* `TakenReceived`: `MainClearSpec => []TakenWasReceived`, with clears between any two
  steps of an `EnQueue` and the register of before a clear stored after it. The
  invariant (`TakenInv`) is about slots and not about the window, since a clear may
  leave `front` past `rear`, and a stale store may bring back packets that were
  cleared: every slot below `rear` and below the register has been written, and where
  `front` is past `rear`, all have (`RearMovesOn`, `WrittenStays` and `ReloadBelow` are
  its steps). Packets may be repeated then; nothing that was never received is taken.
* `FifoImplemented`: `MainClearSpec` implements `PkgFifo`. `EnQueueAdvance` is `Put`,
  `DeQueueCopy` is `Get`, the first store of a clear is `Clear` or `Tear`, and the other
  steps stutter. The lemmas `WindowShift`,
  `WindowGrow` and `WindowIndex` say how the window of a ring changes when an index
  moves, `DistanceCases` and `SuccCases` replace the modulo by two cases each.

**`MinerMonitorProofs`**

* `TypesHold`: `Spec => []TypeOK`. `TypeOK` alone is not inductive: a packet on its way
  to a queue must be a packet (and not the empty one), and a blocked `recv` must name
  a socket. `TypeInv == TypeOK /\ RevHolds` is. It includes that commands and
  responses never get into each other's queue.
* `WaitsAreWhole`: `Spec => []WaitsWholeTimeout`, inductive by itself: a wait is left
  either with `wait_res` at 0 or at a multiple of the timeout.
* `ReceivedHasRoom`: `Spec => []RoomForReceived`. The strengthening (`RoomInv`) adds
  `QueuesFit`, that no queue is longer than `MAXQSIZE - 1`; without it "not full" would
  not mean "room". Main, the handlers and the clears only shorten the queues or
  mark their packets (`RoomKept`), and the receiver adds one only from `"enq"`.
* `ResponsesPaired`: `Spec => []ResponsePaired`. `PairInv` follows the response through
  all the places it can be: as long as no answer has slipped there is one in all, owed
  by the server on one socket, or in one inbox, or in the receiver's hands, or in
  `Q_respond`, and it is to `dealt`; and none when main is not in a wait. The property
  alone sees only the last of these places. Whatever the handlers do takes away
  (`PairShrinks`); only main's answer, the server and the receiver move it on.
* `AnswersNameOrders`: `Spec => AnswerNamesOrder`. `rev_ID` may be erased while main
  restarts cgminer; what erases it also sets `r_connect` to 0 (`IdKept`), and the danger is
  whatever sets it to 1 again. For that `OrderInv` needs `Made`: as long as an order of the
  present connection is about, nobody's `connect()` is under way on `sockfd`; and for that
  `Connecting`: a connecting socket has received nothing, and belongs to one thread.
  The proof failed at first for a good reason: see the late `connect()` in section 7.
  `overtaken` excludes the schedules with such a `connect()` and no others.

**`SetPoolsProofs`**

* `PoolsTypes`: `Spec => []TypeOK`; `pools_count` is at most three times the orders so far
  (`ChangedTypes`), and `rev_pools`, `creat_newpools` and `save_old_conf` keep files whole.
* `SuccessRuns`: `Spec => SuccessMeansRunning`. `PoolsInv` adds `Fresh`: cgminer is down, or
  runs with the file as it is, or the file was just emptied, or a script that has still
  to kill cgminer is under way; and `Steps`: main connects only after its own script's end,
  with a file that is not empty.
* `FirstOrderIsApplied`: `Spec => FirstOrderApplied`, for every order of one to three pools
  with no empty field. `Before` of the c-th field of pool n has `4 * (n - 1) + c - 1`
  members, so that `count` is `c - 1`, each field finds its place, and `pools_count` is the
  number of pools; then the cases of `creat_newpools` are gone through.

**`MonitorConfProofs`**

* `ConfTypes`: `Spec => []TypeOK`, through every interleaving of lines. The type of a file is
  weak on purpose, a sequence of lines in any order; what it may look like is in `Shape`.
* `StartersKeepToOne`: `Spec => []OnePerStarter`, inductive with the types: a page is about
  to start only after its own `killall`, and nothing brings to life what it killed but
  that page; for any number of browsers.
* `FormsDoNotMix`: `Spec => []PairsTogether`. `PairInv` lists the shapes the file can have
  while one browser saves: empty; without its first line, when a daemon's write was cut
  or lines were appended to an emptied file; beginning with all the lines of a form that
  was sent, whatever comes after; the first one, two or three lines of the CGI's form;
  or without an end. Only one of them can be read as whole. `SentInv` says that what a
  process holds, to write it back, was sent.

**`DDosProofs`**

* `DDosTypes`: `Spec => []TypeOK`. The strengthening is `PoolsOK`: the priorities number
  cgminer's pools from 0, each once, through removals and reorderings; without it the
  priorities that d-ddos computes need not be a numbering again.
* `BackupsAreCounted`: `Spec => []BackupsCounted`, for any number of pools, restarts,
  refusals and unread answers. `BackupsInv`: the one backup beyond those left is the last
  of cgminer's pools and the one in `pool` and `ip` (`Remembered`), or there is none; and
  the process is at a place from which it adds one only if it remembers none
  (`RemovedBackups`, `AddedBackups` and `OneIsLeft` count for the steps).
* `BackupStandsIn`: `Spec => StandsIn`, for lists of every length, with `ListInv` (the place in
  the loops is one of a pool that was read) and `WideIsLongest` (how `next` is taken apart).

**`MonitorPageProofs`**

* `PageTypesHold`: `Spec => []TypeOK`. `HandledOnce`: `Spec => []OneHandler`. `RequestInv` is what
  carries it: a timer only with a callback, a callback only while the request is sent,
  and handled exactly if done, so `Done` is never entered a second time by a late
  answer or a late timer.
* `ShownIsSaved`: `Spec => ShowsSaved`. `AloneInv`: a request that met no other is the only one
  under way, and the file holds just what it has written so far; `LeaveInv`: while the
  page is away because of its answer, its form is in the file and nobody writes.

**`ButtonsProofs`**

* `ButtonTypes`: `Spec => []TypeOK`. `OnlyHeldResets`: `Spec => ResetMeansHeld`, by `HoldInv`: while
  there are descriptors and nobody steps the clock, as many readings were down as the
  press is said to last, and one more; and by the last step, which needs a descriptor
  for the script.
* `ReportsEndForAReason`: `Spec => EndsForAReason`, by `CountInv`: `interval_count` is the number of
  this report's silences in a row, and 0 between reports.

**What stays with TLC.** The liveness properties, `SwitchOffExits`, `CommandsServed`,
`TcpComesBack`, `OrderEnds`, `OffEnds`, `OnRuns`, `Backed`, `ComesBack` and `ReportEnds`:
fairness is `ENABLED`, which the prover does not reason about. And the four
violations of section 7, where TLC's counterexample is the result.

## 7. Findings

| Run | What the repository says | What the code does |
|---|---|---|
| `revqueue_clear` | `rev_queue.c:33`: `ClearQueue` makes the queue empty | main's `DeQueue` falls between its two stores on the receiver: one packet was received and taken, `rear` is 0 and `front` still 1, which is not empty, and main takes slot 1, which was never written |
| `monitor_wedge` | `send_pkg.c:57`: a failed receive marks the connection broken | it may mark the new connection, which `tcp_state` has just made; nothing ever sets `r_connect` again while TCP is up |
| `setpools_one_pool` | `write_conf.c:331`, `:357`: one pool is changed, and which | `pools_count` is never reset: the second order also empties pool 0 |
| `conf_switch` | `client.c:405`, `miner-m.sh:19`: the switch of the page is read, the daemon restarted | `write_s4_respond` empties and rewrites the file while the CGI appends to it: what was saved is gone, or half of it is left, which ends every process that reads it and shows the watchdog no "on" |

Seen while modelling, with no run of their own: a command of a lost session is
answered in the new one, because `Q_cmd` is cleared only when the head of a packet
cannot be read (`send_pkg.c:59`, `:76`); after an outage of cgminer the state of a closed
descriptor is read from an uninitialised structure and may say "established" each time
(`client.c:183`); with the factory's `cgminer.conf` an order ends the daemon on a null
pointer (`write_conf.c:256`); `reset_priority` sends the number of pools once for each
pool (`d_ddos.c:361`); what cgminer says to `removepool` is not looked at, and a backup
that stays, because it is in use, is forgotten (`d_ddos.c:461`); a removal leaves a tail pointer behind, and the next reading of the
list ends the process (`d_ddos.c:468`); about a quarter of an hour after its start
`monitor-recobtn` has no descriptor left and notices no press any more
(`monitor-recobtn.c:64`); a report is given up after ten seconds where the comments say
two minutes (`monitor-ipsig.c:244`, `FOR_2MIM`); the answer of `set_monitor_conf.cgi` is no
JSON, so the page always takes the error handler (`set_monitor_conf.cgi:84`); the handler of SIGUSR1 closes
`sockfd`, which does not end the connection while the receiver is blocked in `recv` on
it (`client.c:350`); a connect that succeeds after the sixth failure is reported as
"F", since `i` is then 0 (`send_pkg.c:490`); the result of an order may be sent without its ID
when two `tcp_state` overlap, on main and on the switch thread: the one is still in `connect()`
on a socket the other has replaced; over the new connection an order comes and the server
closes; the receiver erases `rev_ID` and sets `r_connect` to 0, the late `connect()` returns and
sets it to 1 again, and main sends (`client.c:144`; it takes two faults, and was found when
`AnswerNamesOrder` could not be proved: TLC then found the schedule); `create_conf` drops the options that
`GETS4_CONFIG` has no member for (`write_conf.c:288`). Those a
test would hardly reach are in the hazard list.

`monitor_wedge` and `conf_switch` are liveness properties, refuted under the
fairness of section 5.

## 8. What is not modelled

* Partial reads of a packet, and what a lost byte does to those after it
  (`PkgReceive` of the plan; `MinerMonitor` has the outcomes).
* Buffer sizes, formatting, the contents of the status answer; cjson. In d-ddos the
  number of a pool from 10 on does not fit what `change_priority` allocates
  (`d_ddos.c:386`).
* On the SSL path the receiver reads through the SSL object, here a `recv` on the socket
  it was made for (`dataexchange.c:11`). SIGUSR2's handler calls `tcp_state` itself, and a
  SIGALRM may nest in that call (`client.c:360`): here it goes to another thread.
* In the pools order the reading of `cgminer.conf` and its `fopen("w+")` are one step: what
  the page saves between the two is not lost in the model (H21).
* How long a poll of the recovery button takes: a poll is the unit of time.
* Descriptor leaks (`sock_connect_server` never closes the one it replaces).
* Weak memory between threads; the C library's locks when a handler interrupts
  `malloc`.
* The S3 and PC variants, compiled out in `config.h`.
* The driver (its error paths run once, alone); LEDs; the first export of a GPIO; the
  list of backups as the server sends it (encryption, parsing).
* Two browsers in `conf_file`; what the daemon writes in `page` (that is `MonitorConf`).
* Recipes, kernel, device trees, other pages, and cgminer, whose source is a compressed
  archive: its restart and API are environment steps.
* JavaScript. Nearly all lines of JavaScript in the repository are five copies of jQuery
  1.10.2 (one in each copy of the pages), Flash helpers and `xhr.js`, which the project
  vendors. Of them `MonitorPage` models the path of jQuery the monitor's page takes;
  selectors, events, animation and the DOM have no part in what the firmware does and
  are not modelled. The programs that are modelled are C and shell.

The hazards that no property covers yet are in `PROJECT.json`, each with its reason.

## 9. Plan

Done: the queue, miner-monitor, the pools order, the switch file, d-ddos, the monitor's page
and the buttons are modelled and checked, and their safety properties are proved.

Next, in this order:

1. An abstract specification of the pools order and of the page's request, and the proof
   that the modules implement them.
2. `PkgReceive`: `rev_data_struct` reading 2, 2, 2 and n bytes with short reads and a
   connection replaced between them; abstract specification: packets come whole, in
   order.
3. Descriptors counted in the start loop and in the reconnects of miner-monitor.
4. `AxiDriver`: the error paths of init, and a second load.
