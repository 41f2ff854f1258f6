------------------------------ MODULE SetPools ------------------------------
(***************************************************************************)
(* The pools order "06" of the miner-monitor daemon: rev_pools,            *)
(* save_old_conf, creat_newpools and create_conf of write_conf.c, and      *)
(* restart_cgminer and send_setconfig_result of send_pkg.c, with           *)
(* /config/cgminer.conf between them, the web page and cgminer.            *)
(*                                                                         *)
(* A string is a value of a small set.  A pool of an order is its which,   *)
(* url, user and pass; a pool of the file its url, user and pass.  A file  *)
(* is <<conf>>, or <<>> while it is empty; its pools are three, and of its *)
(* options it keeps the two that may be missing.                           *)
(*                                                                         *)
(* External: the server (its orders), cgminer, kill -9 and restart of the  *)
(* daemon by the web page and miner-m.sh.                                  *)
(***************************************************************************)
EXTENDS Integers, Sequences, FiniteSets

CONSTANTS
  Text,        \* the strings of orders and files
  Orders,      \* the orders the server may send
  WebConfs,    \* what the web page may save
  FirstConfs,  \* what the file may hold at the start
  MaxOrders,   \* bound: orders
  MaxKills,    \* bound: the daemon is killed
  MaxSaves     \* bound: the page saves

Empty == ""
ASSUME TextAssumption == Empty \in Text
ASSUME BoundsAssumption == MaxOrders \in Nat /\ MaxKills \in Nat /\ MaxSaves \in Nat
\* A pool of an order is four strings, one of the file three.
ASSUME OrdersAssumption ==
  \A o \in Orders : o \in Seq([1 .. 4 -> Text]) /\ Len(o) \in 1 .. 3

Confs == [pools : [1 .. 3 -> [1 .. 3 -> Text]], nobeeper : BOOLEAN, notempoverctrl : BOOLEAN]
ASSUME ConfsAssumption == WebConfs \cup FirstConfs \subseteq Confs

VARIABLES
  conf_file,      \* /config/cgminer.conf
  changed_pools,  \* the daemon's globals: what orders said ...
  get_cgminer_conf,  \* ... and the file's contents with the new pools
  pc, order, i,   \* the order being dealt with, and the tries left
  answer,         \* "S" or "F" of the last "60"
  cgminer, running,  \* cgminer: is it up, and the file it was started with
  script,         \* cgminer.sh restart, run by the daemon and by the page
  orders, kills, saves

daemon_vars == <<changed_pools, get_cgminer_conf, order, i, answer>>
vars == <<conf_file, daemon_vars, pc, cgminer, running, script, orders, kills, saves>>

NoData == [k \in 1 .. 3 |-> <<Empty, Empty, Empty, Empty>>]
NoChange == [pools_data |-> NoData, pools_count |-> 0]
NoConf == [pools |-> [k \in 1 .. 3 |-> <<Empty, Empty, Empty>>],
           nobeeper |-> FALSE, notempoverctrl |-> FALSE]
NoScript == [s \in {"daemon", "page"} |-> "none"]

Changes == [pools_data : [1 .. 3 -> [1 .. 4 -> Text]], pools_count : 0 .. 3 * MaxOrders]
Files == {<<>>} \cup [{1} -> Confs]

TypeOK ==
  /\ {conf_file, running} \subseteq Files
  /\ changed_pools \in Changes /\ get_cgminer_conf \in Confs
  /\ pc \in {"idle", "write", "restart", "connect", "dead"}
  /\ order \in Orders \cup {<<>>} /\ i \in -1 .. 6 /\ answer \in {"none", "S", "F"}
  /\ cgminer \in {"up", "down", "starting"}
  /\ script \in [{"daemon", "page"} -> {"none", "kill", "start"}]
  /\ orders \in 0 .. MaxOrders /\ kills \in 0 .. MaxKills /\ saves \in 0 .. MaxSaves

Init ==
  /\ conf_file \in {<<c>> : c \in FirstConfs}
  /\ changed_pools = NoChange /\ get_cgminer_conf = NoConf
  /\ pc = "idle" /\ order = <<>> /\ i = 0 /\ answer = "none"
  /\ cgminer = "up" /\ running = conf_file
  /\ script = NoScript
  /\ orders = 0 /\ kills = 0 /\ saves = 0

-----------------------------------------------------------------------------
\* rev_pools: fields are cut at ',' and ';'; an empty one is passed over and
\* does not count.
Items(o) == {f \in (1 .. Len(o)) \X (1 .. 4) : o[f[1]][f[2]] # Empty}

\* The items before item f, in its pool and in the pools before it ...
Before(o, f) == {g \in Items(o) : g[1] < f[1] \/ (g[1] = f[1] /\ g[2] < f[2])}

\* ... say what it is taken for: count goes from 0 to 3 and round again, over
\* the ends of the pools; num goes on at each.
count(o, f) == Cardinality(Before(o, f)) % 4
ItemFor(o, num, c) == {f \in Items(o) : f[1] = num /\ count(o, f) = c - 1}

\* What no item is taken for stays as it was; pools_count counts on from the
\* orders before.
rev_pools(change, o) ==
  [pools_data |-> [num \in 1 .. 3 |-> [c \in 1 .. 4 |->
                     IF ItemFor(o, num, c) # {}
                       THEN o[num][(CHOOSE f \in ItemFor(o, num, c) : TRUE)[2]]
                       ELSE change.pools_data[num][c]]],
   pools_count |-> change.pools_count + Cardinality({f \in Items(o) : count(o, f) = 0})]

atoi(s) == CASE s = "1" -> 1 [] s = "2" -> 2 [] s = "3" -> 3 [] OTHER -> 0

\* The switch over which_pool: no case, no change.
SetPool(pools, data) ==
  [p \in 1 .. 3 |-> IF p = atoi(data[1]) + 1 THEN SubSeq(data, 2, 4) ELSE pools[p]]

\* Mutant: both switches look at the first which_pool.
creat_newpools_first(change, old) ==
  LET d == change.pools_data IN
  CASE change.pools_count = 1 -> [old EXCEPT !.pools = SetPool(@, d[1])]
    [] change.pools_count = 2 ->
         [old EXCEPT !.pools = SetPool(SetPool(@, d[1]), [d[2] EXCEPT ![1] = d[1][1]])]
    [] change.pools_count = 3 -> [old EXCEPT !.pools = [k \in 1 .. 3 |-> SubSeq(d[k], 2, 4)]]
    [] OTHER -> old

\* creat_newpools: by the number of pools it is told; three are in order.
creat_newpools(change, old) ==
  LET d == change.pools_data IN
  CASE change.pools_count = 1 -> [old EXCEPT !.pools = SetPool(@, d[1])]
    [] change.pools_count = 2 -> [old EXCEPT !.pools = SetPool(SetPool(@, d[1]), d[2])]
    [] change.pools_count = 3 -> [old EXCEPT !.pools = [k \in 1 .. 3 |-> SubSeq(d[k], 2, 4)]]
    [] OTHER -> old

\* save_old_conf follows the pointer of every known option, there or not;
\* an empty file gives it no pointers at all.
Readable(f) == f # <<>> /\ f[1].nobeeper /\ f[1].notempoverctrl
save_old_conf(f) == f[1]

-----------------------------------------------------------------------------
\* The daemon

\* write_config_s4 up to fopen in create_conf, which empties the file.
WriteConfig(o) ==
  /\ pc = "idle" /\ orders < MaxOrders
  /\ orders' = orders + 1
  /\ order' = o
  /\ answer' = "none"
  /\ Readable(conf_file)
  /\ changed_pools' = rev_pools(changed_pools, o)
  /\ get_cgminer_conf' = creat_newpools(changed_pools', save_old_conf(conf_file))
  /\ conf_file' = <<>>
  /\ pc' = "write"
  /\ UNCHANGED <<i, cgminer, running, script, kills, saves>>

\* A null pointer ends the daemon.
ConfigFaults(o) ==
  /\ pc = "idle" /\ orders < MaxOrders
  /\ orders' = orders + 1
  /\ order' = o
  /\ answer' = "none"
  /\ ~Readable(conf_file)
  /\ pc' = "dead"
  /\ UNCHANGED <<conf_file, changed_pools, get_cgminer_conf, i, cgminer, running, script,
                 kills, saves>>

\* fprintf and fclose; then system() waits for the script.
create_conf ==
  /\ pc = "write"
  /\ conf_file' = <<get_cgminer_conf>>
  /\ script' = [script EXCEPT !["daemon"] = "kill"]
  /\ pc' = "restart"
  /\ UNCHANGED <<daemon_vars, cgminer, running, orders, kills, saves>>

Restarted ==
  /\ pc = "restart" /\ script["daemon"] = "none"
  /\ i' = 6
  /\ pc' = "connect"
  /\ UNCHANGED <<conf_file, changed_pools, get_cgminer_conf, order, answer, cgminer,
                 running, script, orders, kills, saves>>

\* Without an address or a socket there is no try.
RestartUntried ==
  /\ pc = "restart" /\ script["daemon"] = "none"
  /\ answer' = "F"
  /\ pc' = "idle"
  /\ UNCHANGED <<conf_file, changed_pools, get_cgminer_conf, order, i, cgminer, running,
                 script, orders, kills, saves>>

\* Mutant: the tries are not counted.
TryAgainForever ==
  /\ pc = "connect" /\ cgminer # "up" /\ i > 0
  /\ UNCHANGED vars

\* Mutant: the tries go on below 0.
TryAgainBelow ==
  /\ pc = "connect" /\ cgminer # "up" /\ i > -2
  /\ i' = i - 1
  /\ UNCHANGED <<conf_file, changed_pools, get_cgminer_conf, order, answer, pc,
                 cgminer, running, script, orders, kills, saves>>

\* while (connect(...) < 0 && (i--) > 0) sleep(5);
TryAgain ==
  /\ pc = "connect" /\ cgminer # "up" /\ i > 0
  /\ i' = i - 1
  /\ UNCHANGED <<conf_file, changed_pools, get_cgminer_conf, order, answer, pc,
                 cgminer, running, script, orders, kills, saves>>

\* The loop is over; what i has become decides, not the connect.
RestartResult ==
  /\ pc = "connect" /\ (cgminer = "up" \/ i = 0)
  /\ i' = IF cgminer = "up" THEN i ELSE i - 1
  /\ answer' = IF i' <= 0 THEN "F" ELSE "S"
  /\ pc' = "idle"
  /\ UNCHANGED <<conf_file, changed_pools, get_cgminer_conf, order, cgminer, running, script,
                 orders, kills, saves>>

Daemon == \/ \E o \in Orders : WriteConfig(o) \/ ConfigFaults(o)
          \/ create_conf \/ Restarted \/ RestartUntried \/ TryAgain \/ RestartResult

-----------------------------------------------------------------------------
\* cgminer.sh restart, and cgminer

\* Mutant: do_stop leaves cgminer running.
do_stop_not(s) ==
  /\ script[s] = "kill"
  /\ script' = [script EXCEPT ![s] = "start"]
  /\ UNCHANGED <<conf_file, daemon_vars, pc, cgminer, running, orders, kills, saves>>

\* killall -9 ...
do_stop(s) ==
  /\ script[s] = "kill"
  /\ script' = [script EXCEPT ![s] = "start"]
  /\ cgminer' = "down" /\ running' = <<>>
  /\ UNCHANGED <<conf_file, daemon_vars, pc, orders, kills, saves>>

\* ... and some seconds later the start, which does nothing if the other
\* script, or monitorcg, has started cgminer in between.
do_start(s) ==
  /\ script[s] = "start"
  /\ script' = [script EXCEPT ![s] = "none"]
  /\ running' = IF cgminer = "down" THEN conf_file ELSE running
  /\ cgminer' = IF cgminer = "down" THEN "starting" ELSE cgminer
  /\ UNCHANGED <<conf_file, daemon_vars, pc, orders, kills, saves>>

\* monitorcg finds no cgminer.
MonitorStarts ==
  /\ cgminer = "down"
  /\ running' = conf_file /\ cgminer' = "starting"
  /\ UNCHANGED <<conf_file, daemon_vars, pc, script, orders, kills, saves>>

\* cgminer opens its API once it has read its pools, or ends without any.
CgminerRuns ==
  /\ cgminer = "starting"
  /\ cgminer' = IF running = <<>> THEN "down" ELSE "up"
  /\ UNCHANGED <<conf_file, daemon_vars, pc, running, script, orders, kills, saves>>

Cgminer == (\E s \in {"daemon", "page"} : do_stop(s) \/ do_start(s))
           \/ MonitorStarts \/ CgminerRuns

-----------------------------------------------------------------------------
\* What is around the daemon

\* kill -9 by set_monitor_conf.cgi or miner-m.sh: the script goes on.
Kill ==
  /\ pc # "dead" /\ kills < MaxKills
  /\ kills' = kills + 1
  /\ pc' = "dead"
  /\ UNCHANGED <<conf_file, daemon_vars, cgminer, running, script, orders, saves>>

\* A new daemon starts from nothing.  By the time it is connected and has an
\* order, a script of the old one has ended.
Restart ==
  /\ pc = "dead" /\ script["daemon"] = "none"
  /\ pc' = "idle" /\ order' = <<>> /\ answer' = "none"
  /\ changed_pools' = NoChange /\ get_cgminer_conf' = NoConf /\ i' = 0
  /\ UNCHANGED <<conf_file, cgminer, running, script, orders, kills, saves>>

\* set_miner_conf.cgi: the lines it writes are one step, and no other writer
\* comes between them.
WebSave(c) ==
  /\ script["page"] = "none" /\ pc # "write" /\ saves < MaxSaves
  /\ saves' = saves + 1
  /\ conf_file' = <<c>>
  /\ script' = [script EXCEPT !["page"] = "kill"]
  /\ UNCHANGED <<daemon_vars, pc, cgminer, running, orders, kills>>

Around == Kill \/ Restart \/ (\E c \in WebConfs : WebSave(c))

Next == Daemon \/ Cgminer \/ Around
Spec == Init /\ [][Next]_vars

\* The daemon and the scripts are scheduled.  cgminer need not ever come up.
Fairness == WF_vars(Daemon) /\ \A s \in {"daemon", "page"} : WF_vars(do_stop(s) \/ do_start(s))
FairSpec == Spec /\ Fairness

-----------------------------------------------------------------------------
\* What an order asks for: each pool it names, in the place it names.
WellFormed(o) ==
  /\ \A k \in DOMAIN o : o[k][1] \in {"0", "1", "2"} /\ \A f \in 1 .. 4 : o[k][f] # Empty
  /\ \A k, l \in DOMAIN o : o[k][1] = o[l][1] => k = l
  /\ Len(o) = 3 => \A k \in 1 .. 3 : atoi(o[k][1]) = k - 1

Asked(o, pools) ==
  [p \in 1 .. 3 |-> IF \E k \in DOMAIN o : atoi(o[k][1]) = p - 1
                      THEN SubSeq(o[CHOOSE k \in DOMAIN o : atoi(o[k][1]) = p - 1], 2, 4)
                      ELSE pools[p]]

Writes == pc = "idle" /\ pc' = "write"

\* The fields that rev_pools puts at counted places, and the cases that
\* creat_newpools takes by their number, come to what the order asks for: in
\* the first order of a daemon, with no empty field and three pools in order.
FirstOrderApplied ==
  [][Writes /\ changed_pools = NoChange /\ WellFormed(order')
       => get_cgminer_conf'.pools = Asked(order', conf_file[1].pools)]_vars

\* "S" is said when cgminer runs with the file as it is, whoever wrote and
\* restarted meanwhile; or the page is about to restart it.
SuccessMeansRunning ==
  [][pc = "connect" /\ answer' = "S" => running = conf_file \/ script["page"] # "none"]_vars

\* Whether cgminer comes up or not, main gets out of restart_cgminer.
OrderEnds == pc \in {"write", "restart", "connect"} ~> pc \in {"idle", "dead"}

\* creat_newpools: an order for one pool changes that pool and no other.
OnePoolChanged ==
  [][Writes /\ Len(order') = 1 /\ WellFormed(order')
       => get_cgminer_conf'.pools = Asked(order', conf_file[1].pools)]_vars
=============================================================================
