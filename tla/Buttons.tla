------------------------------ MODULE Buttons ------------------------------
(***************************************************************************)
(* The two buttons of the board.  monitor-recobtn polls the recovery       *)
(* button: held for more than 3 s and let go, it erases the configuration  *)
(* and reboots, which ends monitor-ipsig too.  monitor-ipsig polls the     *)
(* other one: pressed, it broadcasts address and MAC, again and again,     *)
(* until a datagram names the MAC or nothing has come for a while.         *)
(*                                                                         *)
(* One action for each reading of a button and for each call that waits.   *)
(* A poll is also the unit of time.  get_gpio closes nothing, so each poll *)
(* of the recovery button takes a descriptor for good, and get_ip keeps a  *)
(* socket whenever there is no address.  LEDs are left out.                *)
(*                                                                         *)
(* External: the user, the network, and ntpd, which steps the clock.       *)
(***************************************************************************)
EXTENDS Integers, Sequences, SequencesExt

CONSTANTS
  HoldPolls,  \* the polls in 3 s
  MaxFds,     \* the descriptors monitor-recobtn may take
  MaxSocks,   \* those monitor-ipsig may take
  KEY_TIMES,  \* readings of a press
  FOR_2MIM,   \* silences after which a report is given up
  MaxSteps,   \* bound: steps of the clock
  MaxMsgs     \* bound: datagrams

ASSUME SizeAssumption ==
  /\ HoldPolls \in Nat /\ MaxFds \in Nat \ {0} /\ MaxSocks \in Nat \ {0}
  /\ KEY_TIMES \in Nat \ {0} /\ FOR_2MIM \in Nat \ {0}
  /\ MaxSteps \in Nat /\ MaxMsgs \in Nat

VARIABLES
  down,     \* the recovery button is down
  rpc,      \* monitor-recobtn: "poll", "held", "blink", "reset" (the child runs)
  fds,      \* its descriptors taken
  elapsed,  \* end minus start, in polls
  pushed,   \* history: how often it was read down in this press
  stepped,  \* history: the clock was stepped in this press
  steps,    \* the steps of the clock
  key,      \* the other button is down
  ipc,      \* monitor-ipsig: "key", "send", "check", "exit"
  i, key_times, interval_count,
  socks,    \* its sockets taken
  rcvbuf,   \* the datagrams its socket holds
  msgs,     \* the datagrams sent
  silent    \* history: silences in a row in this report

press == <<elapsed, pushed, stepped>>
recobtn == <<rpc, fds, press>>
ipsig == <<ipc, i, key_times, interval_count, socks, rcvbuf, silent>>
world == <<down, key, steps, msgs>>
vars == <<recobtn, ipsig, world>>

Init ==
  /\ rpc = "poll" /\ fds = 0 /\ elapsed = 0 /\ pushed = 0 /\ stepped = FALSE
  /\ ipc = "key" /\ i = 0 /\ key_times = 0 /\ interval_count = 0
  /\ socks = 0 /\ rcvbuf = <<>> /\ silent = 0
  /\ down = FALSE /\ key = FALSE /\ steps = 0 /\ msgs = 0

Datagrams == {"mine", "other", "empty"}

TypeOK ==
  /\ rpc \in {"poll", "held", "blink", "reset"} /\ fds \in 0 .. MaxFds
  /\ elapsed \in 0 .. HoldPolls + 1 /\ pushed \in 0 .. MaxFds /\ stepped \in BOOLEAN
  /\ ipc \in {"key", "send", "check", "exit"}
  /\ i \in 0 .. KEY_TIMES /\ key_times \in 0 .. i
  /\ interval_count \in 0 .. FOR_2MIM - 1 /\ silent \in 0 .. FOR_2MIM
  /\ socks \in 0 .. MaxSocks /\ rcvbuf \in BoundedSeq(Datagrams, MaxMsgs)
  /\ down \in BOOLEAN /\ key \in BOOLEAN /\ steps \in 0 .. MaxSteps /\ msgs \in 0 .. MaxMsgs

-----------------------------------------------------------------------------
(* monitor-recobtn *)

\* -1 when fopen fails, which is neither true nor false.
get_gpio == IF fds = MaxFds THEN "failed" ELSE IF down THEN "down" ELSE "up"

\* close() of a FILE* closes no descriptor.
Leak == fds' = IF fds = MaxFds THEN fds ELSE fds + 1

Count == pushed' = IF get_gpio = "down" THEN pushed + 1 ELSE pushed

PollDown ==
  /\ rpc = "poll" /\ get_gpio = "down"
  /\ rpc' = "held" /\ elapsed' = 0 /\ pushed' = 1 /\ stepped' = FALSE
  /\ Leak
  /\ UNCHANGED <<ipsig, world>>

PollNotDown ==
  /\ rpc = "poll" /\ get_gpio # "down"
  /\ Leak
  /\ UNCHANGED <<rpc, press, ipsig, world>>

HeldUp ==
  /\ rpc = "held" /\ get_gpio = "up"
  /\ rpc' = "poll"
  /\ Leak
  /\ UNCHANGED <<press, ipsig, world>>

\* Mutant: the press goes on when the button is up.
HeldOn_up ==
  /\ rpc = "held" /\ elapsed <= HoldPolls
  /\ elapsed' = elapsed + 1
  /\ Count /\ Leak
  /\ UNCHANGED <<rpc, stepped, ipsig, world>>

HeldOn ==
  /\ rpc = "held" /\ get_gpio # "up" /\ elapsed <= HoldPolls
  /\ elapsed' = elapsed + 1
  /\ Count /\ Leak
  /\ UNCHANGED <<rpc, stepped, ipsig, world>>

HeldOver ==
  /\ rpc = "held" /\ get_gpio # "up" /\ elapsed > HoldPolls
  /\ rpc' = "blink"
  /\ Leak
  /\ UNCHANGED <<press, ipsig, world>>

Blink ==
  /\ rpc = "blink" /\ get_gpio = "down"
  /\ Leak
  /\ UNCHANGED <<rpc, press, ipsig, world>>

\* fork may fail, and the loop goes on.
BlinkOver ==
  /\ rpc = "blink" /\ get_gpio # "down"
  /\ rpc' \in {"reset", "held"}
  /\ Leak
  /\ UNCHANGED <<press, ipsig, world>>

\* The child has the descriptors of its parent: with none left the shell cannot
\* open the script.
CannotReset ==
  /\ rpc = "reset" /\ fds >= MaxFds - 1
  /\ rpc' = "held"
  /\ UNCHANGED <<fds, press, ipsig, world>>

\* factory_config_reset.sh: /config is erased, and the board reboots.
FactoryReset ==
  /\ rpc = "reset" /\ fds < MaxFds
  /\ rpc' = "poll" /\ fds' = 0 /\ elapsed' = 0 /\ pushed' = 0 /\ stepped' = FALSE
  /\ ipc' = "key" /\ i' = 0 /\ key_times' = 0 /\ interval_count' = 0
  /\ socks' = 0 /\ rcvbuf' = <<>> /\ silent' = 0
  /\ UNCHANGED world

Recobtn ==
  \/ PollDown \/ PollNotDown \/ HeldUp \/ HeldOn \/ HeldOver
  \/ Blink \/ BlinkOver \/ CannotReset \/ FactoryReset

-----------------------------------------------------------------------------
(* monitor-ipsig *)

\* key_test: one of its readings.
KeyRead ==
  /\ ipc = "key" /\ i < KEY_TIMES
  /\ i' = i + 1 /\ key_times' = IF key THEN key_times + 1 ELSE key_times
  /\ UNCHANGED <<recobtn, ipc, interval_count, socks, rcvbuf, silent, world>>

\* Mutant: the readings of the last test are counted again.
KeyTested_kept ==
  /\ ipc = "key" /\ i = KEY_TIMES
  /\ ipc' = IF key_times >= KEY_TIMES THEN "send" ELSE "key"
  /\ i' = 0 /\ silent' = 0
  /\ UNCHANGED <<recobtn, key_times, interval_count, socks, rcvbuf, world>>

KeyTested ==
  /\ ipc = "key" /\ i = KEY_TIMES
  /\ ipc' = IF key_times = KEY_TIMES THEN "send" ELSE "key"
  /\ i' = 0 /\ key_times' = 0 /\ silent' = 0
  /\ UNCHANGED <<recobtn, interval_count, socks, rcvbuf, world>>

\* send_ipmac: get_ip keeps its socket if there is no address, and get_macforkey
\* ends the process if it gets no socket.
SendIpMac ==
  /\ ipc = "send"
  /\ \E address \in BOOLEAN :
       socks' = IF address \/ socks = MaxSocks THEN socks ELSE socks + 1
  /\ ipc' = IF socks' = MaxSocks THEN "exit" ELSE "check"
  /\ UNCHANGED <<recobtn, i, key_times, interval_count, rcvbuf, silent, world>>

\* Mutant: the count starts again, and so does the report.
Silence_goes_on ==
  /\ ipc' = "send"
  /\ IF interval_count + 1 = FOR_2MIM
       THEN interval_count' = 0 /\ silent' = 0
       ELSE interval_count' = interval_count + 1 /\ silent' = silent + 1

Silence ==
  /\ silent' = silent + 1
  /\ IF interval_count + 1 = FOR_2MIM
       THEN interval_count' = 0 /\ ipc' = "key"
       ELSE interval_count' = interval_count + 1 /\ ipc' = "send"

\* check_result: select times out, or there is nothing in the datagram.
CheckSilent ==
  /\ ipc = "check" /\ (rcvbuf # <<>> => Head(rcvbuf) = "empty")
  /\ rcvbuf' = IF rcvbuf = <<>> THEN rcvbuf ELSE Tail(rcvbuf)
  /\ Silence
  /\ UNCHANGED <<recobtn, i, key_times, socks, world>>

\* Mutant: the silences before the answer are left in the count.
CheckMatches_counted ==
  /\ ipc = "check" /\ rcvbuf # <<>> /\ Head(rcvbuf) = "mine"
  /\ rcvbuf' = Tail(rcvbuf)
  /\ silent' = 0 /\ ipc' = "key"
  /\ UNCHANGED <<recobtn, i, key_times, interval_count, socks, world>>

CheckMatches ==
  /\ ipc = "check" /\ rcvbuf # <<>> /\ Head(rcvbuf) = "mine"
  /\ rcvbuf' = Tail(rcvbuf)
  /\ silent' = 0 /\ interval_count' = 0 /\ ipc' = "key"
  /\ UNCHANGED <<recobtn, i, key_times, socks, world>>

CheckFails ==
  /\ ipc = "check" /\ rcvbuf # <<>> /\ Head(rcvbuf) = "other"
  /\ rcvbuf' = Tail(rcvbuf)
  /\ silent' = 0 /\ interval_count' = 0 /\ ipc' = "send"
  /\ UNCHANGED <<recobtn, i, key_times, socks, world>>

\* select returns -1, and the process ends.
SelectFails ==
  /\ ipc = "check" /\ ipc' = "exit"
  /\ UNCHANGED <<recobtn, i, key_times, interval_count, socks, rcvbuf, silent, world>>

Check == CheckSilent \/ CheckMatches \/ CheckFails

Report == SendIpMac \/ Check \/ SelectFails

-----------------------------------------------------------------------------
(* The user, the clock and the network *)

MoveRecovery == down' = ~ down /\ UNCHANGED <<recobtn, ipsig, key, steps, msgs>>
MoveKey == key' = ~ key /\ UNCHANGED <<recobtn, ipsig, down, steps, msgs>>

\* ntpd sets the clock on or back.
ClockSteps ==
  /\ steps < MaxSteps /\ rpc = "held"
  /\ elapsed' \in 0 .. HoldPolls + 1 /\ stepped' = TRUE
  /\ steps' = steps + 1
  /\ UNCHANGED <<rpc, fds, pushed, ipsig, down, key, msgs>>

\* The socket is bound from the start: a datagram may come when no report is on.
Arrives ==
  /\ msgs < MaxMsgs /\ ipc # "exit"
  /\ msgs' = msgs + 1
  /\ \E d \in Datagrams : rcvbuf' = Append(rcvbuf, d)
  /\ UNCHANGED <<recobtn, ipc, i, key_times, interval_count, socks, silent, down, key, steps>>

Next ==
  \/ Recobtn \/ KeyRead \/ KeyTested \/ Report
  \/ MoveRecovery \/ MoveKey \/ ClockSteps \/ Arrives

Spec == Init /\ [][Next]_vars

\* A send returns, and select waits for two seconds; it need never fail.
FairSpec == Spec /\ WF_vars(SendIpMac \/ Check)

-----------------------------------------------------------------------------
\* A short press never erases the configuration: it was read down for more than
\* 3 s, or the clock was stepped meanwhile.  Descriptors that run out in the
\* middle of a press look like a button that is held, but then the script cannot
\* be run.
ResetMeansHeld ==
  [][rpc = "reset" /\ rpc' = "poll" => pushed > HoldPolls \/ stepped]_vars

\* A report ends when a datagram names this board, or after FOR_2MIM silences in
\* a row that belong to it: no silence of an earlier report is counted.
EndsForAReason ==
  [][ipc = "check" /\ ipc' = "key" /\ rpc' = rpc
       => \/ rcvbuf # <<>> /\ Head(rcvbuf) = "mine"
          \/ silent' = FOR_2MIM]_vars

\* A report ends, once the network has stopped to send what is for others.
ReportEnds == ipc \in {"send", "check"} ~> ipc \in {"key", "exit"}
=============================================================================
