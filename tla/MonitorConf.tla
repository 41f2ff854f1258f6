---------------------------- MODULE MonitorConf ----------------------------
(***************************************************************************)
(* /config/minermonitor.conf and the programs that share it with no lock:  *)
(* the two threads of each miner-monitor (write_s4_respond on main,        *)
(* read_s4_switch on both), set_monitor_conf.cgi, which writes the file    *)
(* and restarts the daemon, and miner-m.sh, which watches over both.       *)
(*                                                                         *)
(* The file is a sequence of lines, of which the switch, the uid and the   *)
(* two braces are kept; the line of the closing brace stands for the auth, *)
(* address and port lines before it as well.  Of the daemon only what      *)
(* reads or writes the file is here; the rest is MinerMonitor.  A process  *)
(* of the daemon goes by the name of the one that started it: the boot     *)
(* script, a run of the CGI or miner-m.sh.                                 *)
(*                                                                         *)
(* External: the user, the server (auth responses), cgminer's presence,    *)
(* the power.                                                              *)
(***************************************************************************)
EXTENDS Naturals, Sequences, FiniteSets, FiniteSetsExt

CONSTANTS
  Pages,       \* runs of the CGI that may overlap: one for each open browser
  Forms,       \* what the page may be sent: a switch and a uid
  Factory,     \* what the factory's file says
  MaxSaves,    \* bound: saves of the page
  MaxAuths,    \* bound: responses to auth commands
  MaxCuts      \* bound: power cuts

Starters == {"boot", "miner-m"} \cup Pages
Uids == {f.uid : f \in Forms \cup {Factory}}
Pairs == [sw : {"on", "off"}, uid : Uids]

ASSUME FormsAssumption ==
  Forms \cup {Factory} \subseteq Pairs /\ {"on", "off"} \cap Uids = {}
ASSUME PagesAssumption == IsFiniteSet(Pages) /\ {"boot", "miner-m"} \cap Pages = {}
ASSUME BoundsAssumption == MaxSaves \in Nat /\ MaxAuths \in Nat /\ MaxCuts \in Nat

VARIABLES
  file,   \* the lines of the file
  main,   \* of each process: where main is
  thread, \* ... whether its switch thread runs
  SW,     \* ... its global SW
  held,   \* ... what write_s4_respond holds of the file
  cgi, form,  \* of each page: where its CGI is, and what it was sent
  dog,        \* miner-m.sh: where it is, Check_RET and OFF_ON_NUM
  sent,       \* history: every form sent
  saves, auths, cuts

daemons == <<main, thread, SW, held>>
counts == <<saves, auths, cuts>>
vars == <<file, daemons, cgi, form, dog, sent, counts>>

Line(k, v) == [key |-> k, val |-> v]
Open == Line("{", "")
Close == Line("}", "")
Lines(f) == <<Open, Line("api-switch", f.sw), Line("api-uid", f.uid), Close>>

TypeOK ==
  /\ \A l \in DOMAIN file : file[l] \in [key : {"{", "}", "api-switch", "api-uid"},
                                         val : {"", "on", "off"} \cup Uids]
  /\ main \in [Starters -> {"dead", "read", "truncate", "write", "run"}]
  /\ thread \in [Starters -> BOOLEAN] /\ SW \in [Starters -> BOOLEAN]
  /\ held \in [Starters -> Pairs]
  /\ cgi \in [Pages -> {"idle", "sw", "uid", "rest", "kill", "start"}]
  /\ form \in [Pages -> Forms \cup {Factory}]
  /\ dog \in [pc : {"pidof", "grep", "act", "start"}, Check_RET : 0 .. Cardinality(Starters),
              OFF_ON_NUM : 0 .. 2]
  /\ sent \subseteq Forms \cup {Factory}
  /\ saves \in 0 .. MaxSaves /\ auths \in 0 .. MaxAuths /\ cuts \in 0 .. MaxCuts

Alive(s) == main[s] # "dead"
Count == Cardinality({s \in Starters : Alive(s)})

-----------------------------------------------------------------------------
\* What cJSON_Parse makes of the lines: it fails unless they begin with the
\* brace and have its end; lines after the end are not looked at.
Ends(f) == {l \in DOMAIN f : f[l] = Close}
Keys(f, k) == {l \in DOMAIN f : f[l].key = k /\ l < Min(Ends(f))}
Whole(f) ==
  /\ f # <<>> /\ f[1] = Open /\ Ends(f) # {}
  /\ Keys(f, "api-switch") # {} /\ Keys(f, "api-uid") # {}

\* Mutant: the two strings are copied into each other's place.
Contents_swapped(f) ==
  [sw |-> f[Min(Keys(f, "api-uid"))].val, uid |-> f[Min(Keys(f, "api-switch"))].val]

\* cJSON_GetObjectItem takes the first of several.
Value(f, k) == f[Min(Keys(f, k))].val
Contents(f) == [sw |-> Value(f, "api-switch"), uid |-> Value(f, "api-uid")]

-----------------------------------------------------------------------------
(* The daemon. *)

\* A process that ends, whichever way, leaves the file as it is.
Ended(s) ==
  /\ main' = [main EXCEPT ![s] = "dead"]
  /\ thread' = [thread EXCEPT ![s] = FALSE]
  /\ SW' = [SW EXCEPT ![s] = FALSE]
  /\ held' = [held EXCEPT ![s] = Factory]

\* killall -9 miner-monitor
KillAll ==
  /\ main' = [s \in Starters |-> "dead"]
  /\ thread' = [s \in Starters |-> FALSE]
  /\ SW' = [s \in Starters |-> FALSE]
  /\ held' = [s \in Starters |-> Factory]

\* A new process: main comes to set_dconfig_flag first.
Started(s) ==
  /\ main' = [main EXCEPT ![s] = "read"]
  /\ UNCHANGED <<thread, SW, held>>

\* write_s4_respond reads the file.  An empty one is left alone; of one that is
\* not whole it follows a null pointer.  Once it returns from set_dconfig_flag
\* main creates the switch thread.
RespondReads(s) ==
  /\ main[s] = "read"
  /\ \/ /\ file = <<>>
        /\ main' = [main EXCEPT ![s] = "run"]
        /\ thread' = [thread EXCEPT ![s] = TRUE]
        /\ UNCHANGED <<SW, held>>
     \/ /\ file # <<>> /\ ~ Whole(file)
        /\ Ended(s)
     \/ /\ Whole(file)
        /\ main' = [main EXCEPT ![s] = "truncate"]
        /\ held' = [held EXCEPT ![s] = Contents(file)]
        /\ UNCHANGED <<thread, SW>>
  /\ UNCHANGED <<file, cgi, form, dog, sent, counts>>

\* fopen(fileName, "w+")
RespondTruncates(s) ==
  /\ main[s] = "truncate"
  /\ main' = [main EXCEPT ![s] = "write"]
  /\ file' = <<>>
  /\ UNCHANGED <<thread, SW, held, cgi, form, dog, sent, counts>>

\* The daemon writes at the start of the file, wherever that ends meanwhile: of
\* lines appended since, those past the daemon's last one stay.
Over(lines) == lines \o SubSeq(file, Len(lines) + 1, Len(file))

\* Mutant: the uid is not written back.
RespondWritesNoUid(s) ==
  /\ main[s] = "write"
  /\ main' = [main EXCEPT ![s] = "run"]
  /\ thread' = [thread EXCEPT ![s] = TRUE]
  /\ file' = Over(Lines([held[s] EXCEPT !.uid = Factory.uid]))
  /\ held' = [held EXCEPT ![s] = Factory]
  /\ UNCHANGED <<SW, cgi, form, dog, sent, counts>>

\* fprintf and fclose: one write.
RespondWrites(s) ==
  /\ main[s] = "write"
  /\ main' = [main EXCEPT ![s] = "run"]
  /\ thread' = [thread EXCEPT ![s] = TRUE]
  /\ file' = Over(Lines(held[s]))
  /\ held' = [held EXCEPT ![s] = Factory]
  /\ UNCHANGED <<SW, cgi, form, dog, sent, counts>>

\* The response to an auth command: write_s4_respond again.
AuthResponse(s) ==
  /\ main[s] = "run" /\ auths < MaxAuths
  /\ main' = [main EXCEPT ![s] = "read"]
  /\ auths' = auths + 1
  /\ UNCHANGED <<file, thread, SW, held, cgi, form, dog, sent, saves, cuts>>

\* read_switch, every 15 s.  An empty file gives strcmp a null pointer, and one
\* that is not whole gives strcpy one: the process ends, wherever main is.
read_switch(s) ==
  /\ thread[s]
  /\ \/ /\ Whole(file) /\ Contents(file).sw = "off"
        /\ SW' = [SW EXCEPT ![s] = TRUE]
        /\ UNCHANGED <<main, thread, held>>
     \/ /\ ~ Whole(file)
        /\ Ended(s)
  /\ UNCHANGED <<file, cgi, form, dog, sent, counts>>

\* SW ends the process: main looks at it in its loop and the alarm's handler
\* does at any point of main, in write_s4_respond as well.
Exit(s) ==
  /\ Alive(s) /\ SW[s]
  /\ Ended(s)
  /\ UNCHANGED <<file, cgi, form, dog, sent, counts>>

\* sock_connect_server ends the process when the server has no address, in main's
\* loop and in the alarm's handler alike.
HostUnknown(s) ==
  /\ thread[s]
  /\ Ended(s)
  /\ UNCHANGED <<file, cgi, form, dog, sent, counts>>

Daemon(s) ==
  RespondReads(s) \/ RespondTruncates(s) \/ RespondWrites(s) \/ read_switch(s) \/ Exit(s)

-----------------------------------------------------------------------------
(* set_monitor_conf.cgi *)

\* The first echo empties the file.
Save(p, f) ==
  /\ cgi[p] = "idle" /\ saves < MaxSaves
  /\ saves' = saves + 1
  /\ form' = [form EXCEPT ![p] = f]
  /\ cgi' = [cgi EXCEPT ![p] = "sw"]
  /\ file' = <<Open>>
  /\ sent' = sent \cup {f}
  /\ UNCHANGED <<daemons, dog, auths, cuts>>

\* The other echoes append.
CgiAppends(p) ==
  /\ \/ /\ cgi[p] = "sw"
        /\ file' = Append(file, Line("api-switch", form[p].sw))
        /\ cgi' = [cgi EXCEPT ![p] = "uid"]
     \/ /\ cgi[p] = "uid"
        /\ file' = Append(file, Line("api-uid", form[p].uid))
        /\ cgi' = [cgi EXCEPT ![p] = "rest"]
     \/ /\ cgi[p] = "rest"
        /\ file' = Append(file, Close)
        /\ cgi' = [cgi EXCEPT ![p] = "kill"]
  /\ UNCHANGED <<daemons, form, dog, sent, counts>>

\* Mutant: the daemon is started again without the old one being killed.
CgiKillsNone(p) ==
  /\ cgi[p] = "kill"
  /\ cgi' = [cgi EXCEPT ![p] = "start"]
  /\ UNCHANGED <<file, daemons, form, dog, sent, counts>>

CgiKills(p) ==
  /\ cgi[p] = "kill"
  /\ cgi' = [cgi EXCEPT ![p] = "start"]
  /\ KillAll
  /\ UNCHANGED <<file, form, dog, sent, counts>>

CgiStarts(p) ==
  /\ cgi[p] = "start"
  /\ cgi' = [cgi EXCEPT ![p] = "idle"]
  /\ Started(p)
  /\ UNCHANGED <<file, form, dog, sent, counts>>

Cgi(p) == CgiAppends(p) \/ CgiKills(p) \/ CgiStarts(p)

-----------------------------------------------------------------------------
(* miner-m.sh *)

\* pidof miner-monitor | wc -w
DogCounts ==
  /\ dog.pc = "pidof"
  /\ dog' = [dog EXCEPT !.pc = "grep", !.Check_RET = Count]
  /\ UNCHANGED <<file, daemons, cgi, form, sent, counts>>

\* grep "\"on\"" | wc -l, on every line of the file.
DogGreps ==
  /\ dog.pc = "grep"
  /\ dog' = [dog EXCEPT !.pc = "act",
       !.OFF_ON_NUM = Min({2, Cardinality({l \in DOMAIN file : file[l].val = "on"})})]
  /\ UNCHANGED <<file, daemons, cgi, form, sent, counts>>

DogSleeps == dog' = [pc |-> "pidof", Check_RET |-> 0, OFF_ON_NUM |-> 0]

\* Mutant: the first test is left out.
Wrong_several == dog.Check_RET > 1 /\ dog.OFF_ON_NUM = 0

\* Mutant: the first test does not look at the switch.
Wrong_none ==
  \/ dog.Check_RET = 0
  \/ dog.Check_RET > 1 /\ dog.OFF_ON_NUM = 0

\* What it tests: none with the switch on, or several with it off.
Wrong ==
  \/ dog.Check_RET = 0 /\ dog.OFF_ON_NUM = 1
  \/ dog.Check_RET > 1 /\ dog.OFF_ON_NUM = 0

\* It acts only while pidof finds exactly one cgminer.
DogActs(cgminer) ==
  /\ dog.pc = "act"
  /\ \/ /\ cgminer /\ Wrong
        /\ dog' = [dog EXCEPT !.pc = "start"]
        /\ KillAll
     \/ /\ ~ (cgminer /\ Wrong)
        /\ DogSleeps
        /\ UNCHANGED daemons
  /\ UNCHANGED <<file, cgi, form, sent, counts>>

DogStarts ==
  /\ dog.pc = "start"
  /\ DogSleeps
  /\ Started("miner-m")
  /\ UNCHANGED <<file, cgi, form, sent, counts>>

Dog == DogCounts \/ DogGreps \/ (\E c \in BOOLEAN : DogActs(c)) \/ DogStarts

-----------------------------------------------------------------------------
\* The power goes and comes: bitmainer_setup.sh finds the file there, whatever
\* is in it, and the boot script's line "APP= miner-monitor" runs the daemon.
PowerCut ==
  /\ cuts < MaxCuts
  /\ cuts' = cuts + 1
  /\ main' = [s \in Starters |-> IF s = "boot" THEN "read" ELSE "dead"]
  /\ thread' = [s \in Starters |-> FALSE]
  /\ SW' = [s \in Starters |-> FALSE]
  /\ held' = [s \in Starters |-> Factory]
  /\ cgi' = [p \in Pages |-> "idle"]
  /\ form' = [p \in Pages |-> Factory]
  /\ DogSleeps
  /\ UNCHANGED <<file, sent, saves, auths>>

Init ==
  /\ file = Lines(Factory)
  /\ main = [s \in Starters |-> IF s = "boot" THEN "read" ELSE "dead"]
  /\ thread = [s \in Starters |-> FALSE]
  /\ SW = [s \in Starters |-> FALSE]
  /\ held = [s \in Starters |-> Factory]
  /\ cgi = [p \in Pages |-> "idle"] /\ form = [p \in Pages |-> Factory]
  /\ dog = [pc |-> "pidof", Check_RET |-> 0, OFF_ON_NUM |-> 0]
  /\ sent = {Factory}
  /\ saves = 0 /\ auths = 0 /\ cuts = 0

Next ==
  \/ \E s \in Starters : Daemon(s) \/ AuthResponse(s) \/ HostUnknown(s)
  \/ \E p \in Pages : Cgi(p) \/ \E f \in Forms : Save(p, f)
  \/ Dog \/ PowerCut

Spec == Init /\ [][Next]_vars

\* Every process is scheduled; the thread polls for ever.  cgminer is looked at
\* again and again and is there again and again (monitorcg sees to it).
Fairness ==
  /\ \A s \in Starters : WF_vars(Daemon(s))
  /\ \A p \in Pages : WF_vars(Cgi(p))
  /\ WF_vars(Dog) /\ SF_vars(DogActs(TRUE))
FairSpec == Spec /\ Fairness

-----------------------------------------------------------------------------
\* The switch and the uid that can be read from the file were sent in one form,
\* though the daemon writes back what it read, over the CGI or under it, and
\* processes die at every point: while one browser saves at a time (the lines of
\* two CGIs may mix).
PairsTogether == Whole(file) /\ Cardinality(Pages) = 1 => Contents(file) \in sent

\* The boot script, each page and miner-m.sh never start a process beside one
\* of their own: however their kills and starts interleave there are never more
\* processes than starters.
OnePerStarter ==
  /\ \A p \in Pages : cgi[p] = "start" => ~ Alive(p)
  /\ dog.pc = "start" => ~ Alive("miner-m")

\* The file says so, or a process is about to write back that it does.
Says(sw) ==
  \/ Whole(file) /\ Contents(file).sw = sw
  \/ file = <<>> /\ \E s \in Starters : main[s] = "write" /\ held[s].sw = sw

\* Once the file says "off" for good no process is left: not even with several
\* of them, with miner-m.sh starting others, and SW seen in the middle of a
\* write.
OffEnds == <>[]Says("off") => <>[](Count = 0)

\* Once the file says "on" for good, in one line, there is a process again and
\* again, whatever ends them.
OneLine(v) == Cardinality({l \in DOMAIN file : file[l].val = v}) < 2
OnRuns == <>[](Says("on") /\ OneLine("on")) => []<>(Count > 0)

\* "read web config switch": once the page has saved "on" and saves no more,
\* daemons run.
SwitchFollowed ==
  <>[](\E p \in Pages : cgi[p] = "idle" /\ form[p].sw = "on") => []<>(Count > 0)
=============================================================================
