---------------------------- MODULE MonitorPage ----------------------------
(***************************************************************************)
(* The page minerMonitor.cgi in a browser: f_submit_miner_conf posts the   *)
(* form with jQuery.ajax to set_monitor_conf.cgi, and either of its        *)
(* handlers has the page loaded again.                                     *)
(*                                                                         *)
(* One action for each event of the browser, with everything JavaScript    *)
(* does in answer to it, and for each part of the two CGI scripts that     *)
(* touches the file.  The file is the lines of one form or several, each   *)
(* form's in two writes: the one that empties the file and the appends.    *)
(* What the daemon does to the file meanwhile is in MonitorConf.           *)
(*                                                                         *)
(* External: the browser, the user, lighttpd.  lighttpd ends the answer    *)
(* when the CGI's output is closed; miner-monitor, started by the CGI, has *)
(* it too, so the answer may never end.                                    *)
(***************************************************************************)
EXTENDS Naturals, Sequences, FiniteSets

CONSTANTS
  MaxClicks, \* bound: the clicks of the user
  Forms,     \* what the user may fill in
  First,     \* the form whose lines the file has at first
  Broken     \* a page whose script cannot be parsed

ASSUME ClickAssumption == MaxClicks \in Nat
ASSUME FormAssumption == First \in Forms /\ Broken \notin Forms

Reqs == 1 .. MaxClicks   \* the calls of jQuery.ajax, one for each click

VARIABLES
  file,      \* minermonitor.conf: a sequence of parts of forms
  cgi,       \* set_monitor_conf.cgi, for each request
  page,      \* "up", "leaving" after reload(), "away" until it is loaded
  ant_data,  \* the form the page was made from
  jqXHR,     \* the object jQuery.ajax has returned
  cause,     \* history: the request whose handler reloads the page, or 0
  handled,   \* history: how often a handler of it was called
  crowded    \* history: requests whose CGI, or reload, met another request

server == <<file, cgi>>
history == <<cause, handled, crowded>>
vars == <<server, page, ant_data, jqXHR, history>>

Part(form, n) == [form |-> form, part |-> n]
Whole(form) == <<Part(form, "first"), Part(form, "rest")>>

\* state is jQuery's: 0 before send, 1 sent, 2 done.
NotSent == [state |-> 0, timer |-> FALSE, callback |-> FALSE, deferred |-> "pending"]
Sent == [state |-> 1, timer |-> TRUE, callback |-> TRUE, deferred |-> "pending"]

NoCgi == [at |-> "none", form |-> First]

\* The requests with a CGI, an answer or a reload still to come.
Underway ==
  {r \in Reqs : \/ cgi[r].at \in {"truncate", "append", "restart"}
                \/ jqXHR[r].callback
                \/ page = "leaving" /\ cause = r}

Init ==
  /\ file = Whole(First) /\ cgi = [r \in Reqs |-> NoCgi]
  /\ page = "up" /\ ant_data = First /\ jqXHR = [r \in Reqs |-> NotSent]
  /\ cause = 0 /\ handled = [r \in Reqs |-> 0] /\ crowded = {}

TypeOK ==
  /\ \A i \in DOMAIN file : file[i] \in [form : Forms, part : {"first", "rest"}]
  /\ {i \in DOMAIN file : file[i].part = "first"} = {1}
  /\ cgi \in [Reqs -> [at : {"none", "truncate", "append", "restart", "ended"}, form : Forms]]
  /\ page \in {"up", "leaving", "away"} /\ ant_data \in Forms \cup {Broken}
  /\ jqXHR \in [Reqs -> [state : 0 .. 2, timer : BOOLEAN, callback : BOOLEAN,
                         deferred : {"pending", "resolved", "rejected"}]]
  /\ cause \in Reqs \cup {0} /\ handled \in [Reqs -> Nat] /\ crowded \subseteq Reqs

-----------------------------------------------------------------------------
(* jQuery.ajax *)

\* Mutant: no timeout is asked for.
Submit_no_timeout(r, form) ==
  /\ page # "away" /\ ant_data # Broken
  /\ \A q \in Reqs : q < r <=> cgi[q].at # "none"
  /\ jqXHR' = [jqXHR EXCEPT ![r] = [Sent EXCEPT !.timer = FALSE]]
  /\ cgi' = [cgi EXCEPT ![r] = [at |-> "truncate", form |-> form]]
  /\ crowded' = crowded \cup (IF Underway = {} THEN {} ELSE Underway \cup {r})
  /\ UNCHANGED <<file, page, ant_data, cause, handled>>

\* f_submit_miner_conf: the button is there until the page is gone, and is not
\* disabled while a request is on its way.
Submit(r, form) ==
  /\ page # "away" /\ ant_data # Broken
  /\ \A q \in Reqs : q < r <=> cgi[q].at # "none"
  /\ jqXHR' = [jqXHR EXCEPT ![r] = Sent]
  /\ cgi' = [cgi EXCEPT ![r] = [at |-> "truncate", form |-> form]]
  /\ crowded' = crowded \cup (IF Underway = {} THEN {} ELSE Underway \cup {r})
  /\ UNCHANGED <<file, page, ant_data, cause, handled>>

\* resolveWith or rejectWith: the deferred's own callbacks come first in its list
\* and disable the other list; the page's handler, added by ajax, is the last.
Settled(x, outcome) == [x EXCEPT !.deferred = IF @ = "pending" THEN outcome ELSE @]

\* Both handlers: window.location.reload(), then check_on_off().
Handler(r) ==
  /\ page' = "leaving" /\ cause' = r
  /\ handled' = [handled EXCEPT ![r] = @ + 1]

\* Mutant: done neither asks whether it was called nor stops the timer.
Done_again(r, x, outcome) ==
  /\ jqXHR' = [jqXHR EXCEPT ![r] = Settled([x EXCEPT !.state = 2], outcome)]
  /\ Handler(r)

\* The function done of ajax, called once, with the timer cleared.
Done(r, x, outcome) ==
  IF x.state = 2
    THEN jqXHR' = [jqXHR EXCEPT ![r] = x] /\ UNCHANGED <<page, cause, handled>>
    ELSE /\ jqXHR' = [jqXHR EXCEPT ![r] = Settled([x EXCEPT !.state = 2, !.timer = FALSE], outcome)]
         /\ Handler(r)

\* ajaxConvert on what the CGI prints, which is not JSON: "parsererror".
Converted == "rejected"

\* The transport's callback at readyState 4: the answer has ended, or the
\* connection has.
Response(r) ==
  /\ page # "away" /\ jqXHR[r].callback /\ cgi[r].at # "none"
  /\ \E lost \in BOOLEAN :
       /\ ~ lost => cgi[r].at = "ended"
       /\ Done(r, [jqXHR[r] EXCEPT !.callback = FALSE], IF lost THEN "rejected" ELSE Converted)
       /\ lost => crowded' = crowded \cup {r}
       /\ ~ lost => UNCHANGED crowded
  /\ UNCHANGED <<server, ant_data>>

\* The timer: jqXHR.abort("timeout"), which takes the transport's callback away
\* and calls done.
Timeout(r) ==
  /\ page # "away" /\ jqXHR[r].timer
  /\ Done(r, [jqXHR[r] EXCEPT !.timer = FALSE, !.callback = FALSE], "rejected")
  /\ crowded' = crowded \cup {r}
  /\ UNCHANGED <<server, ant_data>>

-----------------------------------------------------------------------------
(* The browser: the page goes, with its timers and requests, and comes back *)

Gone(x) == [x EXCEPT !.timer = FALSE, !.callback = FALSE]

Unload ==
  /\ page = "leaving"
  /\ page' = "away"
  /\ jqXHR' = [r \in Reqs |-> Gone(jqXHR[r])]
  /\ UNCHANGED <<server, ant_data, history>>

UserReloads ==
  /\ page = "up"
  /\ page' = "away" /\ cause' = 0
  /\ jqXHR' = [r \in Reqs |-> Gone(jqXHR[r])]
  /\ UNCHANGED <<server, ant_data, handled, crowded>>

\* Mutant: the page comes out of the browser's cache.
Load_cached ==
  /\ page = "away"
  /\ page' = "up"
  /\ UNCHANGED <<server, ant_data, jqXHR, history>>

\* minerMonitor.cgi puts the file into the page's script as it is.
Load ==
  /\ page = "away"
  /\ page' = "up"
  /\ ant_data' = IF file = Whole(file[1].form) THEN file[1].form ELSE Broken
  /\ UNCHANGED <<server, jqXHR, history>>

-----------------------------------------------------------------------------
(* set_monitor_conf.cgi, which runs on when nobody waits for it *)

\* Mutant: the first line is appended too.
CgiTruncates_not(r) ==
  /\ cgi[r].at = "truncate"
  /\ cgi' = [cgi EXCEPT ![r].at = "append"]
  /\ file' = Append(file, Part(cgi[r].form, "first"))
  /\ UNCHANGED <<page, ant_data, jqXHR, history>>

CgiTruncates(r) ==
  /\ cgi[r].at = "truncate"
  /\ cgi' = [cgi EXCEPT ![r].at = "append"]
  /\ file' = <<Part(cgi[r].form, "first")>>
  /\ UNCHANGED <<page, ant_data, jqXHR, history>>

CgiAppends(r) ==
  /\ cgi[r].at = "append"
  /\ cgi' = [cgi EXCEPT ![r].at = "restart"]
  /\ file' = Append(file, Part(cgi[r].form, "rest"))
  /\ UNCHANGED <<page, ant_data, jqXHR, history>>

\* It starts miner-monitor, and ends; its output may stay open.
CgiEnds(r) ==
  /\ cgi[r].at = "restart"
  /\ cgi' = [cgi EXCEPT ![r].at = "ended"]
  /\ UNCHANGED <<file, page, ant_data, jqXHR, history>>

CgiSteps(r) == CgiTruncates(r) \/ CgiAppends(r) \/ CgiEnds(r)

Next ==
  \/ \E r \in Reqs : \E form \in Forms : Submit(r, form)
  \/ \E r \in Reqs : Response(r) \/ Timeout(r) \/ CgiSteps(r)
  \/ Unload \/ UserReloads \/ Load

Spec == Init /\ [][Next]_vars

\* Timers fire, a page that is left is loaded again, and a script runs to its
\* end.  That an answer comes is not assumed.
Fairness ==
  /\ \A r \in Reqs : WF_vars(Timeout(r)) /\ WF_vars(CgiSteps(r))
  /\ WF_vars(Unload) /\ WF_vars(Load)
FairSpec == Spec /\ Fairness

-----------------------------------------------------------------------------
\* One handler is called, once, for each request: whatever order the answer,
\* the lost connection and the timer come in.
OneHandler == \A r \in Reqs : handled[r] <= 1

\* A page that was loaded because an answer came shows what was saved, as long
\* as no other request was on its way.
ShowsSaved ==
  [][page = "away" /\ page' = "up" /\ cause \in Reqs \ crowded
       => ant_data' = cgi[cause].form]_vars

\* The page comes back after each click, though the answer may never end.
ComesBack == \A r \in Reqs : jqXHR[r].callback ~> page = "away"
=============================================================================
