--------------------------- MODULE MCMonitorConf ---------------------------
(***************************************************************************)
(* minermonitor.conf on a small instance: the factory's file is off with   *)
(* no account; one form is on, another off, with an account each.          *)
(***************************************************************************)
EXTENDS MonitorConf

MCFactory == [sw |-> "off", uid |-> "none"]
MCForms == {[sw |-> "on", uid |-> "u1"], [sw |-> "off", uid |-> "u2"]}
=============================================================================
