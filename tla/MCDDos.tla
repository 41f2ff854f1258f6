------------------------------- MODULE MCDDos -------------------------------
(***************************************************************************)
(* d-ddos on a small instance: two domains with backups of their own, the  *)
(* first with two, and a miner with both or with the first only.           *)
(***************************************************************************)
EXTENDS DDos

MCBackupsOf == [d1 |-> <<"b1", "b2">>, d2 |-> <<"b2">>]
MCConfigs == {<<"d2", "d1">>, <<"d1">>}
=============================================================================
