----------------------------- MODULE MCSetPools -----------------------------
(***************************************************************************)
(* Pools orders on a small instance: orders for one, two and three pools,  *)
(* one with an empty password, one for a pool that is not there; files     *)
(* with and without the options.                                           *)
(***************************************************************************)
EXTENDS SetPools

MCOrders == {<< <<"1", "uA", "w", "p">> >>,
             << <<"0", "uB", "w", "">> >>,
             << <<"3", "uB", "v", "q">> >>,
             << <<"2", "uA", "w", "p">>, <<"1", "uB", "v", "p">> >>,
             << <<"0", "uA", "w", "p">>, <<"1", "uB", "w", "">>, <<"2", "uC", "v", "q">> >>,
             << <<"0", "uA", "w", "p">>, <<"1", "uB", "w", "p">>, <<"2", "uC", "v", "q">> >>}

Conf(u, option) ==
  [pools |-> [k \in 1 .. 3 |-> <<u, "w0", "p0">>],
   nobeeper |-> option, notempoverctrl |-> option]

\* cgminer.conf.factory has neither option; the page writes those that are on.
MCFirstConfs == {Conf("u0", FALSE), Conf("u3", TRUE)}
MCWebConfs == {Conf("u1", TRUE), Conf("u2", FALSE)}

MCText == {"", "0", "1", "2", "3", "uA", "uB", "uC", "v", "w", "p", "q",
           "u0", "u1", "u2", "u3", "w0", "p0"}
=============================================================================
