---------------------------- MODULE MCReconnect ----------------------------
(* The recipes of each run: <<alertsOnly, subscribeFirst, opens>>. *)
EXTENDS Reconnect

\* The example without and with a filter, and the guide's recipe with one.
MCBoth == {<<FALSE, FALSE, 3>>, <<TRUE, FALSE, 2>>, <<TRUE, TRUE, 2>>}

\* The example's handler.
MCExample == {<<FALSE, FALSE, MaxConns>>}
=============================================================================
