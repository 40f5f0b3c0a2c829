----------------------------- MODULE TransacLayer -----------------------------
(***************************************************************************)
(* The server side of the transaction layer (tsip_transac_layer.c) for the *)
(* retransmissions of one request, and the use the transport and dialog    *)
(* layers make of it.  list[i] is the i-th server transaction the dialog   *)
(* layer created for the request; its state is "none" before that and      *)
(* "Terminated" once it is removed from the layer.                         *)
(***************************************************************************)
EXTENDS Naturals, Timers, Transport

CONSTANT MaxServers     \* bound on the server transactions of one request
ASSUME MaxServersAssumption == MaxServers \in Nat \ {0}

Server == 1..MaxServers

Alive(list, i) == list[i].state \notin {"none", "Terminated"}

\* tsip_transac_layer_find_server returns the oldest match of its list.
Found(list, i) == Alive(list, i) /\ \A j \in Server : Alive(list, j) => i <= j
\* A slip: only a transaction that awaits its final response is searched for.
NoneFoundAwaiting(list) == \A i \in Server : list[i].state # "Proceeding"
NoneFound(list) == \A i \in Server : ~Alive(list, i)

\* The next server transaction the dialog layer may create.
IsNext(list, i) == \A j \in Server : list[j].state = "none" <=> i <= j
=============================================================================
