------------------------------ MODULE Transport ------------------------------
(***************************************************************************)
(* What a transaction sees of the transport layer (tsip_transport_layer.c) *)
(* and of the network behind it.  net is the set of messages that were     *)
(* sent and may still be received.  Over an unreliable transport a message *)
(* stays in net when it is received, so it may arrive again, late, or      *)
(* before an older one, and nothing forces it to arrive at all.  Over a    *)
(* reliable transport receiving takes the message away.                    *)
(***************************************************************************)
VARIABLES net, reliable

\* tsip_transport_layer_send: sent is FALSE when the transport refuses the
\* message (no transport found, connection lost, socket error).
Sent(m, sent) == IF sent THEN {m} ELSE {}

\* What is left in the network once m has been read.
Rest(m) == IF reliable THEN net \ {m} ELSE net

\* Over a reliable transport timers D, I, J and K have a zero delay, so they may
\* elapse before TRANSAC_TIMER_SCHEDULE has stored their identifier.
Missed == IF reliable THEN BOOLEAN ELSE {FALSE}
=============================================================================
