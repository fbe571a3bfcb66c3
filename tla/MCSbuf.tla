------------------------------- MODULE MCSbuf -------------------------------
(* The connection buffer: one accepting thread, three workers. *)
EXTENDS Sbuf, TLC

CONSTANTS main, w1, w2, w3, c1, c2, c3, c4

MCProducers == {main}
MCConsumers == {w1, w2, w3}
MCConns == {c1, c2, c3, c4}
=============================================================================
