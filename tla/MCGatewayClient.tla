--------------------------- MODULE MCGatewayClient ---------------------------
(***************************************************************************)
(* Three generations: a superseded socket, the current one and the one a   *)
(* hook or a timer opens next.  With the connect requests one more request *)
(* is enough for one to be answered while another is flushed.              *)
(***************************************************************************)
EXTENDS GatewayClient

CONSTANT c1
=============================================================================
