------------------------------- MODULE MCConn -------------------------------
(* The connection layer with three descriptors (listener, one client, one *)
(* accepted), a backlog of one and two connect calls in test.c's chain.   *)
EXTENDS Conn

=============================================================================
