------------------------------ MODULE MCThread ------------------------------
(* One thread_new from a thread that called thread.init, then thread_join. *)
EXTENDS Thread
=============================================================================
