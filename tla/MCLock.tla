------------------------------- MODULE MCLock -------------------------------
(* Lock with three threads: enough for two readers and a writer, or two   *)
(* writers and a reader, to be inside lock.c at once.                     *)
EXTENDS Lock

CONSTANTS p1, p2, p3

MCThreads == {p1, p2, p3}
=============================================================================
