------------------------------- MODULE MCHMap -------------------------------
(* khlist_create(1) with three keys, growing by _expand up to four slots. *)
EXTENDS HMap
=============================================================================
