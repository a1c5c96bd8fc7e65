------------------------------ MODULE MCStream ------------------------------
(* Stream under TLC: one byte value, a default buffer of 2 bytes that may *)
(* grow to 4, and a scratch that never limits a readv of these sizes.     *)
EXTENDS Stream

MCBytes == {"a"}
MCDelims == {<<"a">>}
=============================================================================
