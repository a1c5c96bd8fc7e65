------------------------------ MODULE MCBuffer ------------------------------
(* Buffer with a two-letter alphabet, a region of at most four bytes and   *)
(* requests of up to two bytes: enough for partial reads, compaction,     *)
(* reallocation, failed allocation and multi-byte delimiters.             *)
EXTENDS Buffer

MCBytes == {"a", "b"}
MCDelims == {<<"b">>, <<"a", "b">>}
=============================================================================
