----------------------------- MODULE BufferFIFO -----------------------------
(***************************************************************************)
(* What spec.md section 4.1 promises of a Buffer: a FIFO of bytes.  write  *)
(* appends (or, when memory runs out, changes nothing), read hands out the *)
(* oldest bytes, yield hands out the oldest delimiter-terminated record,   *)
(* printf appends the formatted text, and extend changes no content.       *)
(***************************************************************************)
EXTENDS Integers, Sequences, SequencesExt

CONSTANTS Bytes, MaxLen, Delims

VARIABLES queue, out

Payloads == SeqOf(Bytes, MaxLen) \ {<<>>}

\* The shortest prefix of s that ends with d (the first record).
Records(s, d) == {p \in Prefixes(s) : p # <<>> /\ IsSuffix(d, p)}
FirstRecord(s, d) ==
  CHOOSE p \in Records(s, d) : \A q \in Records(s, d) : Len(p) <= Len(q)

Init == queue = <<>> /\ out = <<>>

TakeOut(n) ==
  LET k == IF n < Len(queue) THEN n ELSE Len(queue)
  IN out' = SubSeq(queue, 1, k) /\ queue' = SubSeq(queue, k + 1, Len(queue))

Enqueue(d) == queue' \in {queue \o d, queue} /\ UNCHANGED out

YieldRecord(d) ==
  IF Records(queue, d) = {} THEN out' = <<>> /\ UNCHANGED queue
  ELSE TakeOut(Len(FirstRecord(queue, d)))

Next ==
  \/ \E n \in 0..MaxLen : TakeOut(n)
  \/ \E d \in Payloads : Enqueue(d)
  \/ \E d \in Delims : YieldRecord(d)

Spec == Init /\ [][Next]_<<queue, out>>

=============================================================================
