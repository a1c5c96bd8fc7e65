------------------------------- MODULE Buffer -------------------------------
(***************************************************************************)
(* The growable byte buffer of src/buffer.c.                               *)
(*                                                                         *)
(* The C struct keeps a byte region buf[0..size) and two cursors           *)
(* rpos <= wpos <= size.  Here the region is the sequence `mem` (so        *)
(* size = Len(mem), and C offset k is mem[k+1]); bytes are drawn from a    *)
(* small alphabet.  Two distinguished byte values stand for what the C     *)
(* program can leave in memory without a caller having written it: Nul     *)
(* (the zero byte that calloc() and vsnprintf()'s terminator store) and    *)
(* Undef (what realloc() leaves in the grown tail).                        *)
(*                                                                         *)
(* `out` is what the last read()/yield() handed to its caller (the bytes   *)
(* copied to mem, or the record the returned pointer designates).          *)
(* `hung` is TRUE once vprintf() spins forever in its retry loop.          *)
(*                                                                         *)
(* Allocation is bounded by MaxSize: an alloc() asking for more fails,     *)
(* which is how the model reaches the code's allocation-failure paths.     *)
(***************************************************************************)
EXTENDS Integers, Sequences, SequencesExt

CONSTANTS
  Bytes,        \* payload byte values callers write
  Nul,          \* the zero byte
  Undef,        \* the content of memory realloc() has not initialised
  DefaultSize,  \* 1 << BUF_SIZE_P, scaled down
  MaxSize,      \* the largest region alloc() grants
  MaxLen,       \* the longest write/printf/read request
  Delims        \* delimiters passed to yield()

ASSUME Nul \notin Bytes /\ Undef \notin Bytes /\ Nul # Undef
ASSUME DefaultSize \in Nat /\ MaxSize \in Nat /\ DefaultSize <= MaxSize

VARIABLES mem, rpos, wpos, out, hung

vars == <<mem, rpos, wpos, out, hung>>

AllBytes == Bytes \cup {Nul, Undef}

\* A request's payload: a nonempty byte string of at most MaxLen bytes.
Payloads == SeqOf(Bytes, MaxLen) \ {<<>>}

\* The state of a buffer as one record, for the helpers below.
Buf == [mem |-> mem, rpos |-> rpos, wpos |-> wpos]

\* The readable region [rpos, wpos).
Readable(b) == SubSeq(b.mem, b.rpos + 1, b.wpos)

\* memmove(b.mem + at, data, Len(data)).
Store(m, at, data) ==
  [k \in 1..Len(m) |-> IF at < k /\ k <= at + Len(data) THEN data[k - at] ELSE m[k]]

\* Mutant: the compaction resets the cursors but skips the memmove.
CompactNoMove(b) == [mem |-> b.mem, rpos |-> 0, wpos |-> b.wpos - b.rpos]

\* Compaction in buffer_extend: memmove(buf, buf + rpos, wpos - rpos).
Compact(b) ==
  [mem  |-> Store(b.mem, 0, Readable(b)),
   rpos |-> 0,
   wpos |-> b.wpos - b.rpos]

\* realloc(b.mem, n) when n <= MaxSize: a fresh tail is Undef.
Realloc(m, n) == [k \in 1..n |-> IF k <= Len(m) THEN m[k] ELSE Undef]

(***************************************************************************)
(* buffer_extend(buf, len): compact when rpos > 0 and return if that made  *)
(* room; otherwise reallocate to exactly wpos + len.  Yields the new       *)
(* buffer, or [failed |-> TRUE, b |-> ...] carrying the compaction that    *)
(* already happened when realloc() fails.                                  *)
(***************************************************************************)
\* Mutant: the new size is one byte short of wpos + len.
ExtendShort(b, len) ==
  LET c == IF b.rpos > 0 THEN Compact(b) ELSE b
  IN IF b.rpos > 0 /\ c.wpos + len <= Len(c.mem) THEN [failed |-> FALSE, b |-> c]
     ELSE IF c.wpos + len - 1 > MaxSize THEN [failed |-> TRUE, b |-> c]
     ELSE [failed |-> FALSE, b |-> [c EXCEPT !.mem = Realloc(c.mem, c.wpos + len - 1)]]

Extend(b, len) ==
  LET c == IF b.rpos > 0 THEN Compact(b) ELSE b
      newlen == c.wpos + len
  IN IF b.rpos > 0 /\ c.wpos + len <= Len(c.mem)
       THEN [failed |-> FALSE, b |-> c]
     ELSE IF newlen > MaxSize
       THEN [failed |-> TRUE, b |-> c]
     ELSE [failed |-> FALSE, b |-> [c EXCEPT !.mem = Realloc(c.mem, newlen)]]

\* The drain rule of read() and yield(): both cursors return to 0.
Advance(b, n) ==
  IF b.rpos + n >= b.wpos THEN [b EXCEPT !.rpos = 0, !.wpos = 0]
  ELSE [b EXCEPT !.rpos = b.rpos + n]

\* Mutant: a failed extend does not return early.
WriteBufNoFailCheck(b, data) ==
  LET e == IF b.wpos + Len(data) > Len(b.mem) THEN Extend(b, Len(data))
           ELSE [failed |-> FALSE, b |-> b]
  IN [e.b EXCEPT !.mem  = Store(e.b.mem, e.b.rpos, data),
                 !.wpos = e.b.wpos + Len(data)]

\* buffer_write(buf, data, len): note the copy lands at rpos, not wpos.
WriteBuf(b, data) ==
  LET e == IF b.wpos + Len(data) > Len(b.mem) THEN Extend(b, Len(data))
           ELSE [failed |-> FALSE, b |-> b]
  IN IF e.failed THEN e.b
     ELSE [e.b EXCEPT !.mem  = Store(e.b.mem, e.b.rpos, data),
                      !.wpos = e.b.wpos + Len(data)]

\* memmem(): the offsets i in s where d starts.
Matches(s, d) ==
  {i \in 0..(Len(s) - Len(d)) : SubSeq(s, i + 1, i + Len(d)) = d}

(***************************************************************************)
(* One vsnprintf(p, avail, ...) of text t at wpos: at most avail - 1 bytes *)
(* of t followed by the terminating Nul, nothing when avail = 0.           *)
(***************************************************************************)
Format(b, t) ==
  LET avail == Len(b.mem) - b.wpos
      n == IF Len(t) < avail - 1 THEN Len(t) ELSE avail - 1
  IN IF avail = 0 THEN b.mem
     ELSE Store(b.mem, b.wpos, SubSeq(t, 1, n) \o <<Nul>>)

(***************************************************************************)
(* The retry loop of buffer_vprintf, as the set of buffers it can end      *)
(* with (hung when it spins).  After the first attempt the va_list has    *)
(* been consumed (vsnprintf(..., ap) then va_end(ap), `cpy` unused), so a  *)
(* retry formats whatever the exhausted va_list yields: any text.  A       *)
(* failed buffer_extend is ignored and the loop retries unchanged, for    *)
(* ever.  Every successful extend grows or compacts, so the recursion ends.*)
(***************************************************************************)
RECURSIVE PrintfLoop(_, _)
PrintfLoop(b, t) ==
  LET f == [b EXCEPT !.mem = Format(b, t)]
      e == Extend(f, Len(t))
  IN IF Len(t) <= Len(b.mem) - b.wpos
       THEN {[hung |-> FALSE, b |-> [f EXCEPT !.wpos = b.wpos + Len(t)]]}
     ELSE IF e.failed THEN {[hung |-> TRUE, b |-> e.b]}
     ELSE UNION {PrintfLoop(e.b, t2) : t2 \in Payloads}

-----------------------------------------------------------------------------
(* buffer_new: a size argument other than 0 is never stored, so the       *)
(* region is calloc(1, 0) (size 0); 0 selects the default size.            *)
Init ==
  /\ \E size \in {0, DefaultSize} : mem = [k \in 1..size |-> Nul]
  /\ rpos = 0
  /\ wpos = 0
  /\ out = <<>>
  /\ hung = FALSE

Set(b) == mem' = b.mem /\ rpos' = b.rpos /\ wpos' = b.wpos

\* buffer_read(buf, mem, len)
Read(len) ==
  LET nread == IF len < wpos - rpos THEN len ELSE wpos - rpos
  IN /\ ~hung
     /\ out' = SubSeq(mem, rpos + 1, rpos + nread)
     /\ IF nread > 0 THEN Set(Advance(Buf, nread)) ELSE UNCHANGED <<mem, rpos, wpos>>
     /\ UNCHANGED hung

\* buffer_write(buf, mem, len)
Write(data) ==
  /\ ~hung
  /\ Set(WriteBuf(Buf, data))
  /\ UNCHANGED <<out, hung>>

\* buffer_extend(buf, len), called by a client
ExtendOp(len) ==
  /\ ~hung
  /\ Set(Extend(Buf, len).b)
  /\ UNCHANGED <<out, hung>>

\* Mutant: the record length leaves out delim_len.
RecordLenNoDelim(b, d) ==
  LET r == Readable(b)
  IN IF Matches(r, d) = {} THEN 0
     ELSE (CHOOSE i \in Matches(r, d) : \A j \in Matches(r, d) : i <= j)

\* The length buffer_yield hands out: up to and including the first
\* occurrence of the delimiter memmem() finds, 0 when there is none.
RecordLen(b, d) ==
  LET r == Readable(b)
  IN IF Matches(r, d) = {} THEN 0
     ELSE (CHOOSE i \in Matches(r, d) : \A j \in Matches(r, d) : i <= j) + Len(d)

\* buffer_yield(buf, delim, delim_len, len)
Yield(d) ==
  LET n == RecordLen(Buf, d)
  IN /\ ~hung
     /\ out' = SubSeq(Readable(Buf), 1, n)
     /\ IF n > 0 THEN Set(Advance(Buf, n)) ELSE UNCHANGED <<mem, rpos, wpos>>
     /\ UNCHANGED hung

\* buffer_vprintf(buf, fmt, ap) producing the text t
Vprintf(t) ==
  /\ ~hung
  /\ \E res \in PrintfLoop(Buf, t) : Set(res.b) /\ hung' = res.hung
  /\ UNCHANGED out

\* The thread spinning in vprintf's loop.
Spin == hung /\ UNCHANGED vars

\* The byte-level operations, without printf.
NextRW ==
  \/ \E len \in 0..MaxLen : Read(len)
  \/ \E d \in Payloads : Write(d)
  \/ \E len \in 1..MaxLen : ExtendOp(len)
  \/ \E d \in Delims : Yield(d)

Next ==
  \/ NextRW
  \/ \E t \in Payloads : Vprintf(t)
  \/ Spin

Spec == Init /\ [][Next]_vars

\* A client that never calls buffer_printf (as Stream's write path).
SpecRW == Init /\ [][NextRW]_vars

-----------------------------------------------------------------------------
TypeOK ==
  /\ mem \in Seq(AllBytes) /\ Len(mem) <= MaxSize
  /\ rpos \in 0..MaxSize /\ wpos \in 0..MaxSize
  /\ out \in Seq(AllBytes)
  /\ hung \in BOOLEAN

(* The cursors stay ordered inside the region across every compaction,    *)
(* reallocation, drain reset and printf retry: rpos <= wpos <= size.  A   *)
(* wrong size in buffer_extend or buffer_vprintf breaks it.               *)
CursorBounds == rpos <= wpos /\ wpos <= Len(mem)

(* A client's buffer_extend never changes the bytes waiting to be read,   *)
(* whether it compacts, reallocates, or fails after compacting.           *)
ExtendKeepsReadable ==
  [][\A len \in 1..MaxLen : ExtendOp(len) => Readable(Buf') = Readable(Buf)]_vars

(* buffer_yield returns exactly the first delimiter-terminated record of  *)
(* the readable bytes (the shortest prefix ending with the delimiter) and *)
(* removes just that record; without a record it returns nothing and     *)
(* leaves the buffer alone.                                               *)
FIFO == INSTANCE BufferFIFO WITH queue <- Readable(Buf)
YieldReturnsFirstRecord ==
  [][\A d \in Delims : Yield(d) =>
        /\ out' = (IF FIFO!Records(Readable(Buf), d) = {} THEN <<>>
                   ELSE FIFO!FirstRecord(Readable(Buf), d))
        /\ Readable(Buf') = SubSeq(Readable(Buf), Len(out') + 1, wpos - rpos)]_vars

(* The buffer is the FIFO spec.md promises: every byte written is read    *)
(* back once, in order (buffer_write, buffer_read, buffer_yield and       *)
(* buffer_vprintf together refine BufferFIFO).                            *)
BufferIsFIFO == FIFO!Spec

=============================================================================
