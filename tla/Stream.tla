------------------------------- MODULE Stream -------------------------------
(***************************************************************************)
(* The buffered stream of src/stream.c over a descriptor backend           *)
(* (stream_funcs_fd), on top of the buffer of src/buffer.c.                *)
(*                                                                         *)
(* The stream's buffer is Buffer's state (mem, rpos, wpos), and every      *)
(* buffer call is Buffer's definition of it.  The descriptor is a          *)
(* connected socket: `inq` holds the bytes the peer sent that readv has    *)
(* not yet returned, `closed` says the peer shut down its side (readv      *)
(* then returns 0), `wired` counts the bytes writev accepted.  readv and   *)
(* writev return any short count, EAGAIN when nothing can move, and a     *)
(* hard error (EIO here) at most MaxFaults times.                          *)
(*                                                                         *)
(* History: `consumed` is every byte readv took from the socket, `got`     *)
(* every byte a read/yield handed to (or, with a NULL destination,         *)
(* discarded for) the caller; `attempted` and `reported` count the bytes   *)
(* callers passed to write/printf and the bytes those calls reported       *)
(* written.  `res` is the outcome of the last call.                        *)
(*                                                                         *)
(* Every call but yield, printf and set_mask runs under the stream's       *)
(* spinlock, so each is one atomic step; `locked` is TRUE when a call      *)
(* returned without unlocking, after which no locking call can start.      *)
(***************************************************************************)
EXTENDS Integers, Sequences, SequencesExt

CONSTANTS
  Bytes, Nul, Undef, DefaultSize, MaxSize, MaxLen, Delims,  \* as in Buffer
  ScratchLen,  \* STM_READALL_LEN, the stack scratch of stream_fill
  MaxIn,       \* bytes the peer sends in all
  MaxOut,      \* bytes callers write in all
  MaxFaults    \* hard I/O errors the backend raises in all

VARIABLES mem, rpos, wpos, hung, inq, closed, fdOpen, consumed, got, wired,
          attempted, reported, need, lastErr, locked, faults, res

vars == <<mem, rpos, wpos, hung, inq, closed, fdOpen, consumed, got, wired,
          attempted, reported, need, lastErr, locked, faults, res>>

B == INSTANCE Buffer WITH out <- <<>>

Min2(a, b) == IF a < b THEN a ELSE b

Avail == wpos - rpos

\* Everything a call under the lock may change, as one record.
St == [b |-> B!Buf, inq |-> inq, consumed |-> consumed, got |-> got,
       wired |-> wired, need |-> need, err |-> lastErr, faults |-> faults]

SetSt(s) ==
  /\ mem' = s.b.mem /\ rpos' = s.b.rpos /\ wpos' = s.b.wpos
  /\ inq' = s.inq /\ consumed' = s.consumed /\ got' = s.got
  /\ wired' = s.wired /\ need' = s.need /\ lastErr' = s.err /\ faults' = s.faults

\* Mutant: buffer_read without the min(len, avail) clamp and drain reset.
BReadNoClamp(b, n) == [b EXCEPT !.rpos = @ + n]

\* buffer_read(buf, 0, n): drop up to n readable bytes.
BRead(b, n) == IF Min2(n, b.wpos - b.rpos) > 0 THEN B!Advance(b, Min2(n, b.wpos - b.rpos)) ELSE b

\* buffer_write(buf, 0, n): extend if needed, then only advance wpos.
WriteNull(b, n) ==
  LET e == IF b.wpos + n > Len(b.mem) THEN B!Extend(b, n) ELSE [failed |-> FALSE, b |-> b]
  IN IF e.failed THEN e.b ELSE [e.b EXCEPT !.wpos = @ + n]

(***************************************************************************)
(* fd_readv into iovecs of total length cap: the outcomes as records       *)
(* [s, n, d] with n the return value (-1 on failure) and d the bytes.      *)
(* EAGAIN sets last_err and adds EVMASK_READ to need_mask; a 0 return      *)
(* (peer closed) sets last_err 0 and fails; EBADF once the fd is closed.   *)
(***************************************************************************)
Readv(s, cap) ==
  LET fail(e) == [s |-> [s EXCEPT !.err = e, !.need = IF e = "EAGAIN" THEN @ \cup {"R"} ELSE @,
                                 !.faults = IF e = "EIO" THEN @ + 1 ELSE @],
                  n |-> -1, d |-> <<>>]
  IN IF ~fdOpen THEN {fail("EBADF")}
     ELSE {[s |-> [s EXCEPT !.inq = SubSeq(s.inq, k + 1, Len(s.inq)),
                            !.consumed = @ \o SubSeq(s.inq, 1, k)],
            n |-> k, d |-> SubSeq(s.inq, 1, k)] : k \in 1..Min2(cap, Len(s.inq))}
          \cup (IF s.inq = <<>> /\ ~closed THEN {fail("EAGAIN")} ELSE {})
          \cup (IF s.inq = <<>> /\ closed THEN {fail("none")} ELSE {})
          \cup (IF s.faults < MaxFaults THEN {fail("EIO")} ELSE {})

\* fd_writev of towrite bytes: a short count, EAGAIN (need_mask |= WRITE),
\* a hard error, EBADF once closed.
Writev(s, towrite) ==
  LET fail(e) == [s |-> [s EXCEPT !.err = e, !.need = IF e = "EAGAIN" THEN @ \cup {"W"} ELSE @,
                                 !.faults = IF e = "EIO" THEN @ + 1 ELSE @], n |-> -1]
  IN IF ~fdOpen THEN {fail("EBADF")}
     ELSE {[s |-> [s EXCEPT !.wired = @ + k], n |-> k] : k \in 1..towrite}
          \cup {fail("EAGAIN")}
          \cup (IF s.faults < MaxFaults THEN {fail("EIO")} ELSE {})

(***************************************************************************)
(* The for(;;) loop of _stream_write over iov[0] (i0 bytes left of the     *)
(* buffered backlog, or of the caller's bytes once iovcnt is 1) and        *)
(* iov[1] (i1 caller bytes): the set of [s, ok] it can end with.  Every    *)
(* step writes at least one byte, so the recursion ends.                   *)
(***************************************************************************)
RECURSIVE WriteLoop(_, _, _, _, _, _)

\* Mutant: the final writev does not retire the backlog from the buffer.
WriteLoopKeepBacklog(s, i0, i1, cnt, towrite, ravail) ==
  UNION {
    IF w.n = -1 THEN {[s |-> w.s, ok |-> FALSE]}
    ELSE IF w.n = towrite THEN {[s |-> w.s, ok |-> TRUE]}
    ELSE IF w.n > i0
      THEN WriteLoop([w.s EXCEPT !.b = BRead(@, ravail)], i1 - (w.n - i0), 0, 1, towrite - w.n, ravail)
    ELSE IF cnt = 2
      THEN WriteLoop([w.s EXCEPT !.b = BRead(@, w.n)], i0 - w.n, i1, 2, towrite - w.n, ravail)
    ELSE WriteLoop(w.s, i0 - w.n, i1, 1, towrite - w.n, ravail)
    : w \in Writev(s, towrite)}

WriteLoop(s, i0, i1, cnt, towrite, ravail) ==
  UNION {
    IF w.n = -1 THEN {[s |-> w.s, ok |-> FALSE]}
    ELSE IF w.n = towrite THEN {[s |-> [w.s EXCEPT !.b = BRead(@, ravail)], ok |-> TRUE]}
    ELSE IF w.n > i0
      THEN WriteLoop([w.s EXCEPT !.b = BRead(@, ravail)], i1 - (w.n - i0), 0, 1, towrite - w.n, ravail)
    ELSE IF cnt = 2
      THEN WriteLoop([w.s EXCEPT !.b = BRead(@, w.n)], i0 - w.n, i1, 2, towrite - w.n, ravail)
    ELSE WriteLoop(w.s, i0 - w.n, i1, 1, towrite - w.n, ravail)
    : w \in Writev(s, towrite)}

\* _stream_write(stm, data, len): buffer it when it fits, else writev the
\* backlog and the data together.
StreamWriteOutcomes(s, data) ==
  LET ravail == s.b.wpos - s.b.rpos
  IN IF Len(data) > 0 /\ Len(data) < Len(s.b.mem) - s.b.wpos
       THEN {[s |-> [s EXCEPT !.b = B!WriteBuf(@, data)], ok |-> TRUE]}
     ELSE WriteLoop(s, ravail, Len(data), 2, ravail + Len(data), ravail)

\* stream_flush's body: _stream_write(stm, 0, 0, 0) when bytes are
\* buffered; it fails when bytes remain, whatever _stream_write returned.
FlushOutcomes(s) ==
  IF s.b.wpos = s.b.rpos THEN {[s |-> s, ok |-> TRUE]}
  ELSE {[s |-> o.s, ok |-> o.s.b.wpos = o.s.b.rpos] : o \in StreamWriteOutcomes(s, <<>>)}

(***************************************************************************)
(* stream_fill's body: one readv into the buffer's free space and the      *)
(* scratch, then buffer.write(buf, 0, cnt), then, when cnt > space,        *)
(* buffer.write(buf, tmp, cnt - space): the set of [s, ok].                *)
(***************************************************************************)
FillOutcomes(s) ==
  LET space == Len(s.b.mem) - s.b.wpos
  IN {IF r.n = -1 THEN [s |-> r.s, ok |-> FALSE]
      ELSE LET inbuf == [s.b EXCEPT !.mem = B!Store(@, s.b.wpos, SubSeq(r.d, 1, Min2(r.n, space)))]
               counted == WriteNull(inbuf, r.n)
           IN [s |-> [r.s EXCEPT !.b = IF r.n > space
                                       THEN B!WriteBuf(counted, SubSeq(r.d, space + 1, r.n))
                                       ELSE counted],
               ok |-> TRUE]
      : r \in Readv(s, space + ScratchLen)}

\* What the caller's destination holds where nothing was copied.
Garbage(n) == [k \in 1..n |-> Undef]

(***************************************************************************)
(* The while (len > 0) loop of stream_read, `ret` bytes already handed     *)
(* over: the set of [s, ok].  The loop ends when len reaches 0.  The test  *)
(* !readv(...) || cnt == 0 is true when readv succeeds (it returns 0): the *)
(* loop then stops, returning `ret` (or -1 when ret is 0) and dropping     *)
(* what readv stored in dest and in the buffer's free space.  When readv   *)
(* fails, cnt is the uninitialised local: any value.  0 takes the same     *)
(* exit; one above iov[0].iov_len hands over len bytes, the last one       *)
(* *wmem (the byte past the buffer's end, Undef, when wavail is 0); the   *)
(* rest hand over cnt bytes of dest nobody wrote.                          *)
(***************************************************************************)
RECURSIVE ReadLoop(_, _, _)
ReadLoop(s, len, ret) ==
  LET wavail == Len(s.b.mem) - s.b.wpos
      i0 == len - (IF wavail > 0 THEN 1 ELSE 0)
      wbyte == IF wavail > 0 THEN s.b.mem[s.b.wpos + 1] ELSE Undef
      stop(t) == [s |-> t, ok |-> ret > 0]
      spill(r) == IF r.n > i0
                    THEN [r.s EXCEPT !.b.mem = B!Store(@, s.b.wpos, SubSeq(r.d, i0 + 1, r.n))]
                    ELSE r.s
  IN IF len = 0 THEN {[s |-> s, ok |-> TRUE]}
     ELSE UNION {
       IF r.n # -1 THEN {stop(spill(r))}
       ELSE {stop(r.s)}
            \cup UNION {IF cnt > i0
                    THEN {[s |-> [r.s EXCEPT !.got = @ \o Garbage(len - 1) \o <<wbyte>>],
                           ok |-> TRUE]}
                    ELSE ReadLoop([r.s EXCEPT !.got = @ \o Garbage(cnt)], len - cnt, ret + cnt)
                  : cnt \in 1..len + 1}
       : r \in Readv(s, i0 + wavail)}

-----------------------------------------------------------------------------
\* stream_fd_open(fd, 0, bufsize) on a connected socket: buffer_new(bufsize).
Init ==
  /\ B!Init
  /\ inq = <<>> /\ closed = FALSE /\ fdOpen = TRUE
  /\ consumed = <<>> /\ got = <<>>
  /\ wired = 0 /\ attempted = 0 /\ reported = 0
  /\ need = {} /\ lastErr = "none" /\ locked = FALSE /\ faults = 0
  /\ res = [op |-> "none", ok |-> TRUE]

\* A call that takes the stream's spinlock can start.
Caller == ~hung /\ ~locked

\* One locked call ending in outcome o of operation op.
Finish(op, o) ==
  /\ SetSt(o.s)
  /\ res' = [op |-> op, ok |-> o.ok]

\* The peer sends d, or shuts down its side.
PeerSend(d) ==
  /\ ~closed
  /\ Len(consumed) + Len(inq) + Len(d) <= MaxIn
  /\ inq' = inq \o d
  /\ UNCHANGED <<mem, rpos, wpos, hung, closed, fdOpen, consumed, got, wired,
                 attempted, reported, need, lastErr, locked, faults, res>>

PeerClose ==
  /\ ~closed
  /\ closed' = TRUE
  /\ UNCHANGED <<mem, rpos, wpos, hung, inq, fdOpen, consumed, got, wired,
                 attempted, reported, need, lastErr, locked, faults, res>>

\* stream_fill(stm, nread)
Fill ==
  /\ Caller
  /\ \E o \in FillOutcomes(St) : Finish("fill", o)
  /\ UNCHANGED <<hung, closed, fdOpen, attempted, reported, locked>>

\* stream_read's first part: last_err = 0, then buffer.read(buf, dest, len).
ReadStart(len) ==
  LET nr == Min2(len, Avail)
  IN [St EXCEPT !.err = "none", !.got = @ \o SubSeq(B!Readable(B!Buf), 1, nr),
                !.b = BRead(@, nr)]

\* stream_read(stm, dest, len, nread) with dest a caller's buffer.
Read(len) ==
  LET nr == Min2(len, Avail)
  IN /\ Caller
     /\ IF nr = len THEN Finish("read", [s |-> ReadStart(len), ok |-> TRUE])
        ELSE \E o \in ReadLoop(ReadStart(len), len - nr, nr) : Finish("read", o)
     /\ UNCHANGED <<hung, closed, fdOpen, attempted, reported, locked>>

\* stream_read(stm, 0, len, nread): buffer.read discards, then when more
\* was asked than buffered `if (!buf) return -1` leaves the lock held.
ReadDiscard(len) ==
  /\ Caller
  /\ Finish("read", [s |-> ReadStart(len), ok |-> len <= Avail])
  /\ locked' = (len > Avail)
  /\ UNCHANGED <<hung, closed, fdOpen, attempted, reported>>

\* stream_yield(stm, delim, ...): buffer.yield without the lock.
StreamYield(d) ==
  LET n == B!RecordLen(B!Buf, d)
  IN /\ ~hung
     /\ got' = got \o SubSeq(B!Readable(B!Buf), 1, n)
     /\ IF n > 0 THEN B!Set(B!Advance(B!Buf, n)) ELSE UNCHANGED <<mem, rpos, wpos>>
     /\ res' = [op |-> "yield", ok |-> n > 0]
     /\ UNCHANGED <<hung, inq, closed, fdOpen, consumed, wired, attempted, reported,
                    need, lastErr, locked, faults>>

\* stream_set_mask(stm, 0), as _sock_dispatch calls it.
SetMask ==
  /\ ~hung
  /\ need' = {}
  /\ UNCHANGED <<mem, rpos, wpos, hung, inq, closed, fdOpen, consumed, got, wired,
                 attempted, reported, lastErr, locked, faults, res>>

\* stream_write(stm, data, len, nwrote), len > 0 (0 returns at once).
Write(data) ==
  /\ Caller
  /\ attempted + Len(data) <= MaxOut
  /\ attempted' = attempted + Len(data)
  /\ \E o \in StreamWriteOutcomes(St, data) :
        /\ Finish("write", o)
        /\ reported' = IF o.ok THEN reported + Len(data) ELSE reported
  /\ UNCHANGED <<hung, closed, fdOpen, locked>>

\* stream_flush(stm)
Flush ==
  /\ Caller
  /\ \E o \in FlushOutcomes(St) : Finish("flush", o)
  /\ UNCHANGED <<hung, closed, fdOpen, attempted, reported, locked>>

\* fd_seek: lseek(2) on a socket fails, with ESPIPE while the descriptor
\* is open and EBADF once it is closed, and last_err takes errno.
FdSeek(s) == [s EXCEPT !.err = IF fdOpen THEN "ESPIPE" ELSE "EBADF"]

(***************************************************************************)
(* stream_seek(stm, delta, whence, newpos): when stream_flush returns 0    *)
(* the call returns -1; otherwise it sets last_err = 0 and calls fd_seek,  *)
(* whose lseek on a socket fails (ESPIPE, EBADF once closed), and         *)
(* `!seek(...)` being false the call returns 0.                            *)
(***************************************************************************)
Seek ==
  /\ Caller
  /\ \E o \in FlushOutcomes(St) :
       IF o.ok THEN Finish("seek", [o EXCEPT !.ok = FALSE])
       ELSE Finish("seek", [s |-> FdSeek(o.s), ok |-> TRUE])
  /\ UNCHANGED <<hung, closed, fdOpen, attempted, reported, locked>>

\* stream_printf/stream_vprintf: buffer.vprintf without the lock; the
\* caller is told ret bytes were added, and `attempted` counts them.
Vprintf(t) ==
  /\ ~hung
  /\ \E o \in B!PrintfLoop(B!Buf, t) :
       /\ B!Set(o.b)
       /\ hung' = o.hung
       /\ attempted + (o.b.wpos - o.b.rpos) - Avail <= MaxOut
       /\ attempted' = attempted + IF o.hung THEN 0 ELSE (o.b.wpos - o.b.rpos) - Avail
       /\ reported' = reported + IF o.hung THEN 0 ELSE (o.b.wpos - o.b.rpos) - Avail
       /\ res' = [op |-> "printf", ok |-> ~o.hung]
  /\ UNCHANGED <<inq, closed, fdOpen, consumed, got, wired, need, lastErr, locked, faults>>

\* The caller spinning in buffer_vprintf's loop.
Spin == hung /\ UNCHANGED vars

\* stream_close(stm): stream.flush, then fd_close.
Close ==
  /\ Caller
  /\ \E o \in FlushOutcomes(St) :
       IF ~o.ok THEN Finish("close", o) /\ UNCHANGED fdOpen
       ELSE /\ Finish("close", [s |-> [o.s EXCEPT !.err = IF fdOpen THEN @ ELSE "EBADF"],
                                ok |-> fdOpen])
            /\ fdOpen' = FALSE
  /\ UNCHANGED <<hung, closed, attempted, reported, locked>>

\* A stream that is only read (a socket's istm) ...
NextIn ==
  \/ \E d \in B!Payloads : PeerSend(d)
  \/ PeerClose
  \/ Fill
  \/ \E len \in 1..MaxLen : Read(len) \/ ReadDiscard(len)
  \/ \E d \in Delims : StreamYield(d)
  \/ SetMask

\* ... and one that is only written (a socket's ostm).
NextOut ==
  \/ \E d \in B!Payloads : Write(d)
  \/ Flush
  \/ Seek
  \/ \E t \in B!Payloads : Vprintf(t)
  \/ Spin
  \/ Close

SpecIn == Init /\ [][NextIn]_vars
SpecOut == Init /\ [][NextOut]_vars

-----------------------------------------------------------------------------
TypeOK ==
  /\ B!TypeOK
  /\ Avail \in 0..MaxSize
  /\ inq \in Seq(Bytes) /\ consumed \in Seq(Bytes) /\ got \in Seq(B!AllBytes)
  /\ closed \in BOOLEAN /\ fdOpen \in BOOLEAN /\ locked \in BOOLEAN
  /\ wired \in Nat /\ attempted \in 0..MaxOut /\ reported \in 0..MaxOut
  /\ need \subseteq {"R", "W"}
  /\ lastErr \in {"none", "EAGAIN", "EIO", "EBADF", "ESPIPE"}
  /\ faults \in 0..MaxFaults
  /\ res \in [op : {"none", "fill", "read", "yield", "write", "flush", "seek", "printf", "close"},
              ok : BOOLEAN]

(* Output accounting across _stream_write's partial writev loop, flush    *)
(* and close: every byte a write or printf reported written is on the     *)
(* wire or still buffered, and no byte is sent or kept twice: the wire    *)
(* plus the backlog lies between what the stream reported and what        *)
(* callers handed it.                                                     *)
OutputAccounted == reported <= wired + Avail /\ wired + Avail <= attempted

(* Every byte readv took from the socket reaches the caller exactly once  *)
(* and in order: what read/yield handed over, followed by the buffered    *)
(* bytes, is what the socket delivered (spec.md 4.2: fill and read split  *)
(* one readv between the buffer and the destination).                    *)
InputIntact == got \o B!Readable(B!Buf) = consumed

====
