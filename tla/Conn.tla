-------------------------------- MODULE Conn --------------------------------
(***************************************************************************)
(* The connection layer on one event loop: the listener of src/listener.c, *)
(* the connector of src/connector.c and the socket dispatch of             *)
(* src/socket.c, driven by the application of src/test.c (an echo server   *)
(* that connects to itself), over eventpoll_apply/eventpoll_poll of        *)
(* src/epoll.c and a model of the kernel's sockets and epoll instance.     *)
(*                                                                         *)
(* Everything here runs on the loop thread, so eventloop_apply is          *)
(* eventpoll_apply (the cross-thread queue is EventLoop's subject).  A     *)
(* callback runs inside the dispatch step that delivers its event: the     *)
(* loop thread does nothing else meanwhile.                                *)
(*                                                                         *)
(* k[f] is the kernel's side of descriptor f: its kind, TCP state, accept  *)
(* queue q (client descriptors), tx (what it has sent that its peer has    *)
(* not read: "none", "data" or "eof"), wr (send buffer has room), peer,    *)
(* and its epoll item: reg (whose event_t data.ptr points at: LOwner,     *)
(* COwner or a socket index), emask (registered EPOLL* bits) and rdy (on the ready   *)
(* list).  lev, cev and socks[i] are the event_t fields of the listener,   *)
(* the connector and each socket_t (mask, last = last_mask) with their     *)
(* own flags.  cbs logs every connector completion callback.               *)
(***************************************************************************)
EXTENDS Integers, Sequences, SequencesExt

CONSTANTS
  MaxFds,       \* descriptors the process may hold (RLIMIT_NOFILE)
  Backlog,      \* the listener's accept queue capacity
  MaxConnects,  \* bound on connector_connect calls in test.c's chain
  MaxShorts     \* bound on short sends: the peer's receive window fills

VARIABLES k, lev, cev, socks, cbs, connects, running, phase, shorts

vars == <<k, lev, cev, socks, cbs, connects, running, phase, shorts>>

NoFd == 0   \* the -1 of an absent descriptor

\* What an epoll item's data.ptr points at: the listener's or the
\* connector's event_t, or socket i's (i >= 1); NoOwner: no item.
LOwner == -1
COwner == -2
NoOwner == 0
Fds == 1..MaxFds

\* DEFAULT_POLL_MASK: EPOLLHUP | EPOLLERR | EPOLLET
Dflt == {"HUP", "ERR", "ET"}
EpollBits == {"IN", "OUT", "ERR", "HUP", "ET"}

\* The switch at the top of eventpoll_apply.
OsMask(m) ==
  IF m \cap {"R", "W"} = {} THEN {}
  ELSE Dflt \cup (IF "R" \in m THEN {"IN"} ELSE {}) \cup (IF "W" \in m THEN {"OUT"} ELSE {})

\* Mutant: the epoll flags are stored untranslated.
ReadyMaskRaw(f) == f

\* The switch in eventpoll_poll.
ReadyMask(f) ==
  CASE f = {"IN"}        -> {"R"}
    [] f = {"OUT"}       -> {"W"}
    [] f = {"IN", "OUT"} -> {"R", "W"}
    [] OTHER             -> {"E"}

\* What epoll reports for a registration: its bits, with ERR and HUP always.
Watch(em) == (em \cap {"IN", "OUT"}) \cup {"ERR", "HUP"}

FreeFd == [kind |-> "free", st |-> "none", q |-> <<>>, tx |-> "none", wr |-> FALSE,
           peer |-> NoFd, reg |-> NoOwner, emask |-> {}, rdy |-> FALSE]

\* The poll flags of a descriptor (tcp_poll): a listener is readable with a
\* queued connection; a connected socket is writable with send-buffer room
\* and readable when its peer has sent data or FIN; a refused connect has
\* sk_err set and both directions shut; a socket whose connect failed at
\* once is closed; one shut down by shutdown(SHUT_RDWR) reads EOF.
Level(kk, f) ==
  LET r == kk[f]
      rx == r.peer # NoFd /\ kk[r.peer].tx # "none"
  IN CASE r.kind = "listen"     -> IF r.q # <<>> THEN {"IN"} ELSE {}
       [] r.st = "connected"    -> (IF r.wr THEN {"OUT"} ELSE {}) \cup (IF rx THEN {"IN"} ELSE {})
       [] r.st = "refused"      -> {"IN", "ERR", "HUP"}
       [] r.st = "unconnected"  -> {"OUT", "HUP"}
       [] r.st = "shut"         -> {"IN", "HUP"}
       [] OTHER                 -> {}

\* A wakeup of f's wait queue with the poll bits ev (ep_poll_callback):
\* with EPOLLET, every wakeup whose bits the registration watches puts the
\* item on the ready list again; others are filtered out.
Wake(kk, f, ev) ==
  IF f = NoFd THEN kk
  ELSE [kk EXCEPT ![f].rdy = @ \/ (kk[f].reg # NoOwner /\ ev \cap Watch(kk[f].emask) # {})]

\* The lowest free descriptor, as socket() and accept4() return it.
FreshFd(kk) ==
  IF \E f \in Fds : kk[f].kind = "free" THEN Min({f \in Fds : kk[f].kind = "free"}) ELSE NoFd

\* socket_for_addr: socket() and, through socket_nonblock, FD_CLOEXEC and
\* O_NONBLOCK.  Every descriptor of the model is non-blocking, so what is
\* left is the number socket() returns, or -1 (NoFd) on EMFILE.
SocketForAddr(kk) == FreshFd(kk)

-----------------------------------------------------------------------------
(* The loop-side state as one record, so that calls nest (a callback that  *)
(* connects again) as operators from a state to its possible successors.  *)
St == [k |-> k, lev |-> lev, cev |-> cev, socks |-> socks, cbs |-> cbs,
       connects |-> connects, running |-> running, shorts |-> shorts]

SetSt(t) ==
  /\ k' = t.k /\ lev' = t.lev /\ cev' = t.cev /\ socks' = t.socks
  /\ cbs' = t.cbs /\ connects' = t.connects /\ running' = t.running
  /\ shorts' = t.shorts

EvOf(s, o) == CASE o = LOwner -> s.lev [] o = COwner -> s.cev [] OTHER -> s.socks[o]

SetEv(s, o, r) ==
  CASE o = LOwner -> [s EXCEPT !.lev = r]
    [] o = COwner -> [s EXCEPT !.cev = r]
    [] OTHER   -> [s EXCEPT !.socks[o] = r]

(***************************************************************************)
(* eventpoll_apply for owner o's event: nothing when the epoll mask equals *)
(* last_mask; EPOLL_CTL_DEL by descriptor (whoever registered it) for an   *)
(* empty mask, last_mask kept; otherwise last_mask := newmask, then MOD    *)
(* when last_mask was set (ENOENT if not registered) or ADD, retried as    *)
(* MOD on EEXIST.  ADD and MOD point the item at o and poll the file, so   *)
(* a descriptor already ready is queued at once.  On fd -1 epoll_ctl fails *)
(* with EBADF.                                                             *)
(***************************************************************************)
\* Mutant: an EEXIST from EPOLL_CTL_ADD is returned instead of retried as MOD.
ApplyNoEexist(s, o) ==
  LET r == EvOf(s, o)
      nm == OsMask(r.mask)
      f == r.fd
      kk == IF nm = r.last \/ f = NoFd THEN s.k
            ELSE IF nm = {} THEN [s.k EXCEPT ![f] = [@ EXCEPT !.reg = NoOwner, !.emask = {}, !.rdy = FALSE]]
            ELSE IF s.k[f].reg = NoOwner /\ r.last # {} THEN s.k
            ELSE IF s.k[f].reg # NoOwner /\ r.last = {} THEN s.k
            ELSE LET k2 == [s.k EXCEPT ![f] = [@ EXCEPT !.reg = o, !.emask = nm]] IN Wake(k2, f, Level(k2, f))
  IN [SetEv(s, o, [r EXCEPT !.last = IF nm = r.last \/ nm = {} THEN r.last ELSE nm]) EXCEPT !.k = kk]

Apply(s, o) ==
  LET r == EvOf(s, o)
      nm == OsMask(r.mask)
      f == r.fd
      kk == IF nm = r.last \/ f = NoFd THEN s.k
            ELSE IF nm = {} THEN [s.k EXCEPT ![f] = [@ EXCEPT !.reg = NoOwner, !.emask = {}, !.rdy = FALSE]]
            ELSE IF s.k[f].reg = NoOwner /\ r.last # {} THEN s.k
            ELSE LET k2 == [s.k EXCEPT ![f] = [@ EXCEPT !.reg = o, !.emask = nm]] IN Wake(k2, f, Level(k2, f))
  IN [SetEv(s, o, [r EXCEPT !.last = IF nm = r.last \/ nm = {} THEN r.last ELSE nm]) EXCEPT !.k = kk]

-----------------------------------------------------------------------------
(* listener_bind: the first call creates the listening descriptor          *)
(* (socket_.for_addr), then bind() succeeds or fails (EADDRINUSE); main    *)
(* ignores the result.                                                     *)
ListenerBind(s) ==
  LET f == IF s.lev.fd = NoFd THEN SocketForAddr(s.k) ELSE s.lev.fd
      s1 == IF s.lev.fd = NoFd
              THEN [s EXCEPT !.lev.fd = f, !.k[f] = [FreeFd EXCEPT !.kind = "listen", !.st = "idle"]]
              ELSE s
  IN IF f = NoFd THEN {s}
     ELSE {s1, [s1 EXCEPT !.k[f].st = "bound"]}

(* listener_enable: early return when already in that state; the mask is  *)
(* written first; listen() once (it fails on fd -1 and the call returns    *)
(* -1 with the mask changed); then eventloop.apply and enabled := enable.  *)
ListenerEnable(s, en) ==
  IF s.lev.enabled = en THEN s
  ELSE LET s1 == [s EXCEPT !.lev.mask = IF en THEN {"R"} ELSE {}]
           s2 == IF s1.lev.listening THEN s1
                 ELSE [s1 EXCEPT !.lev.listening = TRUE, !.k[s1.lev.fd].st = "listening"]
       IN IF ~s1.lev.listening /\ s1.lev.fd = NoFd THEN s1
          ELSE [Apply(s2, LOwner) EXCEPT !.lev.enabled = en]

Accepting(kk, lf) == lf # NoFd /\ kk[lf].st = "listening" /\ Len(kk[lf].q) < Backlog

\* event_init(ev, fd, mask, cb, ud): last_mask 0 (the callback is the
\* owner, which Apply's second argument names).
EventInit(f, m) == [fd |-> f, mask |-> m, last |-> {}]

\* socket_new_from_fd: an event_t with EVMASK_NONE and two fd streams.
NewSock(f) == EventInit(f, {}) @@ [enabled |-> FALSE, freed |-> FALSE,
                                  pend |-> FALSE, inbuf |-> FALSE]

\* socket_enable: early return when unchanged; mask READ or NONE; apply.
SockEnable(s, i, en) ==
  IF s.socks[i].enabled = en THEN s
  ELSE Apply([s EXCEPT !.socks[i].enabled = en, !.socks[i].mask = IF en THEN {"R"} ELSE {}], i)

(* stream_flush of socket i's output stream (pend: bytes buffered).  On a  *)
(* connected descriptor with send-buffer room writev sends all, or a part  *)
(* that fills the send buffer and the next writev fails with EAGAIN; on a  *)
(* full buffer (EAGAIN) or a descriptor that is not connected (EPIPE,      *)
(* ENOTCONN) nothing is sent.  It fails (-1) whenever bytes remain.  A    *)
(* short send fills the send buffer, at most MaxShorts times in a run.    *)
Flush(s, i) ==
  LET f == s.socks[i].fd
      r == s.k[f]
  IN IF ~s.socks[i].pend THEN {s}
     ELSE IF r.st = "connected" /\ r.wr
       THEN {[s EXCEPT !.k = Wake([s.k EXCEPT ![f].tx = "data", ![f].wr = ~short], r.peer, {"IN"}),
                       !.socks[i].pend = short, !.shorts = IF short THEN @ + 1 ELSE @] :
             short \in IF s.shorts < MaxShorts THEN BOOLEAN ELSE {FALSE}}
     ELSE {s}

(* try_read: stream_fill of the input stream.  Nothing to read is EAGAIN   *)
(* (0); data is read in part or in whole; EOF (readv returns 0) and a      *)
(* descriptor that is not connected fail with an error other than EAGAIN. *)
Fill(s, i) ==
  LET f == s.socks[i].fd
      p == s.k[f].peer
      rx == IF p = NoFd THEN "none" ELSE s.k[p].tx
  IN IF s.k[f].st = "connected" /\ rx = "none" THEN {[s |-> s, ok |-> TRUE]}
     ELSE IF s.k[f].st = "connected" /\ rx = "data"
       THEN {[s |-> [s EXCEPT !.k[p].tx = left, !.socks[i].inbuf = TRUE], ok |-> TRUE] :
             left \in {"none", "data"}}
     ELSE {[s |-> s, ok |-> FALSE]}

(* test.c's ecprocessor on an error: socket_.enable(sock, 0), shutdown     *)
(* (SHUT_RDWR: FIN to the peer), socket_.free (which closes nothing) and  *)
(* eventloop.exit.                                                         *)
Disconnect(s, i) ==
  LET s1 == SockEnable(s, i, FALSE)
      f == s.socks[i].fd
      kk == IF s1.k[f].st = "connected"
              THEN Wake([s1.k EXCEPT ![f].st = "shut", ![f].tx = "eof"], s1.k[f].peer, {"IN"})
              ELSE s1.k
  IN [s1 EXCEPT !.k = kk, !.socks[i].freed = TRUE, !.running = FALSE]

(* test.c's ecprocessor otherwise: stream.yield for a CRLF record; when    *)
(* one is found, stream.printf echoes it and stream.flush sends it (its    *)
(* result ignored).  A record can be found only after a fill read data.   *)
EcProcessor(s, i, why) ==
  IF why \cap {"E", "T"} # {} THEN {Disconnect(s, i)}
  ELSE IF s.socks[i].inbuf
    THEN {s} \cup Flush([s EXCEPT !.socks[i].inbuf = FALSE, !.socks[i].pend = TRUE], i)
  ELSE {s}

(* _sock_dispatch: stream.set_mask(istm, 0); try_write when W is set and   *)
(* E is not, E on failure; try_read when R is set and E is not, E on      *)
(* failure; then the socket's callback with the mask.                      *)
SockDispatch(s, i, m) ==
  LET wOut == IF m \cap {"W", "E"} = {"W"}
                THEN {[s |-> t, m |-> IF t.socks[i].pend THEN m \cup {"E"} ELSE m] : t \in Flush(s, i)}
                ELSE {[s |-> s, m |-> m]}
      rOut == UNION {IF w.m \cap {"R", "E"} = {"R"}
                       THEN {[s |-> x.s, m |-> IF x.ok THEN w.m ELSE w.m \cup {"E"}] : x \in Fill(w.s, i)}
                       ELSE {w} : w \in wOut}
  IN UNION {EcProcessor(x.s, i, x.m) : x \in rOut}

-----------------------------------------------------------------------------
(* The connector's completion callback conct->cb(conct, err, sock): logged *)
(* with whether the descriptor is really connected; a socket_t is built    *)
(* (socket_.new) only for err = 0.                                         *)
Report(s, err, f) ==
  [s EXCEPT !.cbs = Append(@, [err |-> err, connected |-> f # NoFd /\ s.k[f].st = "connected"]),
            !.socks = IF err = "0" THEN Append(@, NewSock(f)) ELSE @]

RECURSIVE Connect(_), Connected(_, _, _)

(* test.c's connected(): nothing on an error; otherwise enable the socket, *)
(* stream.printf a greeting and stream.flush it, then connector.connect    *)
(* again (the chain is cut after MaxConnects calls).                       *)
Connected(s, err, i) ==
  IF err # "0" THEN {s}
  ELSE UNION {IF t.connects < MaxConnects THEN Connect(t) ELSE {t} :
              t \in Flush([SockEnable(s, i, TRUE) EXCEPT !.socks[i].pend = TRUE], i)}

(***************************************************************************)
(* connector_connect: socket_.for_addr (EMFILE: cb(errno, 0)), then a      *)
(* non-blocking connect().  EINPROGRESS: event.init(&conct->ev, fd,        *)
(* EVMASK_WRITE) and eventloop.apply, resolved later by the kernel.  Any   *)
(* other result (an immediate success, as AF_UNIX gives when the listener  *)
(* has room, or an immediate failure otherwise) goes on to                 *)
(* sockaddr.sockname, which succeeds on any socket, and cb(conct, 0, sock).*)
(***************************************************************************)
\* Mutant: the EINPROGRESS branch arms the event without eventloop.apply.
ConnectNoApply(s) ==
  LET s0 == [s EXCEPT !.connects = @ + 1]
      f == SocketForAddr(s.k)
      s1 == [s0 EXCEPT !.k[f] = [FreeFd EXCEPT !.kind = "stream", !.st = "connecting"]]
  IN IF f = NoFd THEN Connected(Report(s0, "err", NoFd), "err", 0)
     ELSE {[s1 EXCEPT !.cev = EventInit(f, {"W"})]}

Connect(s) ==
  LET s0 == [s EXCEPT !.connects = @ + 1]
      f == SocketForAddr(s.k)
      lf == s.lev.fd
      s1 == [s0 EXCEPT !.k[f] = [FreeFd EXCEPT !.kind = "stream", !.st = "connecting"]]
      now == IF Accepting(s.k, lf)
               THEN [s1 EXCEPT !.k = Wake([s1.k EXCEPT ![f].st = "connected", ![f].wr = TRUE,
                                                      ![lf].q = Append(@, f)], lf, {"IN"})]
               ELSE [s1 EXCEPT !.k[f].st = "unconnected"]
  IN IF f = NoFd THEN Connected(Report(s0, "err", NoFd), "err", 0)
     ELSE {Apply([s1 EXCEPT !.cev = EventInit(f, {"W"})], COwner)}
          \cup Connected(Report(now, "0", f), "0", Len(now.socks) + 1)

(* _connector_dispatch: a TIME mask reports ETIMEDOUT; otherwise           *)
(* getsockopt(SO_ERROR) succeeds on the descriptor and its result is       *)
(* overwritten by sockaddr.sockname's 0, so a socket_t is built and        *)
(* cb(conct, 0, sock) runs whatever the connect's outcome.                 *)
ConnDispatch(s, m) ==
  IF m = {"T"} THEN Connected(Report(s, "ETIMEDOUT", NoFd), "ETIMEDOUT", 0)
  ELSE Connected(Report(s, "0", s.cev.fd), "0", Len(s.socks) + 1)

(* _accept_dispatch: one accept4() per delivery.  An empty queue (EAGAIN)  *)
(* or no free descriptor (EMFILE) is logged and swallowed; otherwise a     *)
(* socket_t is built for the new descriptor and test.c's acceptor enables  *)
(* it.                                                                     *)
AcceptDispatch(s) ==
  LET lf == s.lev.fd
      q == s.k[lf].q
      n == FreshFd(s.k)
  IN IF q = <<>> \/ n = NoFd THEN {s}
     ELSE LET c == Head(q)
              s1 == [s EXCEPT !.k[n] = [FreeFd EXCEPT !.kind = "stream", !.st = "connected",
                                                      !.wr = TRUE, !.peer = c],
                              !.k[c].peer = n, !.k[lf].q = Tail(q),
                              !.socks = Append(@, NewSock(n))]
          IN {SockEnable(s1, Len(s1.socks), TRUE)}

-----------------------------------------------------------------------------
Init ==
  /\ k = [f \in Fds |-> FreeFd]
  /\ lev = EventInit(NoFd, {"R"}) @@ [enabled |-> FALSE, listening |-> FALSE]
  /\ cev = EventInit(NoFd, {})
  /\ socks = <<>>
  /\ cbs = <<>>
  /\ connects = 0
  /\ running = TRUE
  /\ phase = "bind"
  /\ shorts = 0

\* test.c main, in order: listener.bind, listener.enable(1),
\* connector.connect, eventloop.loop.
Bind ==
  /\ phase = "bind" /\ phase' = "enable"
  /\ \E t \in ListenerBind(St) : SetSt(t)

Enable ==
  /\ phase = "enable" /\ phase' = "connect"
  /\ SetSt(ListenerEnable(St, TRUE))

StartConnect ==
  /\ phase = "connect" /\ phase' = "loop"
  /\ \E t \in Connect(St) : SetSt(t)

(* eventpoll_poll returns f (epoll_wait re-polls the file and reports the  *)
(* current flags it watches; none left and f is dropped from the list);    *)
(* last_mask := DEFAULT_POLL_MASK, mask := the translated flags, and the   *)
(* owner's callback runs.                                                  *)
Dispatch(f) ==
  /\ phase = "loop" /\ running
  /\ k[f].rdy /\ k[f].reg # NoOwner
  /\ LET flags == Level(k, f) \cap Watch(k[f].emask)
         o == k[f].reg
         s0 == [St EXCEPT !.k[f].rdy = FALSE]
         m == ReadyMask(flags)
         s1 == SetEv(s0, o, [EvOf(s0, o) EXCEPT !.last = Dflt, !.mask = m])
     IN IF flags = {} THEN SetSt(s0)
        ELSE \E t \in CASE o = LOwner -> AcceptDispatch(s1)
                        [] o = COwner -> ConnDispatch(s1, m)
                        [] OTHER   -> SockDispatch(s1, o, m) : SetSt(t)
  /\ UNCHANGED phase

\* The kernel completes a pending connect: the handshake is queued on the
\* listener when it listens with room, otherwise it is refused (RST, or
\* SYN retries timing out).
Resolve(f) ==
  /\ k[f].st = "connecting"
  /\ LET lf == lev.fd IN
     \/ /\ Accepting(k, lf)
        /\ k' = Wake(Wake([k EXCEPT ![f].st = "connected", ![f].wr = TRUE, ![lf].q = Append(@, f)], f, {"OUT"}), lf, {"IN"})
     \/ /\ ~Accepting(k, lf)
        /\ k' = Wake([k EXCEPT ![f].st = "refused"], f, {"IN", "OUT", "ERR", "HUP"})
  /\ UNCHANGED <<lev, cev, socks, cbs, connects, running, phase, shorts>>

\* The peer reads, freeing room in f's full send buffer (an EPOLLOUT wakeup).
Drain(f) ==
  /\ k[f].st = "connected" /\ ~k[f].wr
  /\ k' = Wake([k EXCEPT ![f].wr = TRUE], f, {"OUT"})
  /\ UNCHANGED <<lev, cev, socks, cbs, connects, running, phase, shorts>>

\* while (SYNC_GET(loop->running)) ends after ecprocessor's eventloop.exit.
Exit ==
  /\ phase = "loop" /\ ~running /\ phase' = "exited"
  /\ UNCHANGED <<k, lev, cev, socks, cbs, connects, running, shorts>>

Next ==
  \/ Bind \/ Enable \/ StartConnect \/ Exit
  \/ \E f \in Fds : Dispatch(f) \/ Resolve(f) \/ Drain(f)

(* The loop thread runs whenever epoll_wait has something to return, and   *)
(* the kernel resolves every connect (by handshake, RST or timeout).       *)
Fairness ==
  /\ WF_vars(Bind) /\ WF_vars(Enable) /\ WF_vars(StartConnect) /\ WF_vars(Exit)
  /\ \A f \in Fds : WF_vars(Dispatch(f)) /\ WF_vars(Resolve(f))

Spec == Init /\ [][Next]_vars /\ Fairness

\* The peer also keeps reading what it is sent.
SpecDrain == Spec /\ \A f \in Fds : WF_vars(Drain(f))

-----------------------------------------------------------------------------
Owners == {LOwner, COwner, NoOwner} \cup (1..2 * MaxFds)

TypeOK ==
  /\ k \in [Fds -> [kind : {"free", "listen", "stream"},
                    st : {"none", "idle", "bound", "listening", "connecting", "connected",
                          "refused", "unconnected", "shut"},
                    q : Seq(Fds), tx : {"none", "data", "eof"}, wr : BOOLEAN,
                    peer : 0..MaxFds, reg : Owners, emask : SUBSET EpollBits, rdy : BOOLEAN]]
  /\ lev \in [fd : 0..MaxFds, mask : SUBSET {"R", "W", "E", "T"}, last : SUBSET EpollBits,
              enabled : BOOLEAN, listening : BOOLEAN]
  /\ cev \in [fd : 0..MaxFds, mask : SUBSET {"R", "W", "E", "T"}, last : SUBSET EpollBits]
  /\ \A i \in DOMAIN socks :
       socks[i] \in [fd : Fds, mask : SUBSET {"R", "W", "E", "T"}, last : SUBSET EpollBits,
                     enabled : BOOLEAN, freed : BOOLEAN, pend : BOOLEAN, inbuf : BOOLEAN]
  /\ cbs \in Seq([err : {"0", "err", "ETIMEDOUT"}, connected : BOOLEAN])
  /\ connects \in 0..MaxConnects /\ running \in BOOLEAN /\ shorts \in 0..MaxShorts
  /\ phase \in {"bind", "enable", "connect", "loop", "exited"}

Live(i) == ~socks[i].freed

Pending(i) == i \in DOMAIN socks /\ socks[i].pend

(* No two live socket_t objects share a descriptor.  The connector's       *)
(* registration of a connecting descriptor stays in epoll after its       *)
(* callback; only test.c's socket_.enable (ADD, EEXIST, then MOD) moves   *)
(* the item to the new socket, so a later wakeup must not reach the       *)
(* connector again and build a second socket_t for the same descriptor.   *)
SocketPerFd ==
  \A i, j \in DOMAIN socks : i # j /\ Live(i) /\ Live(j) => socks[i].fd # socks[j].fd

(* Every connect call is eventually answered by its callback, unless the  *)
(* loop has exited (spec.md 4.6, "always fires exactly once").             *)
ConnectResolves == (connects > Len(cbs)) ~> (connects = Len(cbs) \/ ~running)

(* Bytes a live socket buffered for output are eventually sent, while the *)
(* loop runs and its peer keeps reading (spec.md 4.4: write interest is    *)
(* armed while output is pending).                                         *)
OutputDelivered ==
  \A i \in 1..2 * MaxFds : Pending(i) /\ running ~> ~Pending(i) \/ ~running

=============================================================================
