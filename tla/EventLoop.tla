------------------------------ MODULE EventLoop ------------------------------
(***************************************************************************)
(* The event loop of src/eventloop.c over the epoll multiplexer of         *)
(* src/epoll.c, with the kernel's side of epoll as the environment.        *)
(*                                                                         *)
(* One loop thread (the thread that ran eventloop_init, "the owner") runs  *)
(* eventloop_loop: epoll_wait, dispatch of every returned event to its     *)
(* callback, then `panding`, which applies the events other threads queued *)
(* through eventloop_apply.  Other threads set an event's mask and call    *)
(* eventloop_apply, which queues the event under panding_lock and writes   *)
(* the eventfd that wakes epoll_wait.                                      *)
(*                                                                         *)
(* evs[e] joins the event_t fields (mask, last_mask) with what the kernel  *)
(* keeps for its descriptor: kern, the registered epoll mask ({} when the  *)
(* fd is not in the interest list) and ready, the flags epoll has queued   *)
(* for it.  Masks are sets: "R","W","E" for EVMASK_READ/WRITE/ERROR and    *)
(* "IN","OUT","ERR","HUP","ET" for the EPOLL* bits.  `want` and `handed`   *)
(* are history: the interest the last caller asked for, and the events     *)
(* handed to apply_panding since the last drain.                           *)
(***************************************************************************)
EXTENDS Integers, Sequences, SequencesExt

CONSTANTS
  Events,     \* the event_t objects of sockets, listeners and connectors
  Others,     \* threads other than the loop thread
  Interests,  \* the masks callers set before eventloop_apply
  WakeEv,     \* the eventfd's event_t (poll->wakev)
  MaxCalls,   \* bound on eventloop_apply/eventloop_exit calls by all callers
  MaxEdges    \* bound on readiness edges the kernel raises

VARIABLES evs, want, pandings, handed, lpc, batch, running, wakeRdy, opc, otgt,
          calls, edges

vars == <<evs, want, pandings, handed, lpc, batch, running, wakeRdy, opc, otgt,
          calls, edges>>

\* DEFAULT_POLL_MASK: EPOLLHUP | EPOLLERR | EPOLLET
Dflt == {"HUP", "ERR", "ET"}

\* The readiness flags the kernel can raise for a descriptor.
Flags == {{"IN"}, {"OUT"}, {"ERR"}}

\* The switch at the top of eventpoll_apply: the epoll mask for a mask.
OsMask(m) ==
  IF m \cap {"R", "W"} = {} THEN {}
  ELSE Dflt \cup (IF "R" \in m THEN {"IN"} ELSE {}) \cup (IF "W" \in m THEN {"OUT"} ELSE {})

\* Mutant: the epoll flags are stored untranslated.
ReadyMaskRaw(f) == f

\* The switch in eventpoll_poll: epoll flags back to an EVMASK.
ReadyMask(f) ==
  CASE f = {"IN"}        -> {"R"}
    [] f = {"OUT"}       -> {"W"}
    [] f = {"IN", "OUT"} -> {"R", "W"}
    [] OTHER             -> {"E"}

(***************************************************************************)
(* eventpoll_apply(poll, ev): nothing when the epoll mask equals           *)
(* last_mask; EPOLL_CTL_DEL for an empty mask (ENOENT ignored, last_mask   *)
(* kept); otherwise last_mask := newmask and EPOLL_CTL_MOD when last_mask  *)
(* was set (ENOENT when the fd is not registered), else EPOLL_CTL_ADD      *)
(* (EEXIST retried as MOD).                                                *)
(***************************************************************************)
EpollApply(r) ==
  LET nm == OsMask(r.mask)
  IN IF nm = r.last THEN r
     ELSE IF nm = {} THEN [r EXCEPT !.kern = {}, !.ready = {}]
     ELSE IF r.last # {}
       THEN [r EXCEPT !.last = nm, !.kern = IF r.kern # {} THEN nm ELSE {}]
     ELSE [r EXCEPT !.last = nm, !.kern = nm]

\* A caller on the loop thread: ev->mask = m; eventloop_apply(loop, ev),
\* which finds loop->me == thread.self() and calls eventpoll_apply.
OwnerApply(es, x, m) == [es EXCEPT ![x] = EpollApply([@ EXCEPT !.mask = m])]

\* apply_panding: head == tail holds for the empty queue and for a queue of
\* one event, and both cases restart the queue at ev.
Enqueued(q, e) == IF Len(q) <= 1 THEN <<e>> ELSE Append(q, e)

\* The body of `panding`: eventpoll_apply on every queued event in order.
RECURSIVE ApplyAll(_, _)
ApplyAll(es, q) ==
  IF q = <<>> THEN es
  ELSE ApplyAll([es EXCEPT ![Head(q)] = EpollApply(@)], Tail(q))

-----------------------------------------------------------------------------
Init ==
  /\ evs = [e \in Events |-> [mask |-> {}, last |-> {}, kern |-> {}, ready |-> {}]]
  /\ want = [e \in Events |-> {}]
  /\ pandings = <<>>
  /\ handed = {}
  /\ lpc = "setup"
  /\ batch = <<>>
  /\ running = TRUE
  /\ wakeRdy = FALSE
  /\ opc = [t \in Others |-> "idle"]
  /\ otgt = [t \in Others |-> CHOOSE e \in Events : TRUE]
  /\ calls = 0
  /\ edges = 0

\* A caller may make one more call.
Call == calls < MaxCalls /\ calls' = calls + 1

\* Before eventloop_loop the owner registers events (listener.enable etc.).
SetupApply(x, m) ==
  /\ lpc = "setup"
  /\ Call
  /\ evs' = OwnerApply(evs, x, m)
  /\ want' = [want EXCEPT ![x] = m]
  /\ UNCHANGED <<pandings, handed, lpc, batch, running, wakeRdy, opc, otgt, edges>>

StartLoop ==
  /\ lpc = "setup"
  /\ lpc' = "check"
  /\ UNCHANGED <<evs, want, pandings, handed, batch, running, wakeRdy, opc, otgt, calls, edges>>

\* while (SYNC_GET(loop->running))
Check ==
  /\ lpc = "check"
  /\ lpc' = IF running THEN "poll" ELSE "exited"
  /\ UNCHANGED <<evs, want, pandings, handed, batch, running, wakeRdy, opc, otgt, calls, edges>>

\* eventpoll_new registers the eventfd with EPOLLIN | EPOLLET and data.ptr
\* = &poll->wakev, so a write to it makes epoll_wait return that item.
WakevItems == IF wakeRdy THEN {[ev |-> WakeEv, flags |-> {"IN"}]} ELSE {}

\* wake_cb reads the eventfd's counter and touches no event.
WakeCb == evs

\* epoll_wait(..., -1) in eventpoll_poll: blocks until something is ready,
\* then returns every ready descriptor in some order and, the registration
\* being edge-triggered, takes them off the ready list.
Poll ==
  LET items == {[ev |-> e, flags |-> evs[e].ready] : e \in {x \in Events : evs[x].ready # {}}}
               \cup WakevItems
  IN /\ lpc = "poll"
     /\ items # {}
     /\ batch' \in SetToSeqs(items)
     /\ evs' = [e \in Events |-> [evs[e] EXCEPT !.ready = {}]]
     /\ wakeRdy' = FALSE
     /\ lpc' = "dispatch"
     /\ UNCHANGED <<want, pandings, handed, running, opc, otgt, calls, edges>>

(***************************************************************************)
(* One iteration of eventpoll_poll's loop: ev->last_mask =                 *)
(* DEFAULT_POLL_MASK, ev->mask = the readiness, then _dispatch calls       *)
(* ev->cb.  wake_cb only reads the eventfd.  Any other callback may        *)
(* re-arm or disarm an event of this loop (socket_.enable and the like) or *)
(* call eventloop_exit, or neither.                                        *)
(***************************************************************************)
Dispatch ==
  LET it == Head(batch)
      fired == IF it.ev = WakeEv THEN WakeCb
               ELSE [evs EXCEPT ![it.ev].last = Dflt, ![it.ev].mask = ReadyMask(it.flags)]
  IN /\ lpc = "dispatch"
     /\ batch # <<>>
     /\ batch' = Tail(batch)
     /\ \/ evs' = fired /\ UNCHANGED <<want, running, calls>>
        \/ it.ev # WakeEv /\ Call /\ \E x \in Events, m \in Interests :
              evs' = OwnerApply(fired, x, m) /\ want' = [want EXCEPT ![x] = m]
              /\ UNCHANGED running
        \/ it.ev # WakeEv /\ Call /\ evs' = fired /\ running' = FALSE /\ UNCHANGED want
     /\ UNCHANGED <<pandings, handed, lpc, wakeRdy, opc, otgt, edges>>

EndDispatch ==
  /\ lpc = "dispatch"
  /\ batch = <<>>
  /\ lpc' = "drain"
  /\ UNCHANGED <<evs, want, pandings, handed, batch, running, wakeRdy, opc, otgt, calls, edges>>

\* panding(loop): under panding_lock, apply the queued events and empty it.
Drain ==
  /\ lpc = "drain"
  /\ evs' = ApplyAll(evs, pandings)
  /\ pandings' = <<>>
  /\ handed' = {}
  /\ lpc' = "check"
  /\ UNCHANGED <<want, batch, running, wakeRdy, opc, otgt, calls, edges>>

(* Another thread: the caller's `ev->mask = m` (socket_enable and the     *)
(* like), unsynchronised with the loop thread.                            *)
SetMask(t, x, m) ==
  /\ opc[t] = "idle"
  /\ Call
  /\ evs' = [evs EXCEPT ![x].mask = m]
  /\ want' = [want EXCEPT ![x] = m]
  /\ opc' = [opc EXCEPT ![t] = "enqueue"]
  /\ otgt' = [otgt EXCEPT ![t] = x]
  /\ UNCHANGED <<pandings, handed, lpc, batch, running, wakeRdy, edges>>

\* eventloop_apply from another thread: apply_panding under panding_lock.
ApplyPanding(t) ==
  /\ opc[t] = "enqueue"
  /\ pandings' = Enqueued(pandings, otgt[t])
  /\ handed' = handed \cup {otgt[t]}
  /\ opc' = [opc EXCEPT ![t] = "wake"]
  /\ UNCHANGED <<evs, want, lpc, batch, running, wakeRdy, otgt, calls, edges>>

\* Mutant: eventloop_apply returns without eventpoll_wakeup.
WakeupLost(t) ==
  /\ opc[t] = "wake"
  /\ opc' = [opc EXCEPT ![t] = "idle"]
  /\ UNCHANGED <<evs, want, pandings, handed, lpc, batch, running, wakeRdy, otgt, calls, edges>>

\* ... then eventpoll_wakeup: write(wakev.fd), an edge on the eventfd.
Wakeup(t) ==
  /\ opc[t] = "wake"
  /\ wakeRdy' = TRUE
  /\ opc' = [opc EXCEPT ![t] = "idle"]
  /\ UNCHANGED <<evs, want, pandings, handed, lpc, batch, running, otgt, calls, edges>>

\* eventloop_exit from another thread: SYNC_SET(loop->running, 0) only.
Exit(t) ==
  /\ opc[t] = "idle"
  /\ running
  /\ Call
  /\ running' = FALSE
  /\ UNCHANGED <<evs, want, pandings, handed, lpc, batch, wakeRdy, opc, otgt, edges>>

\* The kernel: an edge on a registered descriptor queues its flags.
KernelEvent(e, f) ==
  /\ evs[e].kern # {}
  /\ f \subseteq evs[e].kern
  /\ edges < MaxEdges
  /\ edges' = edges + 1
  /\ evs' = [evs EXCEPT ![e].ready = @ \cup f]
  /\ UNCHANGED <<want, pandings, handed, lpc, batch, running, wakeRdy, opc, otgt, calls>>

LoopStep == StartLoop \/ Check \/ Poll \/ Dispatch \/ EndDispatch \/ Drain

Next ==
  \/ \E x \in Events, m \in Interests : SetupApply(x, m)
  \/ LoopStep
  \/ \E t \in Others : \/ \E x \in Events, m \in Interests : SetMask(t, x, m)
                       \/ ApplyPanding(t) \/ Wakeup(t) \/ Exit(t)
  \/ \E e \in Events, f \in Flags : KernelEvent(e, f)

(***************************************************************************)
(* The loop thread and a thread inside eventloop_apply are scheduled by    *)
(* the OS and never stop for good while they can run; epoll_wait is        *)
(* enabled only when something is ready.  Nothing obliges the kernel to    *)
(* raise readiness or a caller to call.                                    *)
(***************************************************************************)
Fairness ==
  /\ WF_vars(LoopStep)
  /\ \A t \in Others : WF_vars(ApplyPanding(t)) /\ WF_vars(Wakeup(t))

Spec == Init /\ [][Next]_vars /\ Fairness

-----------------------------------------------------------------------------
Masks == SUBSET {"R", "W", "E"}
EpollBits == {"IN", "OUT", "ERR", "HUP", "ET"}

TypeOK ==
  /\ evs \in [Events -> [mask : Masks, last : SUBSET EpollBits, kern : SUBSET EpollBits,
                         ready : SUBSET {"IN", "OUT", "ERR"}]]
  /\ want \in [Events -> Interests \cup {{}}]
  /\ pandings \in Seq(Events) /\ handed \subseteq Events
  /\ lpc \in {"setup", "check", "poll", "dispatch", "drain", "exited"}
  /\ running \in BOOLEAN /\ wakeRdy \in BOOLEAN
  /\ opc \in [Others -> {"idle", "enqueue", "wake"}] /\ otgt \in [Others -> Events]
  /\ calls \in 0..MaxCalls /\ edges \in 0..MaxEdges

\* The loop is idle in epoll_wait with no registration in flight.
Settled ==
  /\ lpc = "poll"
  /\ pandings = <<>>
  /\ \A t \in Others : opc[t] = "idle"

(* An event queued by another thread's eventloop_apply is taken off the   *)
(* pending queue by the loop thread (the eventfd wakeup gets it out of    *)
(* epoll_wait), unless the loop has exited.                               *)
PendingDrained ==
  \A e \in Events : (e \in Range(pandings)) ~> (e \notin Range(pandings) \/ lpc = "exited")

(* Every event handed to apply_panding stays queued until `panding`       *)
(* applies it (spec.md 8: one poll/drain cycle makes it active).          *)
PendingNotLost == handed \subseteq Range(pandings)

(* Once settled (the loop waiting in epoll_wait, nothing queued, no other *)
(* thread mid-call), every event is registered with the kernel for exactly *)
(* the directions its last caller asked for, and not at all when that      *)
(* caller disarmed it: what listener/socket enable promise (spec.md 4.3).  *)
KernelMatchesInterest ==
  Settled => \A e \in Events : evs[e].kern = OsMask(want[e])

=============================================================================
