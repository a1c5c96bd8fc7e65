-------------------------------- MODULE Lock --------------------------------
(***************************************************************************)
(* lock.c: the spinlock (lock.lock / lock.unlock) and the reader/writer   *)
(* lock (rwlock.rlock, runlock, wlock, wunlock) taken by a set of threads. *)
(*                                                                         *)
(* Every read or atomic update of a shared word is one step, so the model *)
(* has all the interleavings of the loops in rlock and wlock.  A spin     *)
(* iteration that finds the word unchanged changes nothing, so a spin is  *)
(* an action enabled when the loop would exit.  Memory is taken to be     *)
(* sequentially consistent.  A thread at "idle" may call any of the       *)
(* operations; one at a holding pc releases with the matching unlock.     *)
(***************************************************************************)
EXTENDS Naturals, FiniteSets

CONSTANTS Threads

VARIABLES mtx, read, write, pc

vars == <<mtx, read, write, pc>>

Holding == {"locked", "reading", "writing"}

Init ==
  /\ mtx = 0
  /\ read = 0 /\ write = 0
  /\ pc = [t \in Threads |-> "idle"]

\* The caller picks lock.lock, rwlock.rlock or rwlock.wlock.
Call(t) ==
  /\ pc[t] = "idle"
  /\ \E op \in {"m_tas", "r_spin", "w_tas"} : pc' = [pc EXCEPT ![t] = op]
  /\ UNCHANGED <<mtx, read, write>>

Go(t, from, to) == pc[t] = from /\ pc' = [pc EXCEPT ![t] = to]

\* mtx_lock: while (__sync_lock_test_and_set(v, 1)) {}
MLock(t) == Go(t, "m_tas", "locked") /\ mtx = 0 /\ mtx' = 1 /\ UNCHANGED <<read, write>>

\* mtx_unlock: __sync_lock_release(v)
MUnlock(t) == Go(t, "locked", "idle") /\ mtx' = 0 /\ UNCHANGED <<read, write>>

\* Mutant: rlock without the spin on v->write.
RSpinNoWait(t) == Go(t, "r_spin", "r_inc") /\ UNCHANGED <<mtx, read, write>>

\* rlock: while (v->write) __sync_synchronize();
RSpin(t) == Go(t, "r_spin", "r_inc") /\ write = 0 /\ UNCHANGED <<mtx, read, write>>

\* __sync_add_and_fetch(&v->read, 1)
RInc(t) == Go(t, "r_inc", "r_check") /\ read' = read + 1 /\ UNCHANGED <<mtx, write>>

\* Mutant: rlock without the second test of v->write.
RCheckOnce(t) == Go(t, "r_check", "reading") /\ UNCHANGED <<mtx, read, write>>

\* if (v->write) back off, else break out of the for loop holding the lock.
RCheck(t) ==
  /\ pc[t] = "r_check"
  /\ pc' = [pc EXCEPT ![t] = IF write = 1 THEN "r_dec" ELSE "reading"]
  /\ UNCHANGED <<mtx, read, write>>

\* __sync_sub_and_fetch(&v->read, 1), then round the for loop again.
RDec(t) == Go(t, "r_dec", "r_spin") /\ read' = read - 1 /\ UNCHANGED <<mtx, write>>

\* Mutant: runlock with __sync_add_and_fetch pasted from rlock.
RUnlockAdd(t) == Go(t, "reading", "idle") /\ read' = read + 1 /\ UNCHANGED <<mtx, write>>

\* runlock: __sync_sub_and_fetch(&v->read, 1)
RUnlock(t) == Go(t, "reading", "idle") /\ read' = read - 1 /\ UNCHANGED <<mtx, write>>

\* wlock: while (__sync_lock_test_and_set(&v->write, 1)) {}
WTas(t) == Go(t, "w_tas", "w_wait") /\ write = 0 /\ write' = 1 /\ UNCHANGED <<mtx, read>>

\* while (v->read) __sync_synchronize();
WWait(t) == Go(t, "w_wait", "writing") /\ read = 0 /\ UNCHANGED <<mtx, read, write>>

\* wunlock: __sync_lock_release(&v->write)
WUnlock(t) == Go(t, "writing", "idle") /\ write' = 0 /\ UNCHANGED <<mtx, read>>

\* The steps a thread takes inside lock.c once it has called.
Step(t) ==
  \/ MLock(t) \/ MUnlock(t)
  \/ RSpin(t) \/ RInc(t) \/ RCheck(t) \/ RDec(t) \/ RUnlock(t)
  \/ WTas(t) \/ WWait(t) \/ WUnlock(t)

Next == \E t \in Threads : Call(t) \/ Step(t)

(***************************************************************************)
(* Each thread is scheduled by the OS and is never stopped for good while *)
(* it spins or runs inside lock.c; a holder releases (the contract of the *)
(* API).  Nothing obliges an idle thread to call.                          *)
(***************************************************************************)
Spec == Init /\ [][Next]_vars /\ \A t \in Threads : WF_vars(Step(t))

-----------------------------------------------------------------------------
TypeOK ==
  /\ mtx \in {0, 1} /\ write \in {0, 1}
  /\ read \in 0..Cardinality(Threads)
  /\ pc \in [Threads -> Holding \cup {"idle", "m_tas", "r_spin", "r_inc", "r_check",
                                      "r_dec", "w_tas", "w_wait"}]

(* rlock's re-check of v->write after raising the count and wlock's wait  *)
(* for the count to drop keep a writer alone: whenever a thread has come  *)
(* out of wlock, no other thread has come out of rlock or wlock, whatever *)
(* order the two loops' reads and updates interleave in.                   *)
RWExclusive ==
  \A t \in Threads : pc[t] = "writing" =>
    \A u \in Threads \ {t} : pc[u] \notin {"reading", "writing"}

(* A writer that has won v->write gets the lock: readers inside rlock see *)
(* the flag and take their count back, readers holding the lock release  *)
(* it, and no new reader gets past the spin, so v->read reaches 0.        *)
WriterGetsIn == \A t \in Threads : pc[t] = "w_wait" ~> pc[t] = "writing"

=============================================================================
