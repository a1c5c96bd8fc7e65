------------------------------- MODULE Thread -------------------------------
(***************************************************************************)
(* thread.c: thread_new, the thread_boot trampoline, thread_self and its  *)
(* pthread key destructor thread_free, and thread_join.                   *)
(*                                                                         *)
(* Two threads: the caller of thread_new and join ("parent") and the       *)
(* thread it creates ("child").  Each statement that touches memory the    *)
(* other thread can see is one step.  Two objects are shared:             *)
(*   - `arg`, struct _thread_boot_arg in thread_new's stack frame, which   *)
(*     is `frame` = "dead" once thread_new has returned;                   *)
(*   - the child's thread_t, allocated by thread_self and freed by the     *)
(*     key's destructor when the child calls pthread_exit.                 *)
(* `faults` records every access to an object that is no longer live.     *)
(***************************************************************************)
EXTENDS Naturals

VARIABLES ppc, cpc, key, frame, argThrd, obj, handle, faults

vars == <<ppc, cpc, key, frame, argThrd, obj, handle, faults>>

\* An access described by `what`, a fault when the memory it touches is dead.
Touch(what, dead) == faults' = IF dead THEN faults \cup {what} ELSE faults

Init ==
  /\ ppc = "init" /\ cpc = "none"
  /\ key = FALSE
  /\ frame = "none" /\ argThrd = "null"
  /\ obj = "none" /\ handle = "null"
  /\ faults = {}

\* thread.init(): pthread_once(thread_init_once), which creates the key
\* whose destructor is thread_free.
ThreadInit ==
  /\ ppc = "init"
  /\ key' = TRUE
  /\ ppc' = "create"
  /\ UNCHANGED <<cpc, frame, argThrd, obj, handle, faults>>

\* thread_new up to pthread_create: arg is filled in on the stack with
\* thrd = 0, and pthread_create either starts thread_boot or fails (its
\* result is not checked).
Create ==
  /\ ppc = "create"
  /\ frame' = "live" /\ argThrd' = "null"
  /\ cpc' \in {"boot", "none"}
  /\ ppc' = "spin"
  /\ UNCHANGED <<key, obj, handle, faults>>

\* while (!SYNC_GET(arg.thrd)) {}: passes once the child has published
\* its thread_t, and spins for ever otherwise.
Spin ==
  /\ ppc = "spin"
  /\ argThrd = "obj"
  /\ ppc' = "name"
  /\ UNCHANGED <<cpc, key, frame, argThrd, obj, handle, faults>>

\* snprintf(arg.thrd->name, 64, name): a write into the child's thread_t.
Name ==
  /\ ppc = "name"
  /\ Touch("name written to a freed thread_t", obj = "freed")
  /\ ppc' = "ret"
  /\ UNCHANGED <<cpc, key, frame, argThrd, obj, handle>>

\* return arg.thrd: the caller gets the pointer and the frame is gone.
Return ==
  /\ ppc = "ret"
  /\ handle' = "obj" /\ frame' = "dead"
  /\ ppc' = "join"
  /\ UNCHANGED <<cpc, key, argThrd, obj, faults>>

\* thread_join: pthread_join(thrd->tid, ...) reads the thread_t, then
\* waits for the child to end.
Join ==
  /\ ppc = "join"
  /\ Touch("tid read from a freed thread_t", obj = "freed")
  /\ ppc' = "joined"
  /\ UNCHANGED <<cpc, key, frame, argThrd, obj, handle>>

Joined ==
  /\ ppc = "joined" /\ cpc = "gone"
  /\ ppc' = "done"
  /\ UNCHANGED <<cpc, key, frame, argThrd, obj, handle, faults>>

\* thread_boot: arg->thrd = thread_self().  In a new thread the __thread
\* cache and the key's value are both empty, so thread_self allocates a
\* thread_t (or returns 0 when alloc fails), stores it in both and returns
\* it; the store to arg->thrd publishes it to the spinning parent.
Boot ==
  /\ cpc = "boot"
  /\ \/ obj' = "live" /\ argThrd' = "obj"
     \/ UNCHANGED <<obj, argThrd>>
  /\ Touch("arg written after thread_new returned", frame = "dead")
  /\ cpc' = "run"
  /\ UNCHANGED <<ppc, key, frame, handle>>

\* arg->runable(arg->ud): both are read from thread_new's frame.
Run ==
  /\ cpc = "run"
  /\ Touch("runable and ud read after thread_new returned", frame = "dead")
  /\ cpc' = "exit"
  /\ UNCHANGED <<ppc, key, frame, argThrd, obj, handle>>

\* pthread_exit: the key's destructor thread_free frees the thread_t.
Exit ==
  /\ cpc = "exit"
  /\ obj' = IF key /\ obj = "live" THEN "freed" ELSE obj
  /\ cpc' = "gone"
  /\ UNCHANGED <<ppc, key, frame, argThrd, handle, faults>>

Next ==
  \/ ThreadInit \/ Create \/ Spin \/ Name \/ Return \/ Join \/ Joined
  \/ Boot \/ Run \/ Exit

Spec == Init /\ [][Next]_vars

(* thread_new, thread_boot and thread_join only touch memory that is still *)
(* alive: the boot argument in thread_new's frame, and the thread_t that   *)
(* thread_self allocated and the key destructor frees when the child ends. *)
MemorySafe == faults = {}

=============================================================================
