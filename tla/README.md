# TLA+ models of lib_ (the non-blocking I/O reactor in src/)

This directory holds TLA+ models of the reactor in `src/`, the TLC
configurations that check them, and `PROJECT.json`. `PROJECT.json` lists:

- the components;
- the runs;
- the mutants;
- the map from each definition to the source lines it models;
- the findings;
- the hazards.

## 1. The system

| Part | Source | State | Operations |
|---|---|---|---|
| Byte Buffer | `buffer.c` | region `buf[0..size)`, cursors `rpos <= wpos <= size` | new, read, write, extend (compact then realloc), yield (memmem for a delimiter), vprintf/printf (vsnprintf retry loop) |
| Multiplexer | `epoll.c` | epoll fd, eventfd event `wakev`, per event `last_mask` | apply (diff the EVMASK against `last_mask`: ADD/MOD/DEL), poll (`epoll_wait`, translate flags, overwrite `last_mask` and `mask`, dispatch), wakeup (write the eventfd) |
| Event Loop | `eventloop.c`, `event.c` | owner thread `me`, `running`, intrusive pending queue `pandings`/`pandings_tail` under `panding_lock` | apply (direct on the owner thread; otherwise queue plus wakeup), loop (`running` check, poll, drain the queue), exit |
| Stream | `stream.c` | a Buffer, the backend fd, `need_mask`, `last_err`, a spinlock | fill, read, write, flush, seek, yield, printf |
| Socket | `socket.c` | an Event and two Streams | `_sock_dispatch` (flush on W, fill on R, error escalation), enable/disable |
| Listener | `listener.c` | Event on the listening fd, `enabled`, `listening` | bind, enable (`listen` once, arm R), `_accept_dispatch` (one accept per notification) |
| Connector | `connector.c` | Event used while a connect is deferred | connect (immediate or EINPROGRESS plus W interest), `_connector_dispatch` (SO_ERROR, getsockname) |
| Threads | `thread.c` | the pthread key whose destructor is `thread_free`, the `__thread` cache | init, new (through the `thread_boot` trampoline), self (allocate on first use), join |
| Locks | `lock.c` | a spinlock word; the reader/writer lock's `read` count and `write` flag | lock/unlock (test-and-set spin, release); rlock (spin on `write`, increment, re-test, back off), runlock, wlock (test-and-set `write`, wait for `read` = 0), wunlock |
| Hash map | `hmap.c` | `size` slots of `exist`, two check hashes and `ud` | create, get, set (expand and retry when full), del |

How the parts interact:

- A Socket, Listener or Connector embeds an `event_t` whose callback the loop calls from `eventpoll_poll`.
- Callbacks, and threads other than the loop's own, change `ev->mask` and call `eventloop_apply`.
- On the loop thread, `eventloop_apply` goes straight to `eventpoll_apply`.
- Any other thread queues the event under `panding_lock` and writes the eventfd. The loop drains the queue after each poll.
- Streams sit under Sockets. A Socket dispatch flushes the output stream and fills the input stream. What each stream still needs (`need_mask`) decides what to re-arm.

These parts are out of scope as state machines:

- `sockaddr.c`: pure conversions.
- `net.c`: blocking helpers, which spec.md 1 excludes.
- `log.c` and `util.c`: their effects never feed back into the core.
- `timer.c`: an empty stub.

Where a spinlock of `lock.c` guards a step of another part (`panding_lock`, the stream lock), that step is modelled as one atomic action. `lock.c` itself is modelled in Lock. In EventLoop, `thread.self()` becomes the split between the owner actor and the other actors; `thread.c` itself is modelled in Thread. The reader/writer lock has no caller in the repository. It is exported library code with a subtle protocol, so it is modelled on its own, as is the hash map. The hash map is outside the I/O core (spec.md 1) and has no caller, but it is library code with state, so it is modelled on its own.

## 2. Modules

### Buffer.tla and BufferFIFO.tla (buffer.c)

State:

- `mem` is the region as a sequence, so `size` is `Len(mem)`.
- `rpos` and `wpos` are the cursors.
- `out` holds the bytes the last read or yield returned.
- `hung` is TRUE once vprintf spins.

Values: bytes are model values, together with `Nul`, the byte vsnprintf writes, and `Undef`, the contents of fresh realloc'd memory.

Actions: `Read`, `Write`, `ExtendOp`, `Yield`, `Vprintf` and `Spin`. Each is a whole library call.

- The `WriteBuf` helper is `buffer_write`. It may call `Extend`, which compacts and then reallocs, and then it copies at `rpos` exactly as the code does.
- `Extend` fails when the new size exceeds `MaxSize`. That stands for `alloc` returning NULL.
- `PrintfLoop` is the retry loop of `buffer_vprintf`, defined by recursion. It returns the set of outcomes.
  - After the first attempt `ap` has been consumed (the code calls `va_end(ap)` in the loop and never uses `cpy`), so a retry formats an arbitrary text.
  - A failed extend makes the loop spin.
- `Init` has size 0 or the default size. A non-zero size argument is never stored (buffer.c:19-22).

`BufferFIFO` is spec.md 4.1's promise: a queue of bytes where write appends, read and yield take from the front, and extend changes nothing. `Buffer` instantiates it with `queue <- Readable(Buf)`.

### EventLoop.tla (eventloop.c, epoll.c, event.c, socket_enable)

State:

- `evs[e]` joins the `event_t` fields (`mask`, `last_mask`) with the kernel's view: `kern`, the registered epoll mask, and `ready`, the queued flags.
- `pandings` is the pending queue.
- `lpc` is the loop thread's place in `eventloop_loop`.
- `batch` holds the events `epoll_wait` returned that are not yet dispatched.
- `running`, and `wakeRdy` (the eventfd's readiness).
- `opc` and `otgt` hold each other thread's place inside a call.
- `want` and `handed` are history variables:
  - `want` is the mask the last caller asked for.
  - `handed` is the set of events given to `apply_panding` since the last drain.

Masks are sets of `"R"`, `"W"`, `"E"`, or of the EPOLL bits.

Helpers:

- `EpollApply` is `eventpoll_apply`, line by line.
  - An unchanged mask returns.
  - DEL keeps `last_mask`.
  - MOD on an unregistered fd fails with ENOENT.
  - ADD records `last_mask`.
- `Enqueued` is `apply_panding`'s list surgery: head == tail restarts the queue.
- `ApplyAll` is the drain loop.

Actions of the loop thread:

- `SetupApply`: registrations before `eventloop_loop`.
- `StartLoop` and `Check`: the `running` test.
- `Poll`: `epoll_wait`. It returns every ready event in any order and consumes the edges.
- `Dispatch`: one iteration of the poll loop. It overwrites `last_mask` and `mask`, then runs the callback, which does nothing, re-arms or disarms an event on the owner thread, or exits.
- `EndDispatch` and `Drain`.

Actions of another thread:

- `SetMask`: the unsynchronised `ev->mask = m` of `socket_enable`.
- `ApplyPanding`, then `Wakeup`.
- `Exit`.

The environment: `KernelEvent` raises readiness on a registered descriptor.

### Stream.tla (stream.c over buffer.c)

`B == INSTANCE Buffer` supplies the buffer state and every buffer call. The backend is `stream_funcs_fd` on a connected socket.

- `inq` holds the peer's bytes not yet read. `closed` records that the peer shut down, after which readv returns 0. `fdOpen` goes FALSE after `stream_close`.
- `Readv` and `Writev` are `fd_readv`/`fd_writev` as sets of outcomes:
  - any short count;
  - EAGAIN, which sets `last_err` and adds R or W to `need_mask`;
  - 0 at EOF, with `last_err` 0;
  - EIO, at most `MaxFaults` times;
  - EBADF after close.
- Every call that takes the spinlock is one atomic step. `locked` is the lock left held by `stream_read`'s `if (!buf) return -1`.
- Loops are recursive operators returning the set of `[s, ok]` outcomes:
  - `WriteLoop` is the `for(;;)` of `_stream_write`, with its iovec bookkeeping.
  - `ReadLoop` is the `while (len > 0)` of `stream_read`. Its inverted `!readv(...)` test makes a successful readv end the loop, and a failed one go on with `cnt` uninitialised. `cnt` is any value, following the rule for reads of uninitialised memory. A value above `iov[0].iov_len` copies `*wmem`, which is the byte past the buffer's end (`Undef`) when the buffer has no free space. The loop ends when `len` reaches 0.
  - `FillOutcomes` is `stream_fill`: one readv, then `buffer.write(buf, 0, cnt)`, then `buffer.write(buf, tmp, cnt - space)`.
  - `FlushOutcomes` is `stream_flush`.
- `Seek` models both inverted tests of `stream_seek`. `Vprintf` and `StreamYield` run without the lock, as the code does.

History variables:

- `consumed`: the bytes readv took.
- `got`: the bytes read/yield handed over.
- `attempted` and `reported`: the bytes handed to write/printf, and the bytes reported written.
- `wired`: the bytes the socket accepted.

`NextIn` is the input stream of a socket: peer, fill, read, yield, set_mask. `NextOut` is the output stream: write, flush, seek, printf, close.

### Conn.tla (listener.c, connector.c, socket.c, epoll.c, test.c)

Conn runs `test.c` as its program: an echo server on one address, and a connector that connects to it and then connects again from inside its own callback. Everything runs on the loop thread, as in `test.c`.

As written, `main` stores through a null pointer at test.c:143, a few lines after installing its crash handler. The process dies there, before `thread.init()` and the loop. Conn models `main` from line 147 on (its first modelled step, `Bind`, is test.c:155), as the program runs with that store removed. The calls before it (option parsing, `util.*`, the logo) change nothing the model keeps.

State:

- `k[f]` is the kernel's descriptor `f`:
  - its kind and TCP state;
  - the accept queue `q` and the peer's descriptor;
  - whether the socket is writable (`wr`) and what its peer sent (`tx`: nothing, data, EOF);
  - the epoll item: its owner `reg` (which `event_t` its `data.ptr` names), its `emask`, and `rdy`, the item being on the ready list.
- `lev`, `cev` and `socks[i]` are the listener's, the connector's and each `socket_t`'s `event_t` fields plus the object's own flags. `socks[i].pend` means the output stream holds bytes, and `inbuf` means the input stream does.
- `cbs` records every connector callback: its `err`, and whether its socket really is connected.
- `connects` counts the `connector_connect` calls, and `shorts` the short sends so far. `phase` is `main`'s place, and `running` is the loop's flag.

The kernel is edge-triggered as Linux is. A wakeup sets `rdy` only if its own bits meet the item's `emask` (ep_poll_callback), ADD and MOD poll the current level, and `epoll_wait` reports the level the item watches.

A callback can call the library again: `connected` calls `socket_.enable`, `stream.flush` and `connector.connect`. So steps are operators from a state record to a set of successor records, and `Connect` and `Connected` are mutually recursive.

Actions:

- `Bind`, `Enable` and `StartConnect` are `main` before the loop.
- `Dispatch(f)` is one `epoll_wait` delivery to the item's owner:
  - `AcceptDispatch`: one `accept4`, then `acceptor`;
  - `ConnDispatch`: `_connector_dispatch`, then `connected`;
  - `SockDispatch`: `_sock_dispatch`, then `ecprocessor`, which echoes a record or disconnects and exits.
- `Apply` is `eventpoll_apply` against this kernel. An ADD of an fd the connector still holds gets EEXIST and becomes a MOD, which moves the item.
- `SocketForAddr` is `socket_for_addr` with `socket_nonblock`, as `listener_bind` and `connector_connect` call it: the lowest free descriptor, or -1 (EMFILE) when the bounded table is full. Every descriptor of the model is non-blocking and close-on-exec, so those flags are not kept.
- `Dispatch` delivers one ready item per step and only while `running` holds. The code tests `running` once per `epoll_wait` and still dispatches the rest of a batch after a callback exits; no property here depends on that difference.
- The environment: `Resolve(f)` completes a deferred connect, against the listener's backlog or refused. `Drain(f)` is the peer reading, which makes a socket writable again. `Exit` is the loop's `running` test.

### HMap.tla and Dict.tla (hmap.c)

`tb` is the `struct khlist`: `size` and `slot[0..size)`, each slot `[exist, key, ud]`.

- The pair of check hashes `(hasha, hashb)` identifies a key, so a slot records the key itself. A collision of both 32-bit hashes is left out.
- The probe start `_hash_string(str, HASH_OFFSET) % size` is `hash[k] % size` (`Start`). `hash` is any function into `0..MaxSize-1`, chosen in `Init` and fixed. Every size is a divisor of `MaxSize`, so these residues are all the starts the real hash can give.
- `GetLoop`, `SetLoop` and `DelLoop` are the three `while` loops, by recursion. Each keeps its own exit conditions: `DelLoop` also stops at an empty slot, which the code after the loop then clears.
- `SetOutcomes` is `khlist_set` with `_expand` and the recursive retry. `Expanded` copies the old slots to the same indexes. The upper half is uninitialised memory: a slot there is zeroed, or garbage whose `exist` byte may read 1 (`Uninit`). Growing past `MaxSize` stands for `malloc` returning NULL.
- `ret` is the last call's return value and `*pud`.

`Dict` is what the API promises: a function from keys to values, where set refuses a present key and may fail for want of memory, and del returns the removed value. `HMap` maps onto it through `Stored` (the `ud` of a slot holding the key) and `Out` (a call's result read off its return value). `DictRefined` is `Dict`'s specification under that mapping.

### Thread.tla (thread.c)

There are two threads, the caller of `thread_new` and `thread_join` (the parent) and the thread it creates (the child). Each statement that touches memory the other thread can see is one step.

- `frame` is the life of `arg`, the `struct _thread_boot_arg` on `thread_new`'s stack. `argThrd` is `arg.thrd`.
- `obj` is the child's `thread_t`: allocated by `thread_self` in `Boot`, freed by the key destructor `thread_free` in `Exit`.
- `faults` is a history variable: every access to dead memory.
- Parent steps: `ThreadInit`, `Create` (pthread_create may fail, and its result is ignored), `Spin` (waits for `arg.thrd`), `Name`, `Return`, `Join`, `Joined`. Child steps: `Boot`, where alloc may fail; `Run`, which reads `arg->runable` and `arg->ud`; and `Exit`.

### Lock.tla (lock.c)

A set of threads call the spinlock and the reader/writer lock. `mtx` is the spinlock word; `read` and `write` are the fields of `rwlock_t`; `pc[t]` is where thread `t` is.

Every shared access is one step. This covers each test-and-set, each `__sync` add or subtract, and each plain read of `write` or `read` in a spin.

A spin iteration that finds the word unchanged changes nothing. So each spin is an action enabled exactly when the loop would exit:

- `MLock` and `WTas` are the test-and-set loops;
- `RSpin` is `while (v->write)`;
- `WWait` is `while (v->read)`.

`RInc`, `RCheck` and `RDec` are the increment, the re-test and the back-off of `rlock`'s `for` loop. `Call` is a caller choosing an operation.

Memory is taken to be sequentially consistent. On a weakly ordered machine, `wlock`'s test-and-set is only an acquire barrier. Its later load of `read` may then be satisfied before the store of `write` is visible, and the model does not cover that.

## 3. Runs

| Run | Expect | What it shows |
|---|---|---|
| `buffer_ops` (MCBuffer.cfg) | pass | These hold across every sequence of calls, size-0 and default-size buffers, and failing reallocs: `TypeOK`; `CursorBounds` (`rpos <= wpos <= size`); `ExtendKeepsReadable` (compaction and realloc never change the unread bytes); `YieldReturnsFirstRecord` (yield returns exactly the first record ending in the delimiter, and leaves the rest unread). |
| `buffer_fifo` (MCBuffer_BufferIsFIFO.cfg) | violation | `BufferIsFIFO` fails. Write, write: the second write lands at `rpos` and overwrites the first (buffer.c:82). |
| `stream_out` (MCStream.cfg) | pass | `OutputAccounted`: `reported <= wired + avail <= attempted`, across short writevs that end inside the backlog, at its end or inside the caller's bytes, and across EAGAIN, EIO, flush, seek, printf and close. So no byte reported written is lost, and none is sent or kept twice. `TypeOK` includes `avail` being a valid uint32, `0..MaxSize`. |
| `stream_input` (MCStream_InputIntact.cfg) | violation | `InputIntact` (bytes handed over, then bytes buffered, equal the bytes received) fails. TLC's trace is one step: a read of 1 byte on a new stream with nothing received. readv fails (EIO), and the uninitialised `cnt` makes the call succeed with one byte nobody sent (`got = <<Undef>>`, stream.c:246). With `Read` removed from the next-state relation, the same invariant fails on `stream_fill`'s double count instead: one byte received into the zero-size buffer becomes `<<"a", Undef>>` (stream.c:205). |
| `eventloop` (MCEventLoop.cfg) | pass | `PendingDrained`: a queued event leaves the queue unless the loop exits, however the eventfd wakeups of several callers coalesce. It holds with two events, one other thread and callbacks that re-arm and exit. |
| `eventloop_lost_pending` | violation | `PendingNotLost` fails. Two cross-thread applies before a drain: the first event is dropped (eventloop.c:43). The queue never holds more than one event. |
| `eventloop_interest` (MCEventLoop_Interest.cfg) | violation | `KernelMatchesInterest` fails. Once the loop settles, an event's registration should be what its last caller asked for. Enable R, disable, enable R on the owner thread leaves the fd unregistered, because DEL keeps `last_mask` (epoll.c:114). |
| `hmap_refinement` (MCHMap.cfg) | violation | `DictRefined` fails. A `khlist_del` of a key that is not there, on a new table, stops at the empty slot, clears it and returns its index with `*pud = NULL` instead of -1 (hmap.c:147). With that path repaired the same property fails next on `_expand`, which copies slots to their old indexes, so a key whose start moves is not found. A del inside a probe chain leaves a hole without a tombstone. |
| `thread_memory` (MCThread.cfg) | violation | `MemorySafe` fails. The child publishes `arg->thrd`; the parent stops spinning, names the thread and returns; the child then reads `arg->runable` and `arg->ud` from the dead frame (thread.c:81). The same invariant covers the name written into, and the `tid` read from, a `thread_t` that the key destructor freed (thread.c:95, :101). |
| `conn` (MCConn.cfg) | pass | `SocketPerFd`: no two live sockets share a descriptor, although the connector's registration outlives its callback; the socket's ADD gets EEXIST and the MOD takes the item over. `ConnectResolves`: every connect call is eventually answered, unless the loop exits. |
| `rwlock` (MCLock.cfg) | pass | Three threads call the spinlock and the reader/writer lock in every order. `RWExclusive`: a thread out of `wlock` is never inside together with another reader or writer. `WriterGetsIn`: a writer that has won the `write` flag always gets the lock, because readers back off and no new reader passes the spin. Dropping `rlock`'s re-test breaks the first; dropping its spin on `write` breaks the second. |
| `socket_output_stall` (MCConn_OutputDelivered.cfg) | violation | `OutputDelivered` fails. TLC's trace: connect and accept, then a short flush leaves output buffered. The peer drains, but the OUT wakeup meets a registration that watches IN only (socket.c:73 never arms W), and the loop waits with nothing ready. Short sends are bounded (`MaxShorts`) and drains are not, so the stall comes from the missing write interest and not from the environment: a variant of `Flush` that arms `{R, W}` while output is pending makes the same run pass. |

Each property of a passing run has a mutant in `PROJECT.json`: a plausible slip in the code it is about, which TLC must catch. Examples are a forgotten failure check in `buffer_write`, a compaction that does not move the bytes, and an `eventloop_apply` that does not wake the loop.

## 4. Bounds and fairness

Buffer: two byte values, delimiters of length 1 and 2, texts of at most 2 bytes, default size 2 and `MaxSize` 4. These bounds reach every case of the code:

- compaction that fits, and compaction that does not;
- realloc success and failure;
- the reset to 0 when the buffer drains;
- a record that spans the whole buffer;
- the vprintf retry and the vprintf spin.

Stream: one byte value, because the properties count bytes, and where bytes matter `Undef`/`Nul` tell garbage from data.

- Buffer sizes 0 (the `stream_file_open` case) and 2, growing to 4. This makes writes of 1 and 2 bytes take both the buffered path and the writev path.
- `MaxOut` 5 and `MaxIn` 4, so a backlog can be partly written and then joined by new data.
- `MaxFaults` 1, and a scratch of 4 that never limits a readv, as 65535 never does.

EventLoop: two events, one other thread, interests `{}` and `{R}`, `MaxCalls` 4 and `MaxEdges` 2.

- With four calls, a disable and re-enable can be followed by an exit, and two cross-thread applies fit into one poll cycle. Two edges let a dispatch happen both before and after a queued change.
- `CHECK_DEADLOCK FALSE` is set because, once the budgets are spent, the real loop blocks in `epoll_wait` for ever. That is exactly the model's final state.
- Fairness is weak fairness:
  - on the loop thread's steps (a runnable thread is scheduled);
  - on each other thread's `ApplyPanding` and `Wakeup` (a thread inside `eventloop_apply` finishes it).
- No fairness is assumed for callers or for the kernel.

Conn: `MaxFds` 3, `Backlog` 1, `MaxConnects` 2, `MaxShorts` 1. `MaxShorts` bounds the short sends, the times the peer's receive window fills, over the whole run. The peer may drain whenever a send buffer is full, so drains need no bound of their own.

- Three descriptors hold the listener, the connector's first connection and its accepted peer. The second connect then meets `EMFILE` or a full backlog. In that case the connector reports success for a refused connect (connector.c:80, and connector.c:53 on the deferred path). Conn models both paths. A connect to a closed port in a unit test also shows the bug, so no run of its own is spent on it.
- Two connects are the least that exercise the callback connecting again, and the EEXIST takeover of a descriptor the connector still holds.
- One drain is enough to show the OUT wakeup being filtered out.
- Fairness is weak fairness:
  - on `Dispatch(f)` for each descriptor, because the epoll ready list is FIFO and each wakeup puts the item at its tail, so a ready item is delivered within one round;
  - on `Resolve(f)`, because the kernel always completes or refuses a pending connect.
- `SpecDrain` adds weak fairness on `Drain(f)`: a peer that keeps reading. `OutputDelivered` needs it, since the stall must not come from a peer that never reads.
- `CHECK_DEADLOCK FALSE` is set because after `eventloop.exit`, or with nothing ready, the program returns from the loop or blocks in `epoll_wait`.

HMap: `khlist_create(1)`, three keys, two values, `MaxSize` 4. Two expansions (1 to 2 to 4) happen, every pattern of collisions among three keys occurs, and a full table of 4 fails to grow.

Thread: one `thread_new` and one `thread_join`. Every interleaving of the child's three steps with the parent's five is explored. `CHECK_DEADLOCK FALSE` is set because the parent spins for ever when `pthread_create` or the child's allocation fails, which is the code's behaviour.

Lock: three threads, enough for two readers and a writer, or two writers and a reader, to be inside `lock.c` at once. Every thread's steps inside `lock.c` are weakly fair: a thread that spins or runs is scheduled. A holder eventually unlocks; that is the API's contract with its caller. An idle thread need not call.

Under this fairness, a writer spinning on the test-and-set of `write` can lose every race to other writers (lock.c:35). The code promises no order among writers, so no property claims that every caller of `wlock` gets in. Symmetry is not used, because the run checks a liveness property.

Earlier sittings also found that a failed `_stream_write` can already have sent some of the caller's bytes (stream.c:291). That run was retired to make room for the two above. The hazard is listed in `PROJECT.json` with a note.

## 5. Plan (remaining)

1. Stream: done. Not yet checked: a lock invariant for the leak at stream.c:236, and two threads racing yield against fill.
2. Socket, Listener and Connector: modelled together in Conn. Not yet checked:
   - an accept-liveness property for the one-accept-per-edge stall (listener.c:42, spec.md 9);
   - the cross-thread `socket_enable` of EventLoop composed with `_sock_dispatch`;
   - the descriptor leak of `socket_free` (socket.c:84), which needs a program that keeps running after a disconnect.
3. Locks: done, under sequential consistency.
4. Threads: a liveness property that `thread_new` returns, which fails when `pthread_create` fails; and the affinity check `loop->me == thread.self()` against thread exit and address reuse (eventloop.c:54).

## 6. Not modelled

- `sockaddr.c`: conversions between text and `sockaddr` structures, with no state kept between calls.
- `net.c`: blocking helpers outside the core (spec.md 1), with no caller in the core. Reading them shows that `fd == socket(...)` at net.c:38, 90 and 116 compares where it should assign. `fd` stays -1, so the next call on it fails and the new socket leaks; the connect helpers always fail. These bugs are known but not checked, because nothing in the modelled program can reach them.
- `util.c`: `fd_limit` can wrap when it computes `f -= 128` on an unsigned value. This is known but not checked for the same reason.
- `log.c`, `util.c` and `timer.c`: logging, pid files, signal handlers, resource queries, and an empty timer. None of them feeds back into the modelled state.
- `lock.c` on a weakly ordered memory model.
