# Formal models of edge-nal-embassy

This directory holds TLA+ models, TLC runs and TLAPS proofs for the crate
`src/edge-nal-embassy`. The crate gives embedded network sockets (TCP, UDP,
raw) whose buffers come from fixed-size slot pools instead of a heap.

## 1. The system

| Part | Source | What it does |
|---|---|---|
| Slot pool `Pool<T, N>` | lib.rs 69-121 | An array of N cells with a `used` flag each. `alloc` takes the first free cell. `free` recomputes the index from the pointer, asserts it is in range and clears the flag. It does **not** check that the flag was set. |
| Type-erased pool `DynPool` / `SealedDynPool` | lib.rs 33-67, tcp.rs 377-405, udp.rs 395-436, raw.rs 267-309 | Hides `N` and the region sizes. `alloc` returns a *buffer descriptor*: the regions of one slot plus a release token, which is the slot's address. |
| TCP wrapper | tcp.rs | `Tcp::connect`, `TcpAccept::accept`, `TcpSocket` read/write/flush/readable/close/abort, `Drop`, and the split halves. |
| UDP wrapper | udp.rs | `Udp::bind`, send/receive (also through the split halves, which are `&UdpSocket`), multicast join/leave, and `Drop`. |
| Raw wrapper | raw.rs | `Raw::bind`, send/receive and `Drop`. lib.rs has no `mod raw`, so this file is not compiled today. |
| DNS | dns.rs | A forwarding query. `get_host_by_address` is `todo!()`. |
| Address conversions | lib.rs 123-160 | `to_emb_*` return `None` for an address family that is not compiled in. |
| Factories on one stack | tcp.rs 18-42, udp.rs 14-39, raw.rs 13-37 | `Tcp`, `Udp` and `Raw` each hold the stack and their own pool. Every socket they make is added to the stack's one `SocketSet`, whose fixed storage also holds the stack's own DNS/DHCP sockets. |

**How the parts interact.** A wrapper's constructor calls `alloc` on the pool
it was given. It builds the embassy socket over the descriptor's regions and
keeps the token. Its `Drop` calls `free(token)`. After that `Drop` runs, the
embassy socket field is dropped, which removes the socket from the stack's
`SocketSet`. From that point the engine no longer touches the regions. The
embassy socket's constructor adds it to that set, and `SocketSet::add` panics
when the set is full. So the pools of all factories on a stack compete for
the set's entries.

**How it runs.** The executor is single-threaded and cooperative. Tasks
interleave only at `.await`, and `alloc`/`free`/`Drop` contain no await. So
each action of the models is *the code between two awaits, run to
completion*.

**What is hard.** Several tasks draw on one pool, and a slot freed by one is
reused by another at once (first fit). So the properties to check are:

- every error path gives its slot back;
- a slot is never reused while an engine socket still uses its regions;
- `close(Both)` joins two futures and must wait for both;
- `close`/`abort` await a flush that has no timeout;
- a caller may abandon any await and drop the socket;
- pools sized one by one can still overfill the shared `SocketSet`.

## 2. Modules

| Module | Models | State | Actions |
|---|---|---|---|
| `Pool` | lib.rs `Pool` | `used` | `PoolInit`, `Alloc(n)` (first fit, via `IsFirstFree`), `Free(n)`, `PoolExhausted`. Composed into the wrappers' actions because `alloc`/`free` are always called from inside one of them. |
| `SlotAllocator` | what a pool promises its sockets (abstract) | `holders[n]`, the tasks holding slot n | `Acquire(t, n)`: the lowest free slot, by a task that holds none. `Release(t, n)`: by the slot's only holder. |
| `TcpSocket` | tcp.rs (EXTENDS Pool) | per task: `pc` (where it is suspended), `token`, `bound` (the slot whose regions the engine socket uses), `eng` (the engine socket abstracted to what the awaits wait on), `what`/`flushSt`/`readSt` (a close in progress), `result` | `Connect`, `Accept` (each: `NewNoBuffers`, `NewThenDrop` for an error before the first await, `NewAndStart`), `ConnectDone`, `AcceptDone`, `Read`, `Write`, `Flush`, `Readable`, `CloseBegin`, `CloseFlush`, `CloseDiscard`, `CloseEnd`, `AbortBegin`, `AbortEnd`, `Drop` (in any state holding a socket), `Engine` (peer and stack) |
| `Datagram` | udp.rs and raw.rs (EXTENDS Pool). The constant `Kind` selects the file. | per task: `pc`, `token`, `bound`, `result` | `UdpBind` (`NewNoBuffers`, `BindThenDrop` for UnsupportedProto and Bind, `NewOk`), `RawBind`, `UdpSend`, `RawSend` (always Ok, as the code discards errors), `UdpMulticast` (either build of the `multicast` feature), `Receive`, `UdpDrop`, `RawDrop` |
| `Stack` | the factories of one stack with its `SocketSet` | `pools[k]` (an instance `P(k)` of `Pool` per kind), `entries[i]` (the owner of set entry i: a stack socket, a wrapper's `<<kind, slot>>`, or `Vacant`), `panicked` | `Open(k)` (a wrapper's `new`: first-fit alloc from kind k's pool, then `AddSocket`, which takes the first vacant entry or panics), `Close(k, n)` (`Drop`: `free`, then `RemoveSocket`) |
| `MC_TcpSocket`, `MC_Datagram`, `MC_Stack` | TLC instances | | Tasks as model values, symmetry sets, pool sizes per kind |
| `Pool_proofs`, `TcpSocket_proofs`, `Datagram_proofs`, `Stack_proofs` | TLAPS proofs. `SlotAllocator` holds its own theorem. | | |

### How the TCP module follows the code

- `Drop` (tcp.rs 192-198) is `DropSocket`. It frees the token, clears `bound`
  and resets `eng`, all in one step, because close, free and the field drop
  have no await between them.
- A drop may happen while `connect`, `accept`, `close` or `abort` is
  suspended. This models a caller abandoning the future: a timeout or a
  `select`.
- `close` (151-182) is split at its awaits:
  - `CloseBegin` does the `close()` for Write/Both and starts the futures.
  - `CloseFlush` is `tx.flush()` completing. embassy's flush resolves only
    with `Ok(())`, so it has no error branch.
  - `CloseDiscard` is one iteration of `discard_all_data`.
  - `CloseEnd` is the end of `join`, plus the `match` that prefers the flush
    error. Because the flush never fails, its `FlushErr` arm is dead. So
    the order in which the match reports the two errors cannot be observed.
- `abort` (184-189) is `AbortBegin` (`abort()`) followed by `AbortEnd` (the
  flush await).
- `accept` (98-109) ends in `AcceptDone`. If the engine socket is already
  Closed there, `local_endpoint()` is `None` and the `unwrap!` panics. Such
  states have `pc = "panicked"`, and `Next` stutters in them (`Halted`).

**The engine environment.** The embassy-net/smoltcp socket is not code of this
repository. `eng` keeps only what the awaits of tcp.rs depend on:

- connection state (`none`, `listen`, `syn`, `estab`, `closed`);
- bytes queued each way, bounded by `MaxQ`;
- the peer's FIN, and our FIN;
- a pending RST.

Its rules are smoltcp's:

- `close()` moves Listen/SynSent to Closed, and queues a FIN on an established
  socket;
- `abort()` goes to Closed and queues an RST if there is a peer;
- `flush` resolves, always with Ok, when nothing is unacknowledged and no
  RST is pending (`Quiescent`);
- `accept` resolves once the state leaves Listen;
- `read` first returns buffered data, whatever the connection state
  (`ReadReady`). Once the buffer is empty, it returns 0 after the FIN
  (`ReadEof`) and an error after a reset (`ReadFails`).

The `Engine` action lets the peer do anything it may: complete or refuse a
handshake, reset, send data, send a FIN, acknowledge.

Definitions of the engine have no entry in the map, because they translate no
line of this repository.

**Refinement.** `TcpSocket` and `Datagram` each define
`Holders == [n \in Slots |-> {t \in Tasks : token[t] = n}]` and
`Abstract == INSTANCE SlotAllocator WITH holders <- Holders`. Their property
`AllocatorRefinement == Abstract!Spec` says that the wrapper implements the
abstract allocator. Connect, accept and bind are first-fit acquires, and `Drop` is the
holder's release. Every other step leaves the tokens alone. An error path
that allocates and frees in one step is a stutter.

**The stack composition (`Stack`).** The model keeps the control that
decides whether a socket fits: alloc first, then add, and, at drop, free and
remove in the same step. The socket's own operations change neither the pool
nor the set, so they are left to `TcpSocket` and `Datagram`. Some error paths
drop the new socket after an await (TCP connect and accept); they are a later
`Close`. Pool exhaustion (`NoBuffers`) changes nothing. In `Init`, the
stack's own sockets take the first `Reserved` entries. Those entries come
from embassy's `Stack::new`, not from code of this repository; `Pool::new`
contributes only the empty pools.

### Abstractions

- **Tokens.** A token is a slot index: `free` recomputes exactly that index.
- **Descriptors.** The region offsets and lengths are layout. A descriptor is
  represented by the slot it carves (`bound`).
- **Data.** Bytes are counted, never valued.
- **Addresses.** Address conversion is the nondeterministic choice of its one
  observable outcome: the UnsupportedProto branch.
- **Multicast.** The stack's group table is not kept. Each join/leave returns
  one of the results either build can produce.

## 3. Runs

| Run | Config | Bounds | Checks | Result |
|---|---|---|---|---|
| tcp_ownership | `MC_TcpSocket_ownership.cfg` | 3 tasks, 2 slots, `MaxQ = 0`, task symmetry | `TypeOK`, `SlotOwnership`, `AllocatorRefinement` | pass, about 640 k distinct states, 1 minute |
| tcp_close | `MC_TcpSocket_close.cfg` | 1 task, 1 slot, `MaxQ = 2`, `FairSpec` | `CloseOkMeansDrained` (action property), `ShutdownTerminates` and `DiscardTerminates` (liveness) | pass |
| tcp_accept_panic | `MC_TcpSocket_accept_panic.cfg` | 1 task, 1 slot | `AcceptNeverPanics` | **violation** (finding 1) |
| udp_ownership | `MC_Datagram_udp.cfg` | 3 tasks, 2 slots, `Kind = "udp"` | `TypeOK`, `BufferOwnership`, `AllocatorRefinement` | pass |
| raw_ownership | `MC_Datagram_raw.cfg` | 4 tasks, 3 slots, `Kind = "raw"` | `BufferOwnership`, `AllocatorRefinement` | pass |
| stack_entries | `MC_Stack_entries.cfg` | tcp, udp, raw pools of 2 slots each, 4 entries, 1 reserved | `TypeOK`, `SetMatchesPools` | pass; panics are reachable here |
| stack_sizing | `MC_Stack_sizing.cfg` | pools of 2, 2, 1 slots, 6 entries, 1 reserved | `NoSocketSetPanic` | pass |
| stack_docsizing | `MC_Stack_docsizing.cfg` | as stack_entries | `NoSocketSetPanic` | **violation** (finding 2) |

**Why these bounds.**

- More tasks than slots means that:
  - allocation fails with NoBuffers;
  - a freed slot is reused at once by another task;
  - the first-fit choice is exercised with slots freed out of order.
- Three tasks over two slots is the smallest instance where two tasks hold
  sockets while a third retries and reuses a freed slot.
- For ownership the queue contents do not matter, so `MaxQ = 0` keeps the
  state space small. The close run needs queued data (`MaxQ = 2`) so that a
  close can finish one side while the other still has data.
- Each property has a mutant: a plausible bug in a mapped definition that TLC
  then finds. Examples:
  - an error path that keeps the slot;
  - `select` instead of `join` in `close(Both)`;
  - an abort whose flush waits for an empty transmit queue;
  - a write that ignores a full buffer;
  - an alloc that takes any free slot instead of the first (breaks
    `AllocatorRefinement`);
  - a `discard_all_data` loop that does not stop on `Ok(0)`;
  - a drop that leaves the socket's entry in the set (breaks both
    `SetMatchesPools` and `NoSocketSetPanic`);
  - a set that grows when full, as owned storage would (breaks `TypeOK`).
- The stack instances are just large enough for what they check. In the
  per-NOTE sizing, every pool fits the set alone, yet the pools and the
  stack's socket together overfill it. The passing sizing fills the set
  exactly (1 + 2 + 2 + 1 = 6), so it sits at the boundary that
  `SizedForPools` names.

**Fairness (tcp_close only).**

- The executor polls every woken future. So `CloseFlush`, `CloseDiscard`,
  `CloseEnd` and `AbortEnd` are weakly fair, and so is the stack sending a queued RST
  (`SendRst`).
- The peer is assumed to keep acknowledging (`PeerAcks` weakly fair). smoltcp
  has no default timeout, so without this assumption a flush can wait forever,
  and that is the honest reading of the code.
- The user's own steps, the peer's data, FIN and resets are not fair.
- `close(Read)` and `close(Both)` are claimed to terminate only once the
  peer has sent its FIN or reset the connection (`DiscardTerminates`). Until
  then, `discard_all_data` rightly keeps waiting, and nothing forces the peer
  to close.

## 4. Findings

1. **accept can panic (code bug, tcp.rs:106).** The scenario:
   - the peer connects;
   - the peer resets before the accepting task is polled;
   - the accept await resolves (the state has left Listen);
   - the socket is Closed, so `local_endpoint()` is `None`, and
     `unwrap!` panics the whole no_std program.

   This depends on smoltcp's semantics for `accept` and `local_endpoint`, as
   modelled in `Engine`.
2. **The sizing NOTE is not enough (comment/code divergence, tcp.rs:36,
   udp.rs:32, raw.rs:31).** The NOTE says a pool no larger than the stack's
   socket count avoids the `adding a socket to a full SocketSet` panic. The
   pools of all factories on a stack share one set, together with the
   stack's own DNS/DHCP sockets. With three pools of two slots each and a set
   of four entries, one of them the stack's, the fourth socket opened
   panics. What suffices is `SizedForPools`: an entry for each stack socket
   and for every slot of every pool. `NoPanicWhenSized` proves this for
   every configuration.

Other observations, not model-checked:

- `SealedDynPool::free` is declared as `fn free(&self, buffer: B)` in lib.rs,
  but the implementations in tcp.rs, udp.rs and raw.rs are
  `unsafe fn free(&self, NonNull<u8>)`. The models follow the
  implementations.
- raw.rs is not declared as a module.
- `RawSocket`'s `Drop` does not `close()` the socket, unlike spec §4 step (a).
  This is harmless, because the field drop removes it.

## 5. Proofs

`Pool_proofs`, `SlotAllocator`, `TcpSocket_proofs`, `Datagram_proofs` and
`Stack_proofs` are checked by `tlapm` with no unproved step. Every
invariant and action property of the passing runs is proved. Only the
two liveness properties are not (see below).

| Theorem | Statement |
|---|---|
| `TypeCorrect`, `DTypeCorrect` | `Spec => []TypeOK` |
| `OwnInvariant`, `DOwnInvariant` | `Spec => []OwnInv` (resp. `DOwnInv`) |
| `DatagramBufferSafety` | `Spec => []BufferOwnership` |
| `SlotSafety` | `Spec => []SlotOwnership` |
| `Refinement`, `DRefinement` | `Spec => AllocatorRefinement` |
| `SetPairing` | `Spec => []SetMatchesPools` |
| `NoPanicWhenSized` | `SizedForPools` implies `Spec => []NoSocketSetPanic` |
| `StackTypeCorrect` | `Spec => []TypeOK` for `Stack` |
| `CloseInvariant` | `Spec => []CloseInv` |
| `CloseDrained` | `Spec => CloseOkMeansDrained` (an action property) |
| `AllocScanCorrect` | under `PoolTypeOK`: `~PoolExhausted <=> \E n : IsFirstFree(n)`, and that `n` is unique |
| `FreeThenAllocReuses` | from an exhausted pool, `Free(n)` makes `n` the first free slot and the only one |
| `AllocatorExclusive` (in `SlotAllocator`) | `Spec => []Exclusive`: a slot has at most one holder, a task holds at most one slot |
| `HoldersExclusive`, `DHoldersExclusive` | `Spec => []Abstract!Exclusive`, from the refinement |

**Assumptions.** `N \in Nat`, `MaxQ \in Nat`, `Tasks # {}`, and
`Kind \in {"udp", "raw"}`. For `Stack`, the assumption is `StackAssumption`:
- `Kinds` is finite and contains neither of the tags `"stack"` and
  `"vacant"`;
- `PoolN \in [Kinds -> Nat]`;
- `Reserved \in 0 .. SetCap`.

Nothing else: the theorems hold for every pool size and every number of
tasks and kinds.

**The argument.** `SlotOwnership` is not inductive on its own:

- `Drop` frees `token[t]`, which is safe only if no other task holds that
  slot;
- `NewAndStart`/`NewOk` overwrite `token[t]`, which is safe only if the task
  held no token.

The inductive invariant adds two conjuncts:

- `TokenMatchesPc`: a task holds a token exactly when it is not idle;
- `BoundIsToken`: the engine socket uses exactly the wrapper's slot.

TLC checked this invariant on the ownership instance before it was proved.
The step proof has one lemma per kind of step:

- *frame*: steps that touch neither the pool nor any token;
- *allocate*: the first free slot is owned by nobody, and the case split is
  on whether a slot is the new one or not;
- *drop*: the freed slot was owned only by the dropper.

`SlotOwnership` then follows from the invariant in every state. The type
lemmas of the TCP proof include one per field of the engine record, because
the SMT backend cannot show that a record `EXCEPT` stays in the record set.

**Refinement.** `Refinement` and `DRefinement` rest on the ownership invariant:

- *initial states*: `Init` maps to `Abstract!Init`, with every holder set
  empty;
- *acquire* (`RefAcquire`, `DRefAcquire`): `NewAndStart`/`NewOk` take a slot
  that nobody holds. All lower slots are used, so each has a holder. The
  task held nothing, because it was idle.
- *release* (`RefRelease`, `DRefRelease`): the dropper is the only task
  whose token names the freed slot;
- *stutter*: every other step leaves `token`, and hence `Holders`,
  unchanged.

Each case is split per slot, into the slot that changes and the rest.

**The stack.** `SetMatchesPools` is inductive together with `TypeOK`:

- `Open` adds the entry of a slot that was free and so had none;
- `Close` removes the one entry of a used slot.

`NoPanicWhenSized` strengthens this with `~panicked`. The add in `Open`
would panic only on a full set, whose `SetCap` entries are all distinct
owners. But while a pool has a free slot, there are at most
`Reserved + Cardinality(WrapperOwners) - 1` live owners. When
`SizedForPools` holds, that is fewer than `SetCap`, so the pigeonhole
principle (`FS_PigeonHole`) would give two equal entries, which
`SetMatchesPools` excludes. Finiteness of `WrapperOwners` comes from a
surjection of `Kinds` onto its parts (`FS_Surjection`, `FS_UNION`).

**Close.** `CloseOkMeansDrained` is about the step of `CloseEnd`, which
sees only `flushSt` and `readSt`. The inductive invariant `CloseInv` says
what those mean of the engine socket. Its conjuncts, per task, are:

- `Connected`: an open, closing or aborting socket is established or
  closed. Connect and accept return only an established one, and an
  established connection only becomes closed.
- `ClosePlan`: while closing, the futures started match `what`.
- `FinQueued`: while a close's flush runs on an established connection, our
  FIN is queued. `SocketClose` queued it, and it only moves on to `acked`.
  This is what makes a `Quiescent` engine mean that the write side is done.
- `SidesDone`: a flush or discard that finished `ok` stays drained until
  the close returns. Nothing queues data or reads while the task is
  closing. The peer acknowledges nothing more once all is acknowledged, and
  it sends no data after its FIN.

TLC checked `CloseInv` before it was proved, as an invariant of `Spec`, on
two instances:
- 1 task with `MaxQ = 2`: 2,319 states;
- 2 tasks, 2 slots, `MaxQ = 1`: 2.7 M states.

The step proof has the following parts:
- a frame lemma for the tasks a step does not touch (`CloseOthers`,
  `CloseFrame`);
- one lemma per group of actions of the acting task;
- one lemma for the engine, with a case per kind of engine step.

`OnlyCloseEndReopens` shows that only `CloseEnd` takes a closing task back
to `open`. With `CloseJoined`, an `Ok` result means each started future
ended `ok`, and `CloseInv` turns that into the drained sides.

**The pool's scan.** `AllocScanCorrect` relates `IsFirstFree`, the slot
returned by alloc's scan, to the reference definition of a non-exhausted
pool. The least free slot exists by `WFMin` and `NatLessThanWellFounded`,
which take no operator parameter. So the NoBuffers and success branches of
every `new` together cover all states, and the success branch takes one
determined slot. `FreeThenAllocReuses` is the lib.rs:105 hazard: after a
free of an exhausted pool, exactly one more allocation is possible, and it
reuses the freed slot.

**What the refinement carries.** `AllocatorExclusive` is proved once, on the
abstract allocator. `HoldersExclusive` and `DHoldersExclusive` obtain it for
the wrappers from `Refinement`/`DRefinement` by temporal reasoning alone.

**Only model-checked.** `ShutdownTerminates` and `DiscardTerminates` stay
with TLC. Liveness needs fairness and ENABLED, which are out of TLAPS's
reach.

## 6. Not modelled

- **DNS.** It is stateless forwarding, and the `todo!()` panics on every call.
- **Address conversion.** Only its None outcome is kept.
- **Logging macros.**
- **The split halves as separate objects.** Their read, write, flush and
  readable are the same one-await operations on the same socket. A join of
  the two halves is therefore an interleaving of `Read`, `Write`, `Flush`
  and `Readable`.
- **`readable()` of UDP and raw sockets.** It waits and returns `Ok(())`,
  and it changes nothing.
- **The engine's internals** beyond what the awaits observe.
- **smoltcp's `SocketSet` beyond add and remove.** Only the fact that an
  entry is occupied is kept, and by whom. Handles are not kept, since each
  wrapper owns exactly one entry.

## 7. Plan for the next sittings

1. **Stack with the wrappers' control.** Compose `Stack` with `TcpSocket` and
   `Datagram` (the wrappers' tasks opening through `Open`), so that the
   awaits of connect and accept interleave with the set's capacity.
