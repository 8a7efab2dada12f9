# TLA+ specifications of the OS-camp base exercises

The repository is a course: 24 small Rust libraries under `exercises/`, each a
component of an operating system or of a concurrent program built from scratch,
`cli/`, the tool that watches the exercises and runs their tests, and
`check.sh`, a script that does the same once. This directory models all of them
in TLA+, checks the models with TLC on small instances, and proves what matters
most with TLAPS for every instance.

Paths below are relative to `src/`; `E/` stands for `exercises/`.

## Inventory

| component | state | operations | what is hard about it | module |
|---|---|---|---|---|
| `E/03_os_concurrency/05_rwlock` | one `AtomicU32` (reader count, `WRITER_HOLDING`, `WRITER_WAITING`), an `UnsafeCell` | `read`, `write`, guards' `deref`, `drop` | compare-exchange loops of many threads on one word; one waiting bit for all writers; memory orderings | `RwLock` |
| `E/03_os_concurrency/03_spinlock`, `04_spinlock_guard` | `AtomicBool`, `UnsafeCell` | `lock`, `try_lock`, `unlock`; guard `drop`, also when unwinding | spurious failures, a panic while the lock is held, orderings | `SpinLock` |
| `E/03_os_concurrency/01_atomic_counter` | `AtomicU64` | `increment`, `decrement`, `compare_and_swap`, `fetch_multiply`, `get` | the retry loop under interference; wrap-around | `AtomicCounter` |
| `E/03_os_concurrency/02_atomic_ordering` | data and flag atomics; flag and value | `produce`, `consume`, `reset`; `init`, `get` | publication by Release and Acquire | `FlagChannel`, `OnceCell` over `WeakMemory` |
| `E/02_no_std_dev/02_bump_allocator` | heap bounds, atomic `next` | `alloc`, `dealloc`, `reset` | alignment, end of heap, overflow, concurrent allocs | `BumpAllocator` |
| `E/02_no_std_dev/03_free_list_allocator` | bump pointer, intrusive list of free blocks | `alloc`, `dealloc` | first fit and removal; head read and written in two steps | `FreeListAllocator` |
| `E/02_no_std_dev/05_fd_table` | vector of `Option<Arc<dyn File>>` | `new`, `alloc`, `get`, `close`, `count` | reuse of closed slots | `FdTable` |
| `E/02_no_std_dev/01_mem_primitives` | the caller's memory | `my_memcpy`, `my_memmove`, `my_memset`, `my_strlen`, `my_strcmp` | overlap in both directions | `MemPrimitives` |
| `E/02_no_std_dev/04_syscall_wrapper` | registers | `syscall3`, `sys_write`, `sys_read`, `sys_close`, `sys_exit` | what `asm!` declares against what the ABI does | `Syscalls` |
| `E/04_context_switch/02_green_threads` | vector of threads, `current`, two globals | `spawn`, `run`, `yield_now`, `thread_finished`, `schedule_next` | round-robin hand-over, an entry passed through a global | `GreenThreads` |
| `E/04_context_switch/01_stack_coroutine` | `TaskContext`s, callee-saved registers | `alloc_stack`, `init`, `switch_context` | register order and offsets in assembly | `StackCoroutine` |
| `E/06_page_table/04_tlb_sim` | TLB entries, FIFO pointer, current ASID, page table | `lookup`, `insert`, three flushes, `add_mapping`, `switch_asid`, `translate` | a cache that may go stale, aliasing between address spaces | `Tlb`, `Mmu` |
| `E/06_page_table/03_multi_level_pt` | SV39 nodes by page number, next free page number | `map_page`, `map_superpage`, `translate` | three levels, superpages and pages over one another | `Sv39` |
| `E/06_page_table/02_page_table_walk` | a vector of entries | `map`, `unmap`, `lookup`, `translate` | index ranges, the width of an address | `SinglePageTable` |
| `E/06_page_table/01_pte_flags` | none | `make_pte`, `extract_*`, `is_*`, `check_permission` | masks and shifts | `PteFlags` |
| `E/01_concurrency_sync/01_thread_spawn`, `02_mutex_counter` | join handles, a mutex, a thread-local | eight functions that spawn and join | one of several threads panics; guard scopes | `Threads` |
| `E/01_concurrency_sync/03_channel`, `E/05_async_programming/03_async_channel` | unbounded and bounded queues | producers, `fan_in`, receive until closed | dropping the last sender, a capacity of 0, cancellation | `Channels` |
| `E/01_concurrency_sync/04_process_pipe` | a child process and two pipes | `pipe_through_cat`, `pipe_through_grep`, `run_command*`, `get_exit_code` | the whole input is written before anything is read | `Pipes` |
| `E/05_async_programming/01_basic_future`, `02_tokio_tasks`, `04_select_timeout` | countdown, task handles, timers | `poll`, spawn and await, `with_timeout`, `race` | wake before `Pending`, a timer racing its future | `Futures` |
| `cli`, watch mode | results, the exercise in view, panels, file events | `watch_mode` and its keys | files saved while a test runs; flags and screen | `WatchMode`, `Panels` |
| `cli`, other commands | none kept | `list`, `check`, `run`, `hint`, `help` | edits between the tests | `OneShot` |
| `check.sh` | three counters | the loop over the exercises | `set -e` and arithmetic commands | `CheckScript` |

How they interact: the components of one exercise call only the standard
library; the composition inside `src/` is `Mmu` over `Tlb` and its page table,
the keys of watch mode over its loop, and the `cli`, which runs each exercise's
tests as a child process. The threads, tasks or processes of one component
interact through its shared state, its channels or its pipes.

Hazards - the places where a test would hardly reach what can go wrong - are
listed with their lines in `PROJECT.json`; each names the properties that watch
it, or says why none does.

## Modules

| module | models | abstract specification |
|---|---|---|
| `RwLock`, `SpinLock` | the locks | `ReadersWriter` |
| `WeakMemory` | Rust atomics with Relaxed, Acquire and Release | |
| `FlagChannel`, `OnceCell` | over `WeakMemory` | |
| `AtomicCounter` | the counter | |
| `Threads` | functions that spawn and join | |
| `Heap` | what the allocators share: layouts, blocks, `AlignUp`, `Fits` | |
| `BumpAllocator`, `FreeListAllocator` | the allocators | |
| `FdTable` | the descriptor table | `Descriptors` |
| `MemPrimitives`, `Syscalls` | byte loops, system calls | definitions in the modules |
| `GreenThreads`, `StackCoroutine` | the two context switchers | |
| `Channels`, `Pipes`, `Futures` | messages, processes, async | |
| `Tlb`, `Mmu` | the cache and the unit around it | `AddressSpaces` |
| `Sv39`, `Sv39Format` | the three-level table | `PageMap` |
| `SinglePageTable`, `PteFlags` | the one-level table, one entry | |
| `WatchMode`, `Panels`, `OneShot` | the `cli` | |
| `CheckScript` | the loop of `check.sh` | |
| `MC_*` | constants and the joint runs | |
| `*Proofs`, `LeastElement` | theorems | |

Every top-level definition that stands for code has its lines in
`PROJECT.json` ("map"). Definitions keep the names of the code where TLA+
allows it; a definition marked `mutant` is not part of the specification: it is
the form a definition next to it would have after a plausible mistake, and each
property that is checked fails when its mutant is put in the place of the
original.

### RwLock

State: `state` is the `AtomicU32` as a record (count, `holding`, `waiting`);
adding to a full count and subtracting from an empty one carry and borrow into
the flags as the integer does. `data` is the protected value; `pc` is the place
of each thread in `read()`, `write()` or the life of its guard, `seen` its local
`s`, `reg` what `*g += 1` has loaded. One action per atomic operation: `ReadLoad`,
`ReadCas`, `DropRead` (`fetch_sub`), `WriteAnnounce` (`fetch_or`), `WriteLoad`,
the two compare-exchanges of `write()`, `DropWrite` (`fetch_and`); and one per
access through a guard.

Memory order: the only atomic location is the word, and all its stores are
read-modify-writes, so a release sequence never ends and interleaving the
operations is exact for its value. `know[t]` is the set of accesses to the data
that happen before `t`'s next step, `released` the set the word publishes; an
Acquire adds the second to the first, a Release the first to the second.
`DataRaceFree` is stated in these terms: it relies on the orderings in the code,
not on mutual exclusion.

### SpinLock

Both spin locks: `guarded`, chosen at the start, tells `04_spinlock_guard` from
`03_spinlock`. `try_lock` exists for the plain one; a panic inside the critical
section, at any of its steps, for the guarded one, whose guard's `drop` releases
the lock while the stack unwinds. A failed `compare_exchange_weak`, spurious or
not, changes nothing and is a stuttering step. The memory orderings are treated
as in `RwLock`.

### AtomicCounter, FlagChannel, OnceCell, WeakMemory

The counter's operations are Relaxed, but for `compare_and_swap`, which is AcqRel,
or Acquire if it fails; nothing else is published through the counter, so
that its orderings decide nothing here. Its read-modify-writes see the latest
value, its loads, a failed exchange's among them, may return an older one:
`unseen[t]` is the sequence of values from the one `t` saw last to the latest.
`AttemptsLeft` is how many of them can still be handed to `fetch_multiply`. `fetch_multiply` is a load, then
compare-exchanges until one succeeds; in a build with overflow checks the
multiplication may panic, in others it wraps, so both are possible.

`WeakMemory` is a memory of messages and views: a location keeps every message
stored to it in the order of the stores; a load returns any message from the one
its thread's view demands; a Release store publishes the storing thread's view
with its message, an Acquire load merges it; joins and spawns merge views. Two
things it leaves out cannot be seen by this code: a load that is reordered
behind a later store of its thread (no thread here stores anything after a
Relaxed load of a location others write, but in `reset`, after joining them), and
stores to one location by two unordered threads (each location is stored to by
one thread, by read-modify-writes, or after a join). `FlagChannel` has rounds:
`reset`, which no test calls, is called by a thread that has joined all others, as
two Relaxed stores require.
`OnceCell` has any number of `init` and `get` calls and joins.

### Threads

One call of one of the eight functions: `Spawn` starts the workers one by one
while those started already run; a worker computes on its own, or locks
(`Lock` keeps what it read under the guard, `Update` writes it back and drops
the guard), or counts in its thread-local. `call.panics` are the workers whose
closure panics, on an arithmetic overflow or because `handle_panic` tells it to.
The caller joins in order; an `Err` makes it panic (`unwrap`), which detaches
the workers left, but not before all are over inside `thread::scope`, or becomes
`handle_panic`'s result.

### Heap, BumpAllocator, FreeListAllocator

Addresses are integers below `AddressSpace`, the machine's `usize`; `AlignUp`
wraps, `Fits` is the code's `checked_add` and comparison. In the bump allocator
an `alloc` is its load and its loop of compare-exchanges, and any thread may call
`reset` between; `live` and `handed` are the history the properties speak of: the
blocks handed out since the last reset, and their number.

The free list: `header[a]` is the `FreeBlock` in memory at `a`; `Alloc` reads
the head, `WalkOn`, `Found` and `Unlink` are the walk with its read of `next` and
the write that bypasses the block, `WalkEnd`, `Bump` and `Fail` the way without
a suitable block; `Dealloc`, `WriteHeader` and `Push` free one. `live` holds what
callers have. A dealloc passes the layout of its alloc, as `GlobalAlloc` demands.

### FdTable, MemPrimitives, Syscalls

`FdTable` is the vector: `alloc` fills the first vacancy (`Reuse`) or grows the
vector (`Push`); `close` never shrinks it. `Descriptors` knows no vector: a
partial map whose new descriptor is the least one not in use.

`MemPrimitives` runs the byte loops, one byte after another, on every content of
a memory of a few bytes and every argument the functions' "Safety" sections
allow. What they compute is compared with the memory before the call.

`Syscalls` has a register file. `Load` puts the call where `asm!`'s operands say
and the kernel (external) takes it from where the crate's own ABI tables say,
so that a wrong register or number shows; it then overwrites what that ABI
clobbers. What `asm!` declares as written is compared with what was.
`riscv64_abi` is a table without a `syscall3`; on other systems the stub panics.

### GreenThreads, StackCoroutine

`state[i]` is `threads[i].state`, `current` and `pending` are
`Scheduler.current` and `CURRENT_THREAD_ENTRY`; `cpu` is the thread whose stack
is really in use, which `switch_context` changes and which the scheduler's own
records should agree with. `ScheduleNext` is the whole of `schedule_next`: the
search round the ring, the state of the thread that leaves, the hand-over of a
first entry, the switch. A thread's body is any number of `yield_now` calls.
`calls` and `overtaken` are history.

`StackCoroutine` is one level below: fourteen registers, contexts as words at
offsets, the sequences of `sd` and of `ld` instructions. A program changes its
registers between switches and may switch to any other.

### Channels, Pipes, Futures

`Channels`: the set `tx` of live senders, the queue, the producers' progress.
Its four functions differ in who gets a clone of the sender and in the capacity.
`Cancel` drops the future of an async function where it waits; a producer that
sends then panics in `unwrap` and its sender goes with it (`Finish`).

`Pipes`: the parent's calls block as the operating system's do; the child, in an
order of its own, reads, holds back what it has no room to write, and writes.
The pipes hold one chunk each and the child one, so that blocking is reached
with four. What grep selects is any subset of the chunks.

`Futures`: task 0 is the caller's. `woken` are the tasks to be polled: a wake
that arrives during a poll is kept. Timers fire in the order of their deadlines,
late at will. The runtime, timers and `select!`'s random order are external, as
`tokio` defines them; the polls are the code's.

### Tlb, Mmu, Sv39, SinglePageTable, PteFlags

`Tlb` is the array with its FIFO pointer; `Mmu` composes it with the page table
and the current ASID, and adds what its users may do to its public `tlb`: the
three flushes, and inserting a translation the page table holds. The statistics
and the flags of an entry are stored and never decide anything.

`Sv39` is the map from page numbers to nodes, with `next_ppn`. An address is its
three indices; offsets pass through. `MapSuperpage` writes the new node's
number to node `new_ppn - 1`, as line 233 does. `CarefulSpec` calls it only when
the root entry exists or the table is fresh, as the tests do; `MCSpec` calls it at
any time.

`SinglePageTable` keeps the width of its `u32` addresses: `make_pa` loses the
high bits of a page number, and an index past the vector panics. `PteFlags`
makes entries from words wider than their fields.

### WatchMode, Panels, OneShot, CheckScript

The loop of `watch_mode`: the first scan, one test of the current exercise, the
jump after a pass, the keys `n`, `p`, `r`, `q`, the look at the watcher's channel
and its two drains around a sleep. The user saves an exercise's file, broken or
repaired, at any moment, also while cargo compiles; the notification takes its
way (`inflight`) until the watcher's thread sends it (`fs_rx`). cargo reads the
sources at one instant between the start and the end of its run. `Panels`
extends it with what is on the screen, the flags of the two panels and the keys
`h` and `l`; each of its steps is one of `WatchMode`'s.

`OneShot` is `main` with the commands that end by themselves; the user edits
between their tests. `CheckScript` has the three counters of `check.sh`, whose
increments are commands with a status.

## What is checked

A run that joins several components chooses one of them in its initial state and
lets only that one move; a property of one component says nothing about the
states of another, and the fairness of a component at rest asks nothing.

| run | module | bounds | shows |
|---|---|---|---|
| `locks` | `MC_Locks` | 3 threads, 2 of which may write; `ReaderMask` 2; value modulo 2; counter modulo 4, loads at most 1 value behind; 2 produces, 2 rounds; 3 workers of 2 rounds | `RwLock`: the word counts the guards, no data race, a waiting bit has an owner, refinement of `ReadersWriter`, somebody enters; with one writer, it gets in. Spin locks: no race, no lost increment, progress after panics. `fetch_multiply` fails no more often than others store, and returns. `FlagChannel`: a value of this round. `OnceCell`: one winner, its value after a join. `Threads`: calls end, nothing joined is lost |
| `rwlock_priority` | `RwLock` | 1 reader, 2 writers | violated: readers overtake a waiting writer |
| `once_value` | `MC_Locks` | 2 threads | violated: `get` returns `Some(0)` |
| `nostd` | `MC_NoStd` | bump: 6 bytes, 3 threads, 2 that reset; list: 16 bytes, 3 blocks held; 4 slots, 2 files; 5 bytes of 3 values; 2 words | no overlap, in the heap, aligned; free and held memory disjoint; allocs return; refinement of `Descriptors`; the byte loops do what they say; the kernel serves the call that was made and no live register is lost |
| `freelist_concurrent` | `MC_FreeListAllocator` | 12 bytes, 2 threads, 2 blocks | violated: one block handed out twice |
| `tasks` | `MC_Tasks` | up to 4 green threads; 2 coroutines; 3 producers or 3 items; pipes and child of one chunk, 4 chunks; 3 polls or tasks, deadlines 0 to 2 or never | each wrapper gets its own entry, a finished thread ran, nobody is overtaken; registers survive switches; a receiver returns all messages, a process call the child's output, a future the right answer; and everything comes to its end (`CallsEnd`): ready threads run, `run` returns, receivers find the channel closed, calls whose input fits the pipes end, futures become ready |
| `paging` | `MC_Paging` | 2 slots, 2 ASIDs, 2 pages, 2 frames, 3 mappings; nodes of 2 entries, 4 pages, 3 superpages; 3-bit addresses; 8-bit entries | coherence, FIFO replacement, refinement of `AddressSpaces`; the nodes form a tree, refinement of `PageMap`; frames share no physical address; fields do not run into each other |
| `sv39_superpage` | `MC_Paging` | the same | violated: mapping a superpage destroys another mapping |
| `watch` | `MC_Cli` | 3 exercises, 1 notification on its way | no save missed; the screen shows the state of now; congratulations earned; the other commands' reports are true; a solved session and the other commands end |
| `watch_regression` | `WatchMode` | 2 exercises | violated: congratulations although the last test of an exercise failed |
| `list_key` | `Panels` | 2 exercises | violated: after `l` and `h`, `l` shows no list |
| `check_sh` | `CheckScript` | 4 exercises, 2 of module 4 | violated: the script ends after its first exercise |

Why the bounds are enough:

- Locks: three threads give a reader, a holder and a waiter at once, two waiting
  writers, and a reader beyond `ReaderMask` = 2, so that the full count is met.
  Which threads write is chosen at the start, so the run holds executions with
  one writer and with two. An increment is lost or not modulo 2.
- Counter: modulo 4 with multiplier 2 meets wrap-around and a value that comes
  back (ABA); being one value behind is enough for every load to be stale.
- Threads: three workers give one that panics before, between and after others;
  two rounds let a worker lose an increment to another.
- Bump allocator: the heap starts at an odd address and its 6 bytes end inside
  the largest layout; sizes 1 to 3, alignments 1 to 4. Two resetting threads
  against a third in its loop let `next` return to a value it had.
- Free list: layouts below, above and more aligned than a header; three blocks
  held let a list of three blocks form and a middle one be removed.
- Descriptors: four slots let two vacancies stand between slots in use.
- Memory: five bytes give copies of three bytes that overlap by two, one and
  none in both directions, and strings that are prefixes of each other.
- Green threads: with four the ring has threads that are Ready, Finished and
  Running at once, and several runs of the same scheduler.
- Coroutines: two and the main program, so that a coroutine switches to another
  and not only back; one of their two stack ends is not a multiple of 16.
- Channels: three producers of one message, or one of three, against a capacity
  of as many; the async channel is never too small for its messages in this
  code, so that only a receiver that is gone stops a producer.
- Pipes: with one chunk in each place, four chunks do not fit and three do.
- Futures: three tasks complete in every order; deadlines before, at and after
  each other and ready at once.
- TLB: two slots for four page keys, so that eviction, aliasing between address
  spaces and updates in place all occur; three mappings let a page be mapped twice.
- Sv39: two entries per node suffice for a neighbour in the node, one below the
  same root entry and one below the other; `new_ppn - 1` meets the root and
  nodes of both lower levels.
- One-level table and entries: addresses past the vector, a page number past
  the end of memory, arguments wider than their fields.
- Watch mode: three exercises are needed for a jump that wraps, one that skips a
  finished exercise and one left behind. `inflight` only bounds how far saves run
  ahead of their notifications; the channel already merges them.

Fairness: a runnable thread, task or process runs (the scheduler of the
operating system or of `tokio`), stores become visible,
`compare_exchange_weak` does not fail spuriously for ever, a guard is dropped in
the end, a child process that can go on does, timers fire, a test run ends, the
watcher delivers. Nobody has to call a function, press a key or save a file, and
no future has to be cancelled. For locks fairness is weak and per thread: a
spinning thread is enabled all the time, so weak fairness is enough for its loop
and yet does not give any single contender its turn; hence `SomebodyEnters`, the
`SomebodyTakes` in `ThreadsGoOn`, and starvation freedom only for the sole writer
of `OneWriterRuns`. `MultiplyReturns`, also in `ThreadsGoOn`, and `CallsReturn`
ask for a return only when the interference ends (for the bump allocator: the resets), as their formulas
say. `RunReturns` holds if every entry returns, `CallEnds` of `Pipes` if the input fits
(below), `FutureEnds` unless `race` is given two futures that never are ready;
`CallsEnd` is the conjunction of these and of the others of the run `tasks`.

`CHECK_DEADLOCK FALSE` is set where the system may stop: in `locks`, whose
threads may all have ended or panicked; in `nostd`, after `sys_exit` or a panic;
in `tasks`, when a call has ended; in `paging` and `sv39_superpage`, after a
panic; in `check_sh`, when the script has ended.

### Where the code disagrees with its documentation

- `rwlock_priority`: `05_rwlock/src/lib.rs` says that once a writer waits no
  reader is admitted before it. The one waiting bit is cleared whenever any
  writer takes or drops the lock, so a second waiting writer is overtaken. With
  a single writer thread it gets the lock (`OneWriterRuns`).
- `freelist_concurrent`: the free list is declared `Sync`, with a head protected
  by a mutex in test builds; the mutex covers single reads and writes of the
  head, so two concurrent `alloc`s return the same block.
- `sv39_superpage`: `map_superpage` finds the root as `new_ppn - 1`, which is
  true only of a fresh table.
- `once_value`: `OnceCell::init` sets the flag before it stores the value, so a
  `get` in between returns the initial 0 as if it had been set.
- `watch_regression`: `done` is never taken back, so an exercise that fails again
  after it passed is skipped by the jump and covered by the congratulations.
- `list_key`: `h` draws without the list and leaves the list's flag set, so that
  the next `l` turns the flag off instead of showing the list.
- `check_sh`: under `set -e` an increment of a counter that is 0 ends the script.

Met and without a run:

- `AlignUp` in both allocators is unchecked: for a heap that ends less than an
  alignment below the top of the address space it wraps, and the block is below
  the heap (the proofs assume `NoWrap`).
- A block of the free list reused for a smaller layout and freed again keeps
  only the smaller size: its tail is not handed out again.
- `04_tlb_sim`'s `HINT.md` (line 4) says a free slot is used first; the code and
  its doc comments replace in plain FIFO order, which `EvictsOldest` states.
- `lookup` of the one-level page table panics for an address past the vector,
  where its documentation speaks of a page fault for pages that are not mapped.
- `pipe_through_cat` and `pipe_through_grep` write all input before they read: an
  input larger than the two pipes and the child's buffer blocks both for ever.
  The tests' inputs fit, and so does `FitsPipes` in `CallEnds` of `Pipes`.
- `with_timeout` returns `Some` also after the timeout, if both are ready when the
  task is polled; `race` then takes either.

## What is proved

The theorems hold for every value of the constants that the named assumptions
allow; `tlapm` checks all of them. TLC evaluates the assumptions that are
written as `ASSUME` in every run.

| theorem | of | assumes |
|---|---|---|
| `RwLockProofs` | | |
| `Typing`, `MutualExclusion`, `WordIsAccurate`, `WaitingIsOwned`, `NoDataRace`, `Implements` | `TypeOK`, `Exclusion`, `CountAccurate`, `NoOrphanWaiting`, `DataRaceFree`, `ImplementsReadersWriter` | `RwLockAssumption`: finitely many threads, `ReaderMask` and `Modulus` positive |
| `LocksProofs` | | |
| `NoSpinDataRace`, `SpinLockImplements` | `SpinDataRaceFree`, `IncrementsAtomically` | nothing |
| `OnceCellHasOneValue` | `OneValue` | nothing |
| `ConsumersGetTheirRound` | `ConsumesThisRound` | `ChannelAssumption`: the producer is one of the threads |
| `MultiplyRetriesBounded` | `RetriesBounded` | `CounterAssumption`: the modulus is positive, multipliers count |
| `NothingJoinedIsLost` | `WorkJoined` | `WorkersAssumption`: the bounds count |
| `NoStdProofs` | | |
| `BumpBlocksDisjoint`, `BlocksFit`, `PointerCovers` | `NoOverlap`, `BlocksInHeap`, `NextCovers` | `HeapAssumption`: addresses and layouts are what Rust's are; `NoWrap`: the heap ends an alignment below the top of memory |
| `ListBlocksDisjoint` | `BlocksDisjoint` | `ListAssumption`: also that alignments and the header's divide one another; `ListNoWrap` |
| `IsDescriptorTable` | `ImplementsDescriptors` | the bound `MaxFds` is a natural number |
| `WrappersServed` | `CallServed` | nothing |
| `BytesAreRight` | `MemoryCallsCorrect` | `MemoryAssumption`: sizes and bytes are natural numbers |
| `TasksProofs` | | |
| `SchedulerKnowsCpu`, `WrapperGetsOwnEntry`, `FinishedThreadsRan`, `NobodyIsOvertaken` | `OneRunning`, `OwnEntry`, `FinishedRan`, `NoOvertaking` | `MaxThreadsAssumption`: at least one thread may be spawned |
| `CoroutineResumes` | `ResumesWhereLeft` | `CoroutineAssumption`: addresses are natural numbers, the main program is no coroutine |
| `AllMessagesArrive`, `PipeReturnsOutput`, `FuturesAnswerRight` | `ReceivesAll`, `PipeAnswers`, `FuturesAnswer` | `BoundsAssumption`: the bounds count, and no deadline is `Never` |
| `PagingProofs` | | |
| `NodesFormTree`, `TranslatesWhatWasMapped` | `Tree`, `ImplementsPageMap` | `Sv39Assumption`; `CarefulSpec`; `FramesFree`, always: no frame given to `map_superpage` is a page that holds a node |
| `FramesStayApart` | `FramesApart` | `SizesAssumption`: sizes are positive |
| `FieldsStayApart` | `PteFields` | `FieldsAssumption`: the fields of an entry are apart |
| `MmuProofs` | | |
| `OneEntryPerPage`, `TlbCoherent`, `TlbIsInvisible`, `FirstInFirstOut` | `UniqueEntry`, `Coherent`, `CacheIsTransparent`, `EvictsOldest` | `TlbAssumption`: a capacity above 0 |
| `WatchModeProofs` | | |
| `TypeCorrect`, `VerdictIsOfCurrent`, `SavesAreNoticed`, `CongratulationsAreEarned`, `ScreenIsCurrent` | `TypeOK`, `VerdictOfCurrent`, `NoSaveMissed`, `CongratulationsEarned`, `ScreenTells` | `WatchModeAssumption`: there is an exercise |
| `ReportsAreTrue` | `ReportTrue` | the same |

`LeastElement` has the facts about least elements that several proofs need: the
library's induction theorems take an operator as a parameter, which the
installed provers cannot instantiate, so an induction is done by hand, as a
least counterexample.

The proof modules extend the `MC_` modules (or, for `RwLock` and `Mmu`, the module
those extend), so that the theorems are about the very definitions the runs
check. A component that is an instance there is proved under its own
initial condition and next-state relation, which the joint run follows while it
has chosen that component. Types, and what is a step on the way
(`OneRunning`, `UniqueEntry`, `NextCovers`), are proved and have no property of
their own in a run.

Two hypotheses are not `ASSUME`s of the models. `NoWrap` and `ListNoWrap`: with a
heap that ends at the top of the address space `AlignUp` wraps (see above).
`FramesFree`: `map_page` below a superpage follows the frame number as if it
were a node, so a frame that is also a node's page would be written into.
(`test_superpage_and_normal_coexist` gives such a frame, and maps no page below it.)
`CarefulSpec` is the use the tests make of `map_superpage`; without it the
properties are false (`sv39_superpage`).

### The arguments

**RwLock.** `LockInv` = types, `CountAccurate`, `Exclusion`, `NoOrphanWaiting`
and `SeenAdmits`: the word a thread is about to compare with admits it. Mutual
exclusion alone is not inductive, since nothing in it stops a
compare-exchange; accuracy of the count and `SeenAdmits` do. `Counting` says
how the number of holders moves. `RaceInv` adds `Published`: an access that the
word has not published was made under a guard that still lives, so whoever the
lock admits has learnt every conflicting access. Refinement needs `RegFresh`:
what a writer has loaded is still the value when it stores.

**SpinLock.** `SpinInv` = types, `SpinExclusion` (the flag is set exactly while
one thread holds the lock), `SpinPublished` (a free lock has published every
access), `DataRaceFree` and `SpinRegFresh`. `DataRaceFree` alone is not
inductive: what a taker learns is what was published. A panic is one more
unlock.

**OnceCell.** Either nobody has won and nothing is stored (`Unwon`), or one thread
has (`WonBy`): then both locations hold one message after the initial one, and
every thread that joined the winner after its `init` has a view of both. Views
lead to messages that exist (`Cells`), so a load after the join has one message
to choose.

**FlagChannel.** During a round there is a base view (`Running`): every thread is
past it, what lies above it in `data` was produced in this round, and a `ready`
message from there on that holds `true` carries a view of data above it. So
whoever acquires `true` can only load this round's values. Between rounds the
resetting thread is alone and has joined all others (`Resetting`); what it
stores becomes the next base.

**AtomicCounter.** `AttemptsLeft` is a measure: the values a thread has not seen,
and one more if its local value is not the oldest of these. A failed exchange
returns a value other than the local one, hence a later one, or the oldest when that
is not the local one: the measure falls (`RetryNearer`). A store by another thread
adds at most one value (`WriteNearer`); a value that comes back is a new one in the
sequence. `CounterTypes` gives what that needs: nobody has nothing left to see.

**Threads.** `ThreadInv`: who holds the mutex has read the latest counter
(`Working`); the counter is the number of rounds done, as the cardinality of
the set of pairs of a worker and a round (`Counted`, `OneMoreRound`); the list has
each worker that did its round, once (`Listed`). When all are joined every worker
has done all its rounds, so that the set of pairs is a product, and a sorted list
of different numbers that are all those below `n` is 0 to `n - 1`
(`SortedNumbers`).

**BumpAllocator.** `Inv`: the pointer is in the heap and past every live block,
every live block is aligned, and each has been counted once; a call's local
`prev_next` need not be current, because only an equal compare-exchange hands a
block out. `AlignUpRounds` is the arithmetic; it needs `NoWrap`.

**FreeListAllocator**, for one thread (with two `BlocksDisjoint` is false, see
`freelist_concurrent`). The list is described by a set `F` of the addresses of its
blocks and a rank that falls along `next`: the blocks in `F` are apart from one
another and from every block that is held, and all of them lie below the
bump pointer (`FreeInv`); the head and every `next` are in `F` or null and no two
lead to one block (`LinksInv`). `CallInv` is what the call under way knows: the walk is at the
head or behind a block of `F`, the block being freed is in neither set. That the
list `BlocksDisjoint` walks stays inside `F` is shown through the recursive
function of the property and its least counterexample.

**FdTable.** `Slots`: the vector has one slot, full or vacant, for every index
below its length. With it a vacancy found first is the least descriptor not in
use, and the end of a vector without vacancies is, too.

**Syscalls.** `Passed`: after `Load` the kernel finds number and arguments where
its ABI says, because the operands' registers are distinct; `Answered`: after the
trap only declared registers differ from what they were. Both are checked
against the tables of the two architectures.

**MemPrimitives.** A loop is a recursive function of the number of bytes done.
`LoopSafe` is the condition under which it does what it should: its reads never
meet a byte it has written before. Forward copying fulfils it if `dst` is not
inside the source after its start, backward copying otherwise, which is how
`my_memmove` chooses. `LoopDone` then follows by least counterexample. For strings the
least position of a 0, and the least at which two differ, are where the loops
stop.

**GreenThreads.** `Inv` = `Counts`, `States`, `Places`, `Entries`: main is Ready
in `run()`'s loop whenever a green thread has the CPU, so a thread that finishes
always finds somebody; a thread's entry is unset exactly from its first switch
on, and the entry taken is pending until its wrapper runs. `Ran` adds that a
wrapper past its call has called its own entry, and that a thread not spawned
has no history. `OvertakenInv` is the round-robin order: those who had the CPU
since a thread became Ready lie between it and `current` on the ring, or have
finished; the search from `current` on meets the waiting thread first.

**StackCoroutine.** `CoroutineInv`: whoever is not running has at the fourteen
offsets of its context what it left in the fourteen registers (or its entry and
an aligned stack). `EntryIsSound` is the arithmetic of `& !0xF`.

**Channels.** What was received, followed by what is in the channel, `Carries`
each message sent so far once, a producer's in its order; `Senders` and
`Sendings` say who still has a sender, and that a producer without one has sent
everything. A receiver returns when the channel is empty and no sender
left, so what it received is all. A cancelled call drops the queue, and
returns nothing.

**Pipes.** What the parent has read, what is in the pipe and what the child holds,
in this order, lists the chosen chunks among those the child took (`Flows`); the
parent's end of file needs a child that has ended with nothing held and all
read. `Ends` says which ends are open where the parent is: a `cat` does not
end while the parent writes, so its write does not fail.

**Futures.** Results come in the order of the handles because each is awaited
before the next. For the races: two timers that wake one task fire in the order
of their deadlines, so a timeout that fired alone was not later
than its future (`InOrder`); a timer whose deadline is `Never` does not fire.

**Sv39.** `SvInv`: the nodes form a tree - each is linked once, from its own
level, and no link leads back to the root -, and a leaf of the second level
points into the superpages' frames. A node is always fresh when it is linked,
which keeps all walks but that of the page being mapped as they were
(`SameWalks`), one new table at a time.

**SinglePageTable, PteFlags.** Pages and frames are multiples of the page size and
offsets below it, so addresses of two frames differ; a `make_pa` that overflows
loses only bits above the address width. An entry is a number with its fields
at multiples of powers of two. The provers have no theory of exponents: that
2^(a+b) is 2^a * 2^b, and that the flags' width divides the shift, are
therefore parts of `FieldsAssumption`, which TLC evaluates.

**Mmu.** `Inv` = types, `UniqueEntry`, `Coherent`. Coherence alone is not
inductive for an update in place, which must not leave a second entry; the
other half is that appending to the page table changes no walk that succeeds,
since the first mapping counts. For `EvictsOldest`, `Ages`: the age of a filled
slot is its distance behind the FIFO pointer.

**WatchMode, Panels.** `Inv` = `TypeOK`, `Loop`, `Pending`, `Earned`. `Pending` is the
point: a failure that the files do not deserve any more has a notification on
its way from the moment cargo has read them. `AroundTheList` shows that the
search for the next unfinished exercise reaches every one. `Shown`: where the
loop waits for keys or files without a test ahead, the last drawing is of the current
state; every drawing step is a step of `WatchMode` (`PanelsStep`).

**OneShot.** `Reported`: the sum counts the verdicts printed so far, and an
exercise printed as passed passes still or was broken since. With one verdict for
each, a sum that equals `Total` means that all passed (`FS_Subset` and the
cardinality of a proper subset).

### Only model-checked

- Liveness: `SomebodyEnters`, `OneWriterRuns`, `ThreadsGoOn` (of the spin locks,
  `fetch_multiply` and the functions that join), `CallsReturn`, `CallsEnd` and
  `SessionEnds`. Its proof rules need `ENABLED`, which the prover does not support.
- The violated properties: a counterexample needs no proof.

## What is not modelled

- `check.sh`'s installation of QEMU and a sysroot, which only calls other
  programs, and `exercises.toml`, a list of names and texts.
- Wording, colours and layout of what the `cli` and the script print, and the
  text of a panic.
- The alignment asserts of `map_superpage` (a superpage is given by its two indices
  and a multiple of `PtEntries`, so they hold), and the panic of `test_exercise`
  if `cargo` cannot be started.
- A watcher that cannot be started or reports an error: the program then reacts
  to keys only, which is watch mode without `Notify`.
- The pure statistics of `04_tlb_sim` (`valid_count`, `hit_rate`), which decide
  nothing; the packing of an SV39 entry inside `Sv39`, which `PteFlags` has.
- What the functions of `Threads` and the tasks of `Futures` compute of their
  arguments, except where an order or a count depends on it.
- Misuse that the documentation excludes: an `unlock` by a thread that does not
  hold the plain spin lock, a second scheduler's `run` inside a green thread,
  arguments against a "Safety" section, a dealloc with another layout.

## Plan

Written: the locks with `ReadersWriter`; the allocators; the descriptor table,
byte loops and system calls; both context switchers; threads, channels, pipes
and futures; the four page table crates; the `cli` and the script.

To prove next:

1. The safety side of progress, for what only TLC checks now: that each bounded
   loop has a measure that falls (the byte loops, the join of workers, the walk
   along the free list, a poll of a task), as is
   proved of `fetch_multiply`, and that a failed compare-exchange of the bump
   allocator means that another thread has succeeded.
2. `RwLock`: the rest of writer priority that does hold, with a single writer no
   reader is admitted while its waiting bit is set.

To model further: handles of `FdTable` that outlive their descriptor, as `Arc`
keeps the file; the memory of a coroutine's stack.
