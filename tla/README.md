# MyGOS in TLA+

MyGOS is a small Rust kernel for RISC-V boards and QEMU (`src/kernel/src`, with
support crates in `src/crates`). It runs on **one hart**, and the kernel is **not
preemptible**: interrupts are taken in user mode only, so control passes from one
task to another only in `schedule()`. That gives the models their grain: one action
is everything a task, or the idle loop `run_tasks`, does between two context
switches. What is hard in this kernel is therefore not the data race but what
happens *between* the steps of calls that suspend (`futex_wait`, `wait4`, pipe reads
and writes), what a task leaves behind when it is killed inside one of them, and the
sharing of frames, files and task control blocks through counters and `Arc`s.
Where nothing suspends, as in the file system, what is hard is a long sequence of
calls after which several copies of one fact (a cluster chain, a size, a count) no
longer agree.

## 1. Inventory

| Component | State | Operations | Correct when |
|---|---|---|---|
| Scheduler (`task/processor`, `task/manager`) | ready queue, heap of sleepers, waiting queue, `PID2TCB`, current task | `run_tasks`, suspend, hang, block, unblock, exit | every live task is in exactly one place and is eventually run |
| Futexes (`syscall/futex.rs`, `syscall/impls/futex.rs`) | `FUTEX_QUEUE`: word → counter and chain of waiters | wait, wake, requeue, expiry, interruption | counter = chain; a blocked task can be woken; a wake is not spent on nobody |
| Process tree (`task/mod.rs`, `task/task.rs`, `task/id.rs`, `syscall/impls/process.rs`) | parent, children, thread group, zombies, who holds an `Arc` | clone, exit, `wait4`, kill | orphans reach initproc once; `wait4` returns; a reaped TCB has no other owner |
| Pipes (`fs/pipe.rs`) | ring buffer with head, tail and status; weak pointer to the write end | read, write, close, end of file | FIFO; complete writes; end of file is final and seen |
| Address spaces (`mm/`) | page table, areas with `FrameTracker`s, mmap pages, frame counters, free frames | fork by copy on write, exec, preloaded busybox, page faults, mmap, munmap, mprotect, copies to user buffers | processes have private memories; counters are exact |
| Signals (`task/signal.rs`, `task/mod.rs`, `syscall/impls/process.rs`) | pending set, mask, handler table, frames on the user stack | send, deliver, sigaction, sigprocmask, sigreturn | masks come back; a handler does not meet itself; a signal that is not masked is taken |
| Trap handling, timer (`trap/`, `timer.rs`) | trap context, clock, interval timers | user trap, timer interrupt, trap return | a task that stays in user mode is interrupted |
| Descriptor tables (`syscall/impls/fs.rs`) | `fd_table`, limits | open, close, dup, pipe2, fcntl | a descriptor names one open file; limits hold |
| System V shared memory (`mm/shared_memory.rs`) | areas, attach trackers | shmget, shmat, shmdt, shmctl | attach counts survive fork and exit |
| FAT32 (`crates/fat32`) | FAT, recycled clusters, free count, directory entries, cached cluster lists | create, open, write, resize, clear, rename, mount | chains are disjoint; free is free; a file has bytes of its own |
| File objects (`fs/file.rs`, `fs/fat`) | `KFile`s, `Inode`s with size and page cache, `INODE_CACHE` | open, close, read, write, lseek, ftruncate, unlink, rename | a file has one `Inode`; all who open it share its bytes |
| VFS, ELF loading, drivers, heap, boot, ABI | – | – | mostly straight-line code or register I/O |

**How they interact.** A trap enters `user_trap_handler`, which runs a system call,
serves a page fault (`check_lazy`), or suspends on a timer interrupt;
`exec_signal_handlers` runs inside every suspension and before every `trap_return`,
and may call `exit_current_and_run_next` from there: the kernel stack below is then
never unwound. Exit wakes the futex word of `clear_child_tid`, hands the children to
initproc and leaves the address space and the descriptor table to the zombie, which
`wait4` of the parent drops. Pipes learn of the end of file from the `Arc` counts of
descriptor tables. `fork` shares frames and copies descriptor tables. `open` finds the
`Inode` of a path in `INODE_CACHE` or builds one over a `VirtFile` of the FAT32 crate;
reads and writes go to its pages, which are loaded block by block and, in the default
build, never written back.

**What is hard.** The list, with lines, is `hazards` in `PROJECT.json`. In short:
three ways to unblock a futex waiter (wake, timeout, signal) that may come in any
order; stale entries left behind by one of them; parents and children that exit in
any order; kills in the middle of a blocking call; the full/empty ambiguity of the
ring; long writes interleaved with other tasks; frames in every combination of
shared, copied and taken over; starvation by the fixed order of `run_tasks`; handlers
entered in the middle of a system call; cluster lists, sizes and pages cached beside
the FAT they were read from.

## 2. Modules and their correspondence to the code

`PROJECT.json` maps every definition to its lines. Operators whose comment starts
with "Mutant" are deliberately wrong variants of the definition that follows them;
replacing the definition by its variant must violate the property named in
`mutants`, which shows that the property depends on the code.

**`TaskManager`** – the scheduler and the futexes. `ready`, `hanging`, `waiting`,
`pid2tcb` are the queues of `TASK_MANAGER` and `PID2TCB`; `fqKeys`, `waiters`,
`chain` are `FUTEX_QUEUE` (a removed key keeps a value in the functions that nothing
reads); `current` and `idle` are the processor; `frame` says where the kernel stack
of a task continues. `RunHanging`, `UnblockInterrupted`, `UnblockExpired`, `RunReady`
and `Spin` are the outcomes of one iteration of `run_tasks`, each with the guard that
the earlier ones found nothing. A program may make any system call in any order. The
futex word is not represented: whether `futex_wait` finds the expected value is a
choice (`FutexWait` or `FutexWaitAgain`). Blocking calls that poll are `LoopSuspend`
and `LoopReturn`. Signals are those not masked: `KILL` with its default action, and
`USR` for any that does not end the task. `exec_signal_handlers` stops at the first
signal with a handler, so a suspension or a return may consume `USR` and leave `KILL`
pending for the next one.

**`ProcessTree`** – the life of a task control block. `state`, `parent`, `children`,
`tgid`, `pid2tcb` are fields and globals of the kernel; `StrongCount` computes
`Arc::strong_count` of a TCB that has left the scheduler from the children vectors
and from `leaked`, the `Arc`s on kernel stacks that a kill has abandoned. `panicked`
names the assertion that ended the kernel. Scheduling is left to `TaskManager`: any
live task may move. A signal with a handler may be taken before a pending `KILL`, which
then waits for the next suspension or return. `StrongCount` leaves out the `Arc` in a
futex chain that a signalled waiter leaves behind: it makes the assertions on the count
fail more often and has no other effect here.

**`Pipe`** and **`ByteQueue`** – one pipe. `arr`, `head`, `tail`, `status` are
`PipeRingBuffer`; `budget` is `loop_read`/`loop_write` less what was copied; `op`,
`want`, `data` are the suspended call of each task; `ends` its descriptor table. `stored`
is history: the bytes written less the bytes read.
`ByteQueue` is what a pipe promises: a bounded FIFO. `all_write_ends_closed` is the
weak pointer that no longer upgrades: no table and no call in progress has the end,
not even a zombie's or an abandoned one.

**`CowMemory`** and **`PrivateMemory`** – address spaces. `space[s]` is a
`MemorySet`: leaf entries (`ppn`, `flags`), the trackers of its areas (`frame`), and
the `MmapManager`; `refcounter`, `free`, `data` are the frame allocator and memory.
A fault, or a call that does not suspend, is one action, because one hart runs the
kernel and nothing preempts it. A read that waits for bytes is several:
`translated_bytes_buffer` turns the user's buffer into frames and holds no lock
afterwards (`Translate`), the reader suspends with them on its kernel stack (`buf`),
and bytes that come are stored into those frames (`FillBuffer`) whatever other threads of
the space have done meanwhile; end of file or a kill stores nothing (`Abandon`). The
busybox template that the kernel preloads, and that `exec` of busybox shares, is a space
that never runs. `PrivateMemory` is what an address space promises: a memory per process,
copied by fork; the bytes of a read appear in the space that asked for them when they
come. The refinement mapping is `Views`: what a process would read in each page, whether
or not a frame backs it yet.

**`Signals`** – `tcb[t]` has the signal fields of a TCB (`pending_signals`, `sigmask`,
the handler table), its interval timer, its trap context and the signal frames on its
user stack. The context keeps what the properties tell apart: whether the program is
at its own code, after an `ecall` or at a handler's first instruction, and whose value
is in `a0`. A trap, up to its return or a suspension, is one action;
`exec_signal_handlers` is an operator that every such action applies where the code
calls it. `Wait`, `WaitAgain` and `WaitOver` stand for any call that polls. `base` (the
mask the program asked for outside handlers) and `opened` (signals that SA_NODEFER or
sigprocmask opened inside a handler) are history.

**`Fat32`** – `fat`, `recycled_cluster`, `free_cluster_cnt` are the allocator, `sde`
the entries of the root directory, `cluster_vec` the list cached in each `VirtFile`,
`data` the data area. A panic of the crate is a state (`halt`), not a disabled step.
`moved` and `leaky` are history: which `VirtFile`s a rename has left without a cluster
list, and whether something happened after which clusters may leak. **`FileStore`** is
what the crate promises, a set of files with bytes of their own; `FileOf`, which reads
along the FAT, is the refinement mapping.

**`FileCache`** – the kernel's files over such a volume. `kfile` are the open files,
`inode` the living `Inode`s (`file_size`, the `loaded` blocks and `page`, and `vec`, the
cluster list of the `VirtFile`), `cache` is `INODE_CACHE`. `Living` drops the `Inode`s
whose last `Arc` is gone. Files have at most one cluster here. `muddled` is history: the
entries that ftruncate or rename changed without telling the `Inode`. `FilesAreShared`
uses the steps of `FileStore`.

**`TaskManagerProofs`**, **`ProcessTreeProofs`**, **`PipeProofs`**, **`SignalsProofs`**,
**`CowMemoryProofs`**, **`CowMemoryRefinement`** (which extends it), **`Fat32Proofs`** and
**`FileCacheProofs`** hold the theorems, each about the module it is named for; **`MC...`**
are the instances (symmetry sets, and values a cfg file cannot write).

## 3. Runs

| Run | Question | Bounds |
|---|---|---|
| `futex` | Is any task lost, queued twice, or blocked with no waiter entry; are the counters right? | 3 tasks, 2 words, waits with and without timeout, clock 0..1, 3 waiters |
| `scheduler_live` | The same with sleepers, SIGKILL and the wake-up of an exiting thread; does every ready task, due sleeper and timed or signalled waiter run? | 3 tasks, 1 word, durations 0 and 1, clock 0..1, 2 waiters |
| `process_tree` | Does every orphan keep a living parent; does `wait4` return? | pids 0..3, threads, SIGKILL, `wait4(-1)` and `wait4(2)` |
| `pipe` | Is the ring a FIFO; is the end of file final and seen; are writes complete? | buffer of 2, 3 tasks, writes of 2 bytes, reads of 1 |
| `cow` | Do spaces behave as private memories; are the frame counters exact? | 3 spaces with the template, 4 frames, an ELF page, a stack page, an mmap page, one suspended read |
| `signals` | Do masks come back, do handlers nest rightly, is every unmasked signal taken, does a timer that runs out raise its SIGALRM? | a process and its child or thread, signals 1, 9, 11 and 14, three calls that change signal state |
| `fat32` | Do FAT, queue, count, entries and cached lists agree; is a file private? | 3 entries in a directory of 2 entries per cluster, clusters 2..4 of 2 bytes, files of 3 bytes, one remount |
| `filecache` | Does a file have one `Inode`; do those who have it open share its bytes? | 2 names, one of them on the volume, 2 open files, a cache of 1 path, files of 3 bytes in blocks of 2, one ftruncate or rename |
| `lost_wake`, `reap`, `copyout`, `munmap` | What the repository says and the code does not do: section 5 | as above |

*Why the bounds suffice.* Three tasks are a waiter, a second waiter behind it, and the
task that wakes, signals or kills. Two words are needed for requeue. `MaxWaiters`
leaves room for one stale entry beside the live ones. The clock needs two values:
before and after a timeout. Four pids give initproc, a parent, its child and a
sibling, thread or grandchild. A ring of two bytes wraps around after every two
bytes, and is filled exactly by one write. With three spaces a frame can have three
sharers, and with four frames each kind of page can be copied; where the frames run
out the kernel panics and the action is not enabled. One suspended read is enough for
each call to come between its translation and its store. Tasks other than initproc,
futex words and frames are interchangeable, which the symmetry sets use (runs with
liveness properties have none). With clusters 2..4 the directory takes a second
cluster when the third entry comes, the volume becomes full, and every released
cluster is used again; a file of 3 bytes in clusters of 2 has two clusters and room
past its size. A cache of one path evicts at every second name, and a file of two
blocks is loaded in two parts. The signals are one below SIGKILL and one above it, a
fault and the alarm, so that each order of two pending signals occurs, and three calls
nest two handlers and change the mask inside; timers of at most one tick need no age
above `MaxAge`. Four identifiers are enough for the living `Inode`s of two names, two open
files and a cached path. The deadlock check is off where the
system may stop: in `pipe` and `signals` all tasks may have exited, in `fat32` the
system may have panicked, and in `filecache` directory entries are not used twice.

*What `cow` assumes of programs.* `Calls` lists the calls that break privacy if programs
make them freely: the runs `copyout` and `munmap` show two, section 5 describes a third.
In `cow` a program writes a page before it passes it to the kernel as a buffer, unmaps
or replaces (MAP_FIXED) only pages that it has not touched, reprotects only pages that it
does not share, and neither forks nor execs while another of its threads waits in a read
(`Quiet`); other processes fork, exec, fault, copy and exit meanwhile, and the reader's own
threads do all else. A space is not dropped while a reader waits in it, since the reader's
task holds it.

*What three of the properties say.* `RingConsistent` compares the ring with `stored`, so
that a kernel that takes a full ring for an empty one violates it. `AlarmComes` asks that
a timer which has run out never goes without SIGALRM becoming pending (or being taken in
the same step), that one with an interval rings too on the way to user mode, and that one
without goes. `HandlerArgument` exempts, among the handlers entered one on the other in
a waiting call, the topmost: its `a0` gets the result of the call.

*What `fat32` and `filecache` leave to each other.* A rename in `Fat32` goes to a new
name; `FileCache` has the renames onto names in use. A file whose entry was changed by
ftruncate or rename is out of `FilesAreShared` from then on, because its `Inode` keeps
the old size and pages: that is what the code does.

### Fairness

- `TaskManager`: the idle loop goes on, the clock ticks, and kernel code that does
  not wait leaves the kernel (weak fairness). `Yield` has strong fairness: the timer
  is armed again only after its interrupt was taken, so it stays armed or pending
  however many system calls come between, and a task that keeps coming back to user
  mode is interrupted. Neither a polling system call nor a program is assumed to
  finish.
- `ProcessTree`: weak fairness of the next turn of a suspended `wait4`: what
  `ReadyRuns` of `TaskManager` provides.
- `Pipe`: the task that holds the mutex is not preempted (weak fairness of `Copy`). A
  reader is given turns again and again, always with the mutex free; once the write
  ends are closed each of them takes it out of its loop, hence strong fairness of
  exactly those turns.
- `Signals`: weak fairness of the clock, and of each live task's interrupts, returns
  and turns in a waiting call, which is what the timer and `run_tasks` provide. That a
  waiting call ends, that a program makes a call or returns from a handler is not
  assumed.
- `CowMemory`, `Fat32` and `FileCache` state safety only.

## 4. Theorems

TLAPS proves these for every value of the constants that satisfies the named
`ASSUME`s. Every invariant of the passing runs is a theorem, and every module of proofs has the same plan: the inductive
invariant; lemmas about the operators, each stated once; one lemma per action or
handler; the theorems. TLC finds each inductive invariant
true on the instance of the run (those of `Fat32` with the bounded set `Chain` in place of
the sequences that `ChainOf` speaks of).

| Module | Theorems (property) |
|---|---|
| `TaskManagerProofs` | `TypesAreKept` (`TypeOK`), `CountersAreRight` (`WaitersCounted`), `OnePlaceEach` (`ExactlyOnePlace`), `BlockedCanBeWoken` (`BlockedHasWaiter`) |
| `ProcessTreeProofs` | `TypeCorrect`, `ChildrenAreListed` (`ParentListsChild`), `OwnersAreParents` (`OneLiveOwner`) |
| `PipeProofs` | `TypeCorrect`, `RingIsConsistent`, `BudgetAlwaysFits`, `EofFinal` (`EofIsFinal`), `WriteComplete` (`WriteIsComplete`), `PipeIsQueue` (`IsQueue`, the refinement of `ByteQueue`) |
| `CowMemoryProofs` | `TypeCorrect`, `FramesAreCounted` (`RefsAreTrackers`), `EntriesAreTracked` (`MappedIsTracked`), `StoresAreExclusive` (`WritableIsExclusive`) |
| `CowMemoryRefinement` | `SpacesArePrivate` (`IsPrivate`, the refinement of `PrivateMemory`) |
| `SignalsProofs` | `TypeCorrect`, `KillIsNeverBlocked` (`KillStaysOpen`), `MaskIsRestored` (`MaskComesBack`), `HandlersDoNotNest` (`NoReentry`), `ArgumentIsSignal` (`HandlerArgument`) |
| `Fat32Proofs` | `TypesAreKept` (`TypeOK`), `ClustersHaveOneOwner` (`ChainsApart`), `FreeCountIsRight` (`FreeIsFree`), `HandlesAreCurrent` (`HandleHasChain`), `NoClusterLeaks` (`NothingLeaks`), `ScanStaysInside` (`ScanFinds`) |
| `FileCacheProofs` | `TypeCorrect`, `OneInodePerFile` (`OpenIsCached`) |

**`TaskManagerProofs`.** For the counters the inductive invariant is `FutexTypes /\
WaitersCounted`: without the types the subtraction in wake, requeue and expiry means
nothing, and nothing else about the scheduler matters to them. It means that no
`pop_front().unwrap()` of the futex code panics. The queues need `QInv`. Its part
`Seated` says how a task's status follows from where it is queued, with the two
exceptions of the code: a woken task is still called `Blocking` while it is in the ready
queue, and a suspended task is on the processor until `run_tasks` puts it back.
`ExactlyOnePlace` alone is not inductive, since the guards of the code read the status.
`Reachable` says that whoever is in the waiting queue has an entry in some chain; it
needs `IInv`, because a key is forgotten when its counter is 0, and whoever is still in
its chain with it.
`UnblockAll`, which unblocks the popped tasks one after the other, is a recursive
function; what it does to the queues is shown by a minimal counterexample (the least
number of unblocked tasks after which the queues are wrong) instead of an induction.

**`ProcessTreeProofs`.** `TypeOK /\ (panicked = "no" => Tree)`. `Tree` makes parent
links and vectors two views of one tree: `parent[p] < p`, the parent lives and lists
`p`; a living task lists nobody twice and only tasks whose parent it is. Vectors of
zombies are left out, because exit does not empty them (the cause of the finding
`reap`). `parent[p] < p` holds because pids only grow and initproc, pid 0, takes the
orphans.

**`PipeProofs`.** `TypeOK /\ RingConsistent /\ BudgetFits /\ LockHeld`. `RingConsistent`
says that status and positions together count the bytes: `available_read = stored`, over
every wrap-around, which a swap of Full and Empty would break. `BudgetFits` is
what keeps `write_byte` from meeting a full ring and `read_byte` an empty one, neither
of which they check; `LockHeld` says that a mutex holder is in a call. The lemmas say
how `available_read` and `Contents` change with a byte, by cases on the wrap-around; the
refinement of `ByteQueue` follows action by action.

**`CowMemoryProofs`, `CowMemoryRefinement`.** There are three layers, and each says what
it asks of programs.
- For any programs: `IInv`, in which every space is `Sound` (it tracks a frame once, and
  outside the mmap region maps what it tracks), spaces that do not live are bare, trap
  pages are mapped, and `Counts`: `refcounter[f]` is the number of spaces that track `f`,
  and `f` is free if there is none. With `RefAssumption` (fewer spaces than the `u8`
  counter distinguishes) no counter wraps.
- With `Tame` (`Calls \subseteq {"untouched", "suspended"}`: programs may pass unwritten
  pages to the kernel, and fork or exec beside a waiting read, but do not unmap or replace
  touched pages, nor reprotect shared ones): `TInv`, in which the
  mmap region is tracked too, its pages with an entry are valid and below `mmap_top`,
  and no other space holds a frame that some page may be stored to. The finding `munmap`
  is why the theorems need `Tame`.
- With `Plain` (`Calls = {}`, as in the run `cow`): `VInv`, in which mapped pages lie below
  `mmap_top` and the busybox template still shows its image, and `PInv`: the frame that a
  suspended read will store into is still the one of its page, and no other space has it.
  That frame was writable or new when it was translated, so it was exclusive, and only a
  fork, exec, unmapping or exit of its own space could change that. The refinement then
  follows action by action. The finding `copyout`, and the late store of section 5, are
  why `Tame` is not enough.

**`SignalsProofs`.** The handlers of a task are a stack of frames, and the invariant
speaks of every level of it (`Levels`, `Unblockable`, `Closed`, `Arguments`, and that
level 1 has the mask `base`): a statement about the top alone does not survive
`sigreturn`, which brings back what lies below. A task waiting in a system call has that
call on its stack, and above it only handlers that have not run (`Waited`). `NoReentry` is true only up to `opened`; `opened` is kept over
several levels, since a signal that a handler opens is open in the handlers above it.
`SignalsAssumption` asks that handler tables are ones that `sigaction` can make
(`Tables \subseteq Installable`).

**`Fat32Proofs`.** `Inv` is `TypeOK`, `ChainsApart`, `FreeIsFree`, `Shape` (entries and
`VirtFile`s that do not exist have nothing; a file without clusters is empty), `Own` (an
entry with clusters has a chain, as long as its size asks for) and `Handle` (a `VirtFile`
has exactly that chain in its list, or nothing if a rename made it). `ChainsApart` speaks of single FAT entries; that
chains are then disjoint, that there is one chain from a cluster (`ChainsMeet`,
`OneChain`) and what a run of the allocator picks (`PicksAreNext`) would be inductions
along the chain and are proved by taking the least index at which they fail. Two
theorems need more. `NoClusterLeaks` needs `Covered`: unless clusters may already have
leaked, every allocated cluster is on a chain, no rename has made a `VirtFile`, and a
deleted entry has no clusters.
`ScanStaysInside` needs `Segment`: on the first mount the free clusters that are not
recycled are exactly those behind some cluster `k`, so that the upward scan meets one
wherever it starts; after a remount the queue is empty and that is false.
`Fat32Assumption` asks that `MaxChain`, the bound on chains that `TypeOK` speaks of, has
room for the largest file and directory.

**`FileCacheProofs`.** An operation may evict one path from `INODE_CACHE` before it opens
another, so the invariant is stated for states in the middle of an operation: `Mid(st,
held)`, where `held` are the `Inode`s that open files or the running call hold. The
`Inode`s in use have entries of their own, and one whose entry lives is in the cache
under the name of the entry and under no other. Between operations every `Inode` is in
use. `OpenIsCached` alone says nothing of the `Inode`s that only the cache holds, which
the next `open` finds.

**Only model-checked.** Liveness rests on fairness and is out of the prover's reach:
`SleeperRuns`, `ReadyRuns`, `FutexWaitEnds` (`TaskManager`), `WaitReturns`
(`ProcessTree`), `ReaderSeesEof` (`Pipe`), `SignalIsTaken` and `AlarmComes` (`Signals`).
The refinements of `FileStore` by `Fat32` (`FilesArePrivate`) and by `FileCache`
(`FilesAreShared`) are not proved yet: they need, beside the invariants above, that
reading along a chain after each of the changes gives the right bytes.

## 5. Where the code and what is said of it differ

- `lost_wake`: a signal takes a futex waiter out of the waiting queue but leaves its
  entry in the chain; a later `futex_wake` spends its count on that entry while
  another task stays blocked.
- `reap`: `wait4` asserts that no other vector holds the child. A process that exits
  hands its children to initproc but keeps them in its own vector, so while it is an
  unreaped zombie initproc's `wait4` of the child fails the assertion.
- `copyout`: the kernel's stores into user buffers do not look at the COW bit and
  change the memory of the other process.
- `munmap`: the page table entry of a page that was touched outlives its mapping and
  its frame.

Other behaviour that the modelling brought up, about which the repository says nothing
that a run could contradict:

- A read keeps the frames of its buffer while it waits. If another thread of the process
  forks meanwhile, the bytes are stored into a frame that parent and child share, although
  the program had written the page; if it execs, into a frame that was freed and may be
  in use elsewhere. With `"suspended"` in `Calls`, `IsPrivate` is violated in five states
  (`Translate`, `Fork` and `FillBuffer` are the last three), while the counters and page
  tables stay right.
- `sigaction` accepts signal 64, one past the handler table; `exec` keeps handlers.
- The result of a system call overwrites the argument of a handler entered while the
  call waited (the exception in `HandlerArgument`); a periodic timer keeps its creation
  time, so after its first expiry it raises SIGALRM at every trap.
- `open` with O_TRUNC deletes the entry of a file that is not in the inode cache and
  does nothing to one that is; `open` with O_CREAT of a file not in the cache forgets
  O_APPEND.
- After a rename the new name is an empty file until its `Inode` is evicted, a resize
  before that panics, and the clusters of a file renamed over, or of an unlinked file
  that grows, are lost. A rename of a name to itself waits for the mutex it holds.
- `ftruncate` does not change the size that `read` and `fstat` use.
- The scan for a blank cluster goes up from the file's first cluster and has no end;
  after a remount, when the recycled queue is empty, it leaves the volume if the free
  clusters lie below (the exception in `ScanFinds`).
- wait4(-1) of a process whose only children were threads polls for ever; a writer
  without a reader is never told.

## 6. Not modelled

- Multiple harts: the kernel starts one.
- The value of the futex word and the return values of `futex_wait`.
- Interval timers other than ITIMER_REAL; stop and continue signals.
- Credentials, resource usage, scheduling parameters.
- A low signal that recurs for ever and keeps the ones above it waiting: signals are sent
  by a bounded number of calls.
- Descriptor numbers, `dup`, limits; more than one pipe.
- Buffers of more than one page, and writes that read a stale buffer after a suspension:
  `CowMemory` has the kernel's stores and not its loads.
- Page-table frames, kernel stacks, `brk` arithmetic, ELF parsing, System V shared
  memory. The `u8` counter of a frame is `% RefMod`; its overflow at 256 sharers is
  excluded by `RefAssumption` and out of the reach of an explicit-state run.
- Subdirectories, long and short names, time stamps, directory reading and the block
  cache of FAT32 (no code recovers from a crash with dirty blocks, so no crash is
  modelled); the `ramfs`, `no-page-cache` and `inode-drop` builds; device files.
- Paths, mounts, drivers, boot.

The kernel is Rust. `PROJECT.json` maps about 4300 of the 15100 lines of
`kernel/src` and `crates/fat32/src`; the C sources in the repository are vendored test
suites (`src/testsuits`: busybox, iozone, libc-test, ...), programs that run on the
kernel and are no part of it.

## 7. Plan

Done: `TaskManager` → `ProcessTree` → `Pipe` over `ByteQueue` → `CowMemory` over
`PrivateMemory`, with the proofs of section 4; `Signals`; `Fat32` and `FileCache` over
`FileStore`.

Next, in this order:

1. `FdTable`: dup, dup3, pipe2, limits, sharing by CLONE_FILES, guards held over a
   suspension. Properties: no descriptor leaks on a failed call, no task spins on a
   guard that a suspended task holds.
2. `SharedMemory`: attach counts over fork, exec and exit.

Proofs to come: the refinements of `FileStore` by `Fat32` and by `FileCache` (the
invariants they need are proved; what is missing is that a read along the FAT, or from
the pages of the one `Inode`, gives the bytes last written, action by action), then the
invariants of the new modules.
