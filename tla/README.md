# mini-os: a TLA+ verification of the kernel

mini-os is a small AArch64 kernel for QEMU `virt`: processes with copy-on-write memory, a
round-robin scheduler on several CPUs, signals and job control, pipes, a console tty and an
in-memory file system. This directory models the parts of it whose correctness depends on
interleavings, counts and long sequences of calls, checks them with TLC on small instances, and
proves the central invariants with TLAPS for instances of any size.

Contents: [the system](#1-the-system), [modules](#2-modules), [runs](#3-runs),
[fairness](#4-fairness), [proofs](#5-proofs), [deviations](#6-deviations-of-the-code),
[not modelled](#7-what-is-not-modelled), [plan](#8-plan).

```
tlc -workers 2 -config Cow.cfg MCCow       # any run: the .cfg and the module of section 3
tlapm CowProofs.tla                        # the modules of section 5: about 35 minutes together
```

## 1. The system

| part | source | state | operations that change it | works with |
|---|---|---|---|---|
| address spaces | `mm/mmap.c`, `mm/fault.c`, `mm/uaccess.c` | page tables, VMA flags, TLBs, page counts | faults, mmap, munmap, mprotect, fork, execve, exit | page allocator, fork, exec |
| area list | `mm/mmap.c`, `fs/binfmt.c` | VMA list, `brk`, `mmap_base`, leaves | brk, mmap, munmap, mprotect, faults, execve | address spaces, SLUB |
| page allocator | `mm/page_alloc.c` | free lists, `block_order`, `_refcount` | `alloc_pages`, `free_pages`, `get_page`, `put_page` | everybody |
| SLUB | `mm/slub.c` | slab headers, partial lists | `kmalloc`, `kfree` | page allocator |
| scheduler | `kernel/sched/core.c`, `idle.c`, `kernel/irq.c`, `kernel/time/tick.c` | run queues, `curr`, `need_resched`, IPIs, sleepers | `schedule`, pull, wake-up, tick, reschedule IPI | all that block |
| process life | `kernel/fork.c`, `kernel/exit.c`, `kernel/time/timer.c` | `state`, `parent`, `pending` | fork, exit, wait4, nanosleep, yield | scheduler, signals |
| signals | `kernel/signal.c`, `kernel/sys.c` | masks, dispositions, frames, `wait_event` | kill, sigaction, sigprocmask, sigsuspend, sigreturn, delivery, stop, continue | exit, wait4, tty |
| groups, sessions | `kernel/pid.c`, `drivers/tty/tty.c` | `pgid`, `sid`, foreground group | setpgid, setsid, TIOCSPGRP, TIOCSCTTY, TIOCNOTTY, Ctrl-C | fork, exit |
| wait queues | `kernel/sched/wait.c` | queue entries on kernel stacks | `prepare_to_wait`, `finish_wait`, `wake_up` | pipe, poll, tty |
| pipes, ppoll | `fs/pipe.c`, `fs/poll.c` | ring, ends, file counts | read, write, ppoll, close, fork | wait queues, signals |
| tty input | `drivers/tty/tty.c`, `serial.c` | RX ring, mode | interrupt, read, TCSETS | wait queues, signals |
| names and inodes | `fs/namei.c`, `dcache.c`, `inode.c`, `ramfs.c`, `open.c` | ramfs tree, dentry cache, counts, cwd | mkdir, mknod, link, symlink, unlink, rmdir, rename, open, close, chdir, exec | descriptors |
| descriptors, contents | `fs/open.c`, `read_write.c`, `ramfs.c`, `kernel/fork.c`, `exit.c` | tables, close-on-exec bits, file counts, offsets, buffers | openat, pipe2, close, dup, dup3, fcntl, read, write, writev, lseek, sendfile, truncation, fork, exec, exit | pipes, inodes |

What makes it hard. The kernel is not preempted, but it runs on several CPUs and most shared
state has no lock: handlers are interrupted between a test and the step that relies on it. Sleepers
test a condition, queue themselves and block in three steps. Page counts decide whether a page may
be written in place while another CPU forks. Names, dentries and open files refer to an inode
through different counts. `PROJECT.json` lists these hazards with their source lines and the
properties that cover them.

## 2. Modules

A step of a model is what one CPU does between two accesses to state that another CPU or an enabled
interrupt can change: a critical section under a lock, or a whole system call where nothing can
come between. Names of actions are the names of the functions they translate; an action with a
name of its own is a part of the function `PROJECT.json` maps it to. Operators marked *Mutant* are
wrong variants used to test that the properties notice them; no specification uses them.

**Cow** (refines **PrivateMemory**; proofs in **CowProofs** and the modules it extends). A process slot `p` has a page table
`pte[p]`, VMA flags `vma[p]` per page and a TLB `tlb[p]` that may hold stale leaves; `ref` and
`data` are the counts and contents of physical pages. `at`, `todo`, `kid`, `pend` and `req` say how
far the kernel path of `p` has come. Handlers that read or drop counts which others share are
split: `FaultCow` reads `page_count`, then `CowMkwrite` or `CowCopy` acts on what was read, then
`CowPut` drops the old page; `dup_mm`, `dup_pgtable_level` (page by page), `ForkDone` or
`ForkFail`, `UndoPage`; `vma_erase_range`, `unmap_page`, `UnmapDone`; `load_elf_binary`,
`load_segment`, `ExecSwap` or `ExecFail`; `mm_put`, `ReapPage`, `ReapDone`. Out-of-memory paths
are actions (`FaultOom`, `CowOom`, `ForkFail`, `ExecFail`). The MMU is external: `TlbFill`
caches the present leaf at any moment while the process is in user mode, `HwAllows` is the
permission check. `PrivateMemory` promises what a program sees: a memory
of its own that only its own stores and completed calls change; a fault never changes a byte.

**Vma** (refines **AddressSpace**). The sorted list `vmas` of one address space with addresses in
bytes, `brk`, `mmap_base`, the protection of every present leaf and the number of list objects in
use (`nobj`). Addresses are machine words: `Plus` wraps at `Word`, as `addr + len` does at 2^64, and
`Slot` drops the bits a page table lookup drops, as `unmap_page` does. `find_vma`, `insert_vma`, `vma_erase_range`, `vma_split`, `find_unmapped_area` and
`mprotect_covered` are operators on the list; each call is one step, since an address space has one
thread. An allocation that fails half way is a disjunct of the call it interrupts: the tail
`vma_erase_range` cuts off, the second split of `mm_mprotect`, the new area of a `MAP_FIXED` mapping
whose old areas are gone. `asked` is the last call with its arguments, a specification variable.
`Bends` names the calls the code does not carry out as asked: a `munmap` or `MAP_FIXED` whose end wraps
below its start inside one area, a `munmap` that runs past the page table, and a lower break while the
heap is split. They are steps like the others; `bent` records that one was taken since execve, and the
properties claim nothing while it is set (section 6 says what happens then).
`AddressSpace` has no list: it says page by page what the call in `asked` does to the protection and
the presence of the pages of its range, that no other page changes, and that a call which fails
changes nothing (a `MAP_FIXED` mapping may leave its range unmapped).

**Buddy**, **Slub** (extends Buddy). The allocator on page numbers, with lists in their real
order, the alignment test of `free_pages` on the address `Base`, and reference counts; slabs with
object indices, partial lists and large objects behind their header. `PageCaller` stands for page
tables, stacks and user pages, which draw on the same pool. `alloc_pages` returning NULL is the
disabled action. There is no lock in `page_alloc.c`, so these modules describe one CPU.

**Sched**, **Tasks** (extends Sched). `pc[x]` is where thread `x` is inside the kernel, `on[c]` the
thread whose stack CPU `c` uses, `curr[c]` what `current` reads; the two differ inside
`context_switch`. Sections under `rq->lock` are single steps: `PickNext`, `FindBusiest`,
`PickMigratable`, `ReadOldCpu`, `MigrateTask`, `Repick`, `SetCurrent`, `SwitchTo`. Interrupts are
taken where `IrqsOn`, and a DAIF restored by the switch is part of it. Tasks adds fork, exit,
wait4, nanosleep, yield, kill and delivery, split at every access to `state` and `pending`.

**Signals** (proofs in **SignalsProofs**). One function `task` of records with the fields of `task_struct` that
`kernel/signal.c` uses. Signal numbers are the real ones because `next_pending_signal` depends on
their order. `Take` writes back the mask `do_signal` read (`seen`), so a lost update is possible
where interrupts are on: `ReadTest` leaves them on, as
`wait_event_interruptible` does. `want` (the mask a program is entitled to) and `owed` (signals sent and
not consumed) are specification variables. What an operation does to one record is an operator of its
own (`Marked`, `Notified`, `Continued`, `Exited`, `Consumed`), which the proofs are about.

**Jobs** (proofs in **JobsProofs**). Pids, groups, sessions, the tty's session and foreground
group; `hit` is whom the last Ctrl-C reached. Every call is one step, as on one CPU.

**Pipe** (refines **Fifo**; proofs in **PipeProofs**). The ring, the two files and their counts, the wait queues, and where
each process is in read, write or ppoll. The module is about one CPU: one process at most is inside
the kernel and awake, so that `pipe_read` and `pipe_write`, which change ring and `len` without a lock
and with interrupts masked, are one step each. The
test, `prepare_to_wait` and the sleep are separate steps; ppoll queues, tests, blocks and tests
again. `Fifo` is a bounded channel: a write appends a prefix of what was given, a read removes a
prefix.

**Tty** (proofs in **TtyProofs**). RX ring with its indices, canonical mode, readers inside `wait_event_interruptible`, the
lock of the wait queue (taken with interrupts on by `remove_wait_queue` and by the interrupt), the
UART interrupt in two steps and TCSETS in two steps. `sent` is what was accepted and not read.

**Vfs**. Inodes with link and use counts, children and parent pointers; dentries that hold inodes
without counting them; working directories, descriptors, and the references `execve` keeps. Each
call is one step including its `d_drop`, `d_move`, `cwd_fix`, `iput` and `drop_nlink`; lookups
follow symbolic links as `path_resolve` does. Tables that are full fail as `kmalloc` does.

**Files**. Descriptor tables of several tasks, the file objects they share with counts and offsets,
and one ramfs file: its size and its buffer, whose length is the capacity. Bytes that `kmalloc`
returned and nobody wrote are `Junk`. Every allocation that can fail is a parameter of its call
(`oom`, `limit`). `write` passes a call for no bytes on to `ramfs_write`, `writev` skips an empty
vector. `MaxSize` is the largest offset; no buffer of that size is ever had. Two specification variables record what programs were told: `asked` the
close-on-exec bit last asked for a descriptor, `said` the bytes reported as written. Descriptors may
also lead to pipe ends, whose contents are in Pipe.

**MCCow, MCVma, MCTasks, MCSlub, MCPipe, MCVfs, MCFiles, MCSignals** give the constants of the runs;
MCVma adds the page view the refinement is checked on, leaves `asked`, on which no step depends,
out of what makes states distinct, and follows a call of `Bends` by execve only; MCSignals lets only
the child read in `signals_jobs`. Jobs and Tty need none.

How they fit together. The models meet at promises, not by composition of state: Cow's `FreePage`
and `put_page` are Buddy's, whose `Partition` says a page is never handed out twice; Pipe, Tty and
Signals use a runnable flag where Tasks has run queues, and their fairness is `QueuedRuns` of
Tasks; Vma decides which pages and protections the faults of Cow find in `vma[p]`; Files' tables
hold the references whose last drop is the release in Pipe and the `iput` in Vfs; Signals' zombies and `wait4` are those of Tasks with stops and continues added; Jobs gives
the targets of a group kill that Signals delivers one by one.
## 3. Runs

| run | module, config | properties | what it shows |
|---|---|---|---|
| `cow` | MCCow, Cow.cfg | TlbCoherent, AccessExact, WritableIsPrivate, SoleOwnerStable, RefCounts, RefinesPrivateMemory | fork, faults, mprotect, munmap, exec and exit of three processes, with failing allocations, never let a program see or change another's memory, and count pages exactly |
| `vma` | MCVma, Vma.cfg | ListSound, AreaFree, RefinesAddressSpace | with lengths and addresses that wrap, and up to the first call of `Bends`, the area list stays sorted, disjoint, without leaks and in step with the page table, the search is first fit, and each call does to each page what it promises |
| `tasks_up` | MCTasks, TasksUp.cfg | RunQueues, NoLostChild, QueuedRuns, SleepEnds | on one CPU no task is queued twice or lost, a parent learns of every child, queued tasks run and sleepers wake |
| `tasks_smp` | MCTasks, TasksSmp.cfg | RunQueues | pull, migration and remote wake-ups between two CPUs keep the run queues right, up to the deviations of section 6 |
| `slub` | MCSlub, Slub.cfg | Partition, AllocComplete, PartialLists, Objects | blocks and objects are handed out once, merged, found and given back, with both allocators drawing on a pool that runs out |
| `pipe` | MCPipe, Pipe.cfg | NoLostWakeup, Lifetime, RefinesFifo, CallsEnd | a pipe is a bounded channel; sleepers are woken, queue entries and the pipe live as long as they are used, and calls return |
| `vfs` | MCVfs, Vfs.cfg | DcacheCoherent, TreeShape, CountsExact, FreedOnLast | the dentry cache agrees with the tree, the tree stays a tree, and an inode is freed when the last name and the last user are gone |
| `files` | MCFiles, Files.cfg | Descriptors, ContentKept | file counts and close-on-exec bits are exact in two tasks; a file holds what its writers were told was written, and ends where the last write did |
| `signals_mask` | MCSignals, SignalsMask.cfg | MaskRestored, Results | nested handlers, sigsuspend and restarted calls bring back mask and result |
| `signals_jobs` | MCSignals, SignalsJobs.cfg | SentKept, NoMissedWake, StopReported, KillEnds | interrupts between `do_signal`'s read and write of `pending` lose no SIGKILL and no SIGCHLD, stops and continues are reported, SIGKILL ends a task that is in the kernel |
| `jobs_groups` | Jobs, JobsGroups.cfg | LeaderStays | session leaders stay in their group |
| `tty` | Tty, Tty.cfg | NoLostInput, RingContent, LineRead | no reader sleeps on readable input, the ring holds what was accepted, a canonical read returns at most a line |

**Bounds, and why they are enough.**

- `cow`: three processes are a parent, a child and a sibling; with two frames every allocation can
  fail. One page is enough because the handlers treat pages independently of each other; the
  invariant is proved for any number. Processes and frames are symmetric.
- `vma`: a page table of eight pages of two bytes: one that is never mapped, the image, two of heap,
  two above `mmap_base`, the stack and one above it. A word counts twice as many pages, so that
  addresses beyond the table exist (20) and the lengths 30 and 31 wrap, for most addresses to an end
  below the start. Addresses, lengths and breaks fall on and inside pages, so rounding matters. Every
  call of `Bends` happens; what follows it is cut short to execve, because the list means nothing then.
- `tasks_up`, `tasks_smp`: two tasks and the idle threads; all calls on one CPU; yield, fork, exit and
  wait4 on two CPUs, which makes pull, migration, remote wake-ups and the reschedule interrupt happen. `BeforeFindings` stops a behaviour after a step that runs a task
  twice or runs a dead one, where the code's state means nothing any more.
- `slub`: five pages, sizes just below and above a cache and a page; the pool runs out and blocks
  of several orders merge.
- `pipe`: a ring of two bytes wraps, and reads and writes of two bytes are partial; one CPU.
- `vfs`: three inodes, three dentries, depth two. `TreeOrLinks` explores directory trees and links
  apart, each to the end.
- `files`: two tasks, two descriptors, two files. Buffers grow from 1 to 2 to 4 bytes and `KBUF`, the
  buffer of a call, is shorter than the longest vector; empty buffers and vectors are among the inputs,
  and offsets lie up to three bytes beyond the end. `TablesOrData` explores the tables while the
  file is empty and the contents while one task uses it; the two meet only in the offset.
- `signals_mask`: one task, two handlers and SIGCHLD, up to two frames. `signals_jobs`: a parent and
  a child with SIGKILL, SIGCHLD, SIGCONT and SIGTSTP, the last also from the keyboard. Both wait and the
  child reads, after which `do_signal` runs with interrupts on and its update of `pending` overlaps with
  theirs (in this instance TLC refutes `PendingExact`, section 6).
- `jobs_groups`: four pids: init, two relatives and one more. `tty`: a ring of four holds three bytes,
  two readers, both modes.

Deadlock checking is off where every task may end, block for good or run out of inputs (all runs
but `vma`, `slub` and `jobs_groups`). Symmetry is used in `cow`, `tasks_smp` and `files`, which check
no liveness.

## 4. Fairness

- `Tasks!FairSpec`: weak fairness of the kernel steps of each CPU (the kernel is not preempted and
  its loops end) and of pending interrupts; strong fairness of the end of a time slice and of
  deadlines, which the timer raises again and again whenever interrupts are on.
- `Pipe!FairSpec`: strong fairness of each process's kernel steps while it has a CPU. This is
  `QueuedRuns` of `tasks_up`.
- `Signals!FairSpec`: weak fairness of the kernel steps of each task and strong fairness of getting the
  CPU back. Nothing is assumed of programs: `do_signal` runs only on the way out of a system call
  (`kernel/sys.c:389`), so `KillEnds` is about a task that is inside the kernel, asleep or stopped when
  SIGKILL is pending; a program that makes no further call is not ended (section 6).

The other runs check safety only.

## 5. Proofs

Every theorem below is checked by TLAPS to the last leaf. Before it was proved, each inductive
invariant was checked with TLC on the instance of its run (and on three processes, one page and two
frames for Cow; `Asked` of TtyProofs is the exception).

**CowProofs** proves, for any finite sets of processes and pages, any frames and values, under
`CowAssumption` (the special values are none of the ordinary ones, protections are sets of r, w, x,
0 is a value): the properties `RefCounts`, `WritableIsPrivate`, `SoleOwnerStable`, `TlbCoherent` and
`AccessExact` of run `cow`, type correctness, and `Refinement`, that `Spec` implies
`RefinesPrivateMemory`. None of the properties is inductive alone. The invariant `IInv` of Cow says
in addition

- `Slots`: which values `at`, `kid`, `todo`, `pend` take together, and that the slot a fork or an exec
  builds belongs to one process only;
- `Path(p)`: what the kernel path of `p` has established so far: a page between `FaultCow` and `CowPut`
  is the one faulted on and stays as it was read (`CowPath`), what munmap has left to visit
  (`UnmapPath`), that a translation is held only if the leaf still says so or a flush is due
  (`TlbHeld`), what a table half built or half torn down maps (`BuiltLeaf`), and that a leaf grants what
  its VMA grants (`LeafFollows`);
- `ExclusiveCounts`: a page mapped writable, about to be, or in an image being built, has count one;
- `Holders`: the two consequences of exact counts that other clauses need (a page held has a count,
  one held twice counts two), so that only `RefCounts` itself is about cardinalities;
- `LostUnmapped` and `MappedData`: nobody maps a page exec lost, and no page in use holds what the
  free list left in it.

That a step keeps it is proved clause by clause. **CowSteps** has what all of these need: the facts
on leaves and holders, that a step of one process leaves the tables of the others alone (`Aside`,
`Elsewhere`), and `ExclusiveCounts`. **CowCounts** proves `RefCounts`, `Holders` and `LostUnmapped`
(which references a step adds and drops), **CowMemory** `TypeOK`, `Slots`, `Path`, `MappedData` and
the steps of the refinement: a step of Cow is a step of PrivateMemory of one process or a stutter,
because every leaf of a running process leads to a page nobody else may write.

**PipeProofs** proves, for any finite set of processes, any ring size, any bytes and transfer size,
under `PipeAssumption`, of a pipe on one CPU: `Refinement`, that `Spec` implies `RefinesFifo`, and
`FreedOnce`, that `Lifetime` holds. One CPU is what the module is about; on two, TLC refutes `Lifetime`
(section 6) and the two sides of the ring race on `len`. The invariant `IInv` (`Invariance`) says that
ring indices and length agree, what a process in a call holds (`InCall`), on which queues its entries
are (`Queued`), and that the counts are the numbers of descriptors (`Counts`). `FreedInv` adds
`Freed`: once the pipe was freed nobody has a descriptor or is inside a call. `AdvanceIs` to `WriteRing` are the facts on ring
positions modulo `PIPE_SIZE`; `ReadGets` and `WritePuts` are the two steps that move bytes;
`KernelFrame` says what no kernel step of `p` changes, so that every other process keeps its clauses.

**TtyProofs** proves, for any ring size, finite set of readers, sizes asked for and modes, under
`TtyAssumption` and `ReadersAreIds`: `RingKept`, that `RingContent` holds on any number of CPUs, and
`InputNotLost` and `LinesRead`, that `NoLostInput` and `LineRead` hold if `NCpus = 1`. On two CPUs TLC
refutes both (section 6). `RingContent` is inductive as it stands; the work is in the ring, where the
index is taken modulo `RxSize` (`WindowGrows`, `WindowShrinks`), and in `tty_rx_line_length`, which is
shown to be the position of the first newline of what was accepted (`Smallest`, `LineLengthIs`,
`AvailableIs`): so more input never makes input unreadable (`ReadableGrows`). `OneCpuInv` adds
`OneAtATime`, that the CPU runs one reader, one TCSETS or the handler, the last also on top of a reader
with interrupts on; and `StillTrue`, that what a reader found when it tested still holds when it queues
or copies, and that a sleeper is on the queue, with nothing to read unless a wake-up is due. The copy
keeps it because a reader about to copy has input, and then no reader sleeps without a wake-up. For
`LineRead`, `Asked` adds that a read keeps the count it was called with.

**SignalsProofs** proves, for any finite set of tasks and any parents, signals, dispositions, masks and
stack size, under `SignalsAssumption` (signal numbers are below 64, the keyboard sends SIGINT and
SIGTSTP, no program installs an action for SIGKILL or SIGSTOP, no task is its own parent):

- on any number of CPUs `MasksRestored` and `ResultsSeen` (`MaskRestored` and `Results` of run
  `signals_mask`) and `StopsReported` (`StopReported` of run `signals_jobs`);
- if `NCpus = 1`, `WakesNotMissed` (`NoMissedWake`), whatever interrupts send;
- if `NCpus = 1`, `SignalsKept` (`SentKept`), wherever between `do_signal`'s read of `pending` and its
  write an interrupt comes and whatever it sends.

On two CPUs TLC refutes the last two, and on one CPU `PendingExact`, which is `SentKept` for the
keyboard's signals and SIGCONT too (section 6). `IInv` says of each task that
the mask it is entitled to is in force or put aside (`OldBlocked`), that a suspended call on its way
out has `-EINTR`, and that every frame is one `rt_sigreturn` may restore (`SafeFrame`). `Mild` is what no
signal changes in its target, `Calm` what no step inside the kernel does, so that `IInv` is at stake
only in the calls that set a mask, in the way back to user mode and in `handle_signal`. `OneCpuInv`
adds that one task at most is in the kernel and awake, and `Settled`: what a task tested before it
sleeps or stops is still so when it does, SIGCONT and a stop signal are never pending together, and
the task taking a signal has seen SIGKILL if it was there. The last is why a task that goes on to stop
has no SIGKILL outstanding. An interrupt can add a signal only to a task in user mode, off the CPU, or
with interrupts on, which has not decided to sleep (`Unmasked`, `IrqOne`); on the way to the stop it
adds SIGINT or SIGTSTP, which resume nobody. `ExactInv` adds that the copy of `pending` that `do_signal`
writes back is stale in the keyboard's signals and SIGCONT only (`Same`): an interrupt that queues SIGINT
or SIGTSTP touches no other bit (`SameUnseen`), and nobody else runs.

**JobsProofs** proves for any number of pids, under `JobsAssumption`, `LeadersStay`
(`LeaderStays` of run `jobs_groups`). The invariant adds
`SidCreated`, that a session's number is that of a task that was created, since otherwise setsid
could meet its own number in use.

Only model-checked: liveness (`CallsEnd`, `QueuedRuns`, `SleepEnds`, `KillEnds`), which rests on
fairness; `NoLostWakeup` of Pipe; the refinement of Vma and the properties of Vma and Buddy, whose operators fold over lists
and blocks, so that a proof needs induction over data; and the properties of Tasks, Slub, Vfs and
Files.

## 6. Deviations of the code

The passing runs stay inside what the code keeps. The following were found while modelling; each
property is defined in its module, and TLC refutes it on the instance named (paths are relative to
`src/`). None of these instances is part of a run.

| property | instance | code | says otherwise |
|---|---|---|---|
| OneCpuPerTask (Tasks) | 3 tasks, 2 CPUs, AllCalls | `kernel/sched/core.c:459`: `current` moves before the old stack is left, and the task can be pulled meanwhile | comment `core.c:224`, `README.md:139` |
| EndedIsOffCpu, NoLostChild (Tasks) | 3 tasks, 2 CPUs, AllCalls | `kernel/exit.c:80`, `signal.c:82`, `exit.c:303`: state tested and changed without a lock | comments `exit.c:75`, `exit.c:88`, `exit.c:50` |
| UaccessReturns (Cow) | Cow.cfg | `mm/uaccess.c:26`: a fault at EL1 has no fix-up | `lib/strnlen_user.c:1-8` "-EFAULT on fault" |
| ListSound, RefinesAddressSpace (Vma) | Vma.cfg, without `~bent` in the property | `mm/mmap.c:882`: after mprotect of the first heap page, brk inside the second extends the first over it; `812`, `925`: the end of a `munmap` or `MAP_FIXED` range wraps below its start and an area around both becomes two that overlap; `763`: a `munmap` that runs past 2^39 clears leaves of other areas | `README.md:217` "keeping the VMA list consistent" |
| Partition (Buddy) | NPages 11, Base 7 | `mm/page_alloc.c:58`: alignment of the address, blocks relative to `mem_start` | holds for the start `linker.ld:69` gives only if that is aligned |
| NoLostWakeup (Pipe) | 3 processes, `HasCpu(p) == TRUE` (more CPUs) | `fs/pipe.c:72`: another CPU comes between test and sleep | `README.md:154` |
| Lifetime (Pipe) | 2 processes, `HasCpu(p) == TRUE` | `fs/pipe.c:152`: both last closes find the other end closed and free the pipe | |
| Interruptible (Pipe) | Pipe.cfg | `fs/pipe.c:71`: a signal from an interrupt between the test and the sleep | `README.md:183` |
| UnlinkedFreed (Vfs) | MaxIno 2, MaxExec 1 | `fs/exec.c:139`: exec keeps its inode reference | `README.md:245` |
| ParentsLive (Vfs) | MaxIno 2, MaxDepth 2, no constraint | `fs/ramfs.c:544`, `851`: `..` of a removed open directory | |
| SendfileLossless (Files) | Files.cfg without symmetry | `fs/read_write.c:159`: a failed write leaves the input offset behind the chunk | comment "Partial write: rewind unused input bytes." |
| NoMissedWake (Signals) | SignalsJobs.cfg, NCpus 2, Sigs {9,17,18,19,20}, IrqSigs {} | `kernel/signal.c:264`: SIGCONT between report and stop | `README.md:190` |
| SentKept (Signals) | SignalsJobs.cfg, NCpus 2, IrqSigs {} | `kernel/signal.c:345`: kill on another CPU between read and write of `pending` | |
| PendingExact (Signals) | SignalsJobs.cfg | `kernel/signal.c:345`: read-modify-write with interrupts on | `kernel/sys.c:386` |
| GroupInOneSession (Jobs) | MaxPid 4 | `kernel/pid.c:85`: the session of the moved task is compared, not the group's | comment `pid.c:84` |
| ForegroundOnly (Jobs) | MaxPid 4 | `drivers/tty/tty.c:133`: group 1 negated is kill's broadcast | `README.md:182` |
| NoSelfDeadlock (Tty) | 1 CPU, Modes {} | `kernel/sched/wait.c:47`: lock taken with interrupts on and by the interrupt | `README.md:158` |
| FullReadable (Tty) | 1 CPU, Modes {} | `drivers/tty/tty.c:153`: a full ring without newline drops the newline | `README.md:263` |
| NoLostInput (Tty) | Tty.cfg with 2 CPUs | `kernel/sched/wait.c:143`: input and its wake-up on another CPU come between the test and the queueing | `README.md:151` |
| LineRead (Tty) | 2 CPUs, Modes {} | `drivers/tty/tty.c:189`: two readers, one line | `README.md:263` |

Read off the models without a property: a `MAP_FIXED` mapping whose allocation fails has already
removed what was there (`mm/mmap.c:935`); `mmap_base` only grows, so freed room is not reused
(`mm/mmap.c:950`); an area mapped at `start_brk` is taken for the heap; a zero-length write past the end
extends a file (`fs/ramfs.c:1170`); for an end above 2^63 `new_cap` is shifted to 0 and the loop at
`fs/ramfs.c:1102` does not end; a program that makes no system call is not ended by SIGKILL
(`kernel/sys.c:389`: nothing delivers on the way out of an interrupt); holes show what `kmalloc` returned; the directory position is an
index that shifts when an entry is removed (`fs/ramfs.c:107`).

## 7. What is not modelled

- *No caller*: the red-black tree `lib/rbtree.c`, `wait_event`.
- *Formatting, tables filled at boot*: procfs, initramfs unpacking, character devices, the library.
- *Hardware set-up*: boot and exception entry, GIC, CPU bring-up, clock, RTC, PSCI, virtio probe, the
  hypervisor demonstration. What they imply for scheduling is in the guards.
- *Not the kernel*: user programs and selftests.
- *Only reads*: stat, getdents, rt_sigpending. *Flags*: `f_flags`, access modes, O_APPEND.
- *Data layout and options*: ELF parsing and the argument stack; WNOHANG and the user
  pointers of wait4 (`kernel/exit.c:209`); the ppoll timeout.
- *Races on several CPUs in code without locks*, which the models treat as one step: the page
  allocator, `len` of a pipe (`fs/pipe.c:145`), `refcount` of a file (`fs/open.c:30`), the check of
  `tty_setpgrp` under two locks (`drivers/tty/tty.c:275`), tasks used after `tasklist_lock` was dropped
  (`kernel/signal.c:98`, `fs/procfs.c:63`), parent pointers of orphans (`kernel/exit.c:40`).

## 8. Plan

1. A two-CPU run of the page allocator with steps at each list access.
2. Tasks and Signals composed, so that the release of a task meets a pointer kept by `ksys_kill`.
3. Theorems for Vma's list operators and for the counts of Files.
4. The red-black tree as a pure algorithm, once the kernel uses it.
