# A TLA+ verification of the xv6-riscv fork

This directory holds TLA+ models of the kernel under `src/kernel`, of the shell
and the allocator under `src/user` and of the image builder under `src/mkfs`;
TLC configurations that check them on small instances; and TLAPS proofs about
the write-ahead log, the spin locks, processes, threads, pipes, the MinCU
scheduler and `sleep()`. The kernel is xv6 for RISC-V with
additions: threads inside a process, `deadfork()` and deadlines, cpu usage and
quotas with a second scheduler, crash reports kept in memory and in
`/reports.bin`, and file access from inside the kernel. Every model is written
from the code; where code and comments disagree, the model follows the code.

## The system and its parts

| part | source | module | state |
|---|---|---|---|
| spin locks, interrupts on and off | `spinlock.c` | `SpinLock`, `SpinLockProofs` | modelled, proved |
| sleep locks, buffer cache, disk driver | `sleeplock.c`, `bio.c`, `virtio_disk.c` | `Bio` | modelled; not the driver's start-up |
| write-ahead log | `log.c` | `Log`, `AtomicDisk`, `LogSteps`, `LogProofs` | modelled, proved |
| inodes, directories, file table, calls on files | `fs.c`, `file.c`, `sysfile.c` | `FileSys` | partly: no current directory, no devices |
| pipes | `pipe.c` | `Pipe`, `ByteQueue`, `PipeProofs` | modelled, proved |
| console, UART | `console.c`, `uart.c` | `Console`, `LineEditor` | modelled |
| memory, `exec` | `kalloc.c`, `vm.c`, `exec.c`, `proc.c` | `Memory`, `AddressSpaces` | modelled; not the kernel's own page table |
| processes, round-robin scheduler | `proc.c` | `Proc`, `ProcSteps`, `ProcProofs` | partly: no open files; proved |
| MinCU scheduler, quotas, `top`, `child_processes` | `proc.c` | `MinCU`, `SchedProofs` | partly: no change of scheduler at run time; proved |
| threads of a process | `proc.c`, `trap.c` | `Threads`, `ThreadsProofs` | modelled, proved |
| clock, `sleep()`, deadlines, cpu usage | `trap.c`, `sysproc.c`, `proc.c` | `Clock`, `SchedProofs` | modelled; `sleep()` proved |
| crash reports, kernel file | `trap.c`, `kfile.c`, `proc.c` | `Reports` | partly: not `myrep()` |
| shell | `user/sh.c` | `Parser`, `Shell` | modelled but for `cd` |
| `malloc`, `free` | `user/umalloc.c` | `Malloc` | modelled |
| image builder | `mkfs/mkfs.c` | `Mkfs` | partly: no byte order, no layout of inodes |

How they interact: a system call runs in a process (`Proc`, `Threads`) under
spin locks (`SpinLock`); a call on files goes through the file table to inodes
(`FileSys`), from there to the log (`Log`), the buffers and the disk (`Bio`), or
to a pipe or the console. A fault or a clock interrupt enters the kernel from
the side (`Reports`, `Clock`). The shell and the allocator see only system calls,
and `mkfs` makes the disk the file system starts from. `PROJECT.json` lists all
parts, the source lines of each definition, the hazards the properties are aimed
at, the runs, and for each property a variant of the code that breaks it.

## Modules

A lock is a variable with its owner. A step of a model is the code between two
places where another CPU, an interrupt or a crash can be seen to come in between: a
lock taken or given up, a sleep, a disk write. Definitions named `X_Y` are
variants of the definition `X` that follows them; no specification uses them.

**SpinLock.** `lk->locked` and `lk->cpu` of each lock; interrupts, `noff` and
`intena` of each CPU. `acquire()` and `release()` are cut at every access to the
lock word, `push_off()` and `pop_off()` belong to the step they are called in, and
an interrupt, which itself acquires locks, comes wherever interrupts are on. The
atomic swap is one step; the order in which memory sees ordinary stores is not modelled.

**Bio.** Buffers with block number, `valid`, `refcnt` and sleep lock, and the list
in order of use; the driver's free descriptors, the available and the used ring
with indices that wrap, and the completion interrupt; a device that serves
requests in any order, several at a time. `content` is what a block last held,
for `ReadsLatest`. A process may be killed in any of the three sleeps.

**Log.** `log.lh`, `log.outstanding`, `log.committing`, the pinned buffers, the
log on disk and the home blocks. `begin_op`, `log_write` and `end_op` are
actions of a process; `commit()` takes one step for each block it writes, and
`crash` may follow any of them. `AtomicDisk` is what it promises: the disk
changes by whole groups of operations, and `CrashAtomic` says that `Log`
implements it. The bottom of `Log`, that a read returns the last write, is
`ReadsLatest` of `Bio`.

**FileSys.** The inodes and the block bitmap as the buffer cache holds them, the
inode table with its references, locks and copies, directories, the file table
and descriptors. `open`, `mkdir`, `link`, `unlink`, `write`, `dup`, `close`: a step
is the code between two waits for an inode lock, `ialloc()` scans inode by inode,
and `iput()` takes five steps when it frees an inode. A transaction is the time
between `Begin` and `end_op`; by `CrashAtomic` of `Log`, a crash leaves
the disk as it was when no transaction was open, which is when `LinksCounted`
speaks.

**Pipe.** The ring of `PIPESIZE` bytes and its two counters modulo `UINT`, the
readers and writers asleep on it, and `pipeclose`. It implements `ByteQueue`, an
ordinary queue.

**Console.** The ring of `cons` with its three counters modulo `UINT`, `cons.lock`,
`uart_tx_buf` and its lock, and the 16550 with its FIFOs and interrupt. Readers,
writers, `consoleintr()` key by key with its echo, which goes to the transmitter without
the lock, and `uartstart()`. It implements `LineEditor`: a queue of finished lines
behind a line that can still be edited.

**Memory.** Physical pages, the free list, and for each process its size and its
page table as a tree of frames. An action is a whole call (`fork`, `exec`, `sbrk`,
`freeproc`, `copyin`, `copyinstr`, `copyout`) that finds k free pages, for any k, since page
tables are private and calls meet only in `kalloc()`; `Then` and `Else` carry the machine through the steps of a call, or to the code
behind `bad:`. It implements `AddressSpaces`, where each process has an image of
its own and a failing call changes nothing.

**Proc.** `proc[]` with state, parent, pid, killed, chan; `p->lock` and
`wait_lock`; CPUs that run the round-robin scheduler. `fork`, `exit`, `wait`,
`sleep`, `wakeup`, `kill`, `yield`, lock by lock.

**MinCU.** CPUs that scan `proc[]` slot by slot under `proc_lock`, each keeping the
`p->lock` of its best candidate, while processes on the others yield, sleep, exit,
fork, reap and wake each other and the clock ticks; `set_cpu_quota()`, `top()` and
`child_processes()`, slot by slot, under the locks they take or without.

**Threads.** One process and its `MAX_THREAD` slots. What matters is where the
user registers of each thread are: in the trapframe the process uses, in the page
of the thread, or on the kernel stack. Actions are the trap, the system calls on
threads, the timer in user and kernel mode, and the scheduler's choice.

**Clock.** `ticks` modulo `UINT`, `tickslock` and `p->lock`; the clock interrupt
with its two loops over `proc[]`, `sys_sleep`, `deadfork` and `cpu_usage`.

**Reports.** `log_trap` and its ring, `store_trap` and `sysrep`, the
kernel file layer, the slots of the file and inode tables it uses, the count of
open transactions, and the contents of the file in memory and on disk, with
reboots.

**Parser, Shell.** `Parser` has `parsecmd()` and what it calls as recursive
operators from a sequence of tokens to a command, and `Line`, which writes a command down:
`ProgramsAreWired` compares what runs with the command a line was written from. `Shell` runs what was parsed: `fork1`,
`pipe`, `dup`, `close`, `open`, `exec`, `wait` in `runcmd()`, each a step of one of
the processes, on descriptors with counted pipe ends. Programs are `cat`, which
copies until end of file, and `echo`, which writes and exits.

**Malloc.** The circular list of free blocks and `freep`; `malloc` with `morecore`,
and `free`, each one action, since the allocator is used by one thread. The break
may be moved by somebody else in between.

**Mkfs.** The root directory, then the files: `ialloc`, `iappend` by pieces of any
length through direct and indirect blocks, and `balloc`, which writes the bitmap.

## Runs

| run | shows |
|---|---|
| `log` | the log is atomic under crashes at every step; never full in `log_write()`; a sleeper in `begin_op()` goes on |
| `kernel` | *processes*: one CPU per process, no orphan, no lost exit, fork's result. *spin locks*: exclusion. *allocator*: the heap is tiled by blocks. *shell*: programs get the right descriptors, commands end. *mkfs*: every file of the image reads back |
| `proc_liveness` | `wait()` returns when a child has exited |
| `bio` | reads see the last write, nobody sleeps without a wakeup to come |
| `pipe` | first-in first-out with wrapping counters, freed when unreachable, no eternal sleep |
| `process` | *threads*: registers are kept apart, no join is lost, saves go to live pages, runnable threads run. *memory*: frames are conserved, copies are exact, calls implement `AddressSpaces` |
| `services` | *reports*: the file keeps every report and `sysrep` shows the latest, one call at a time, across a reboot. *console*: implements `LineEditor`, no sleeper is forgotten, output is in order. *MinCU*: the candidate is held, the least used process within its quota is chosen |
| `clock` | `sleep()` is neither short nor endless, deadlines kill, while `ticks` wraps |
| `fs` | references, link counts and blocks agree; nothing in use is freed; no deadlock on inode locks |
| `clock_deadlock` | violation: `cpu_usage()` and the clock interrupt take two locks in opposite order |
| `fs_orphan` | violation: an inode allocated again while `iput()` lets go of it is never freed |
| `threads_main_stop` | violation: stopping the main thread does not end the process |

`kernel`, `process` and `services` hold several models that share no variable and no
code. The variable `unit` is chosen in the initial state and says which of them
moves; the others stay as they began. The reachable states of a model in such a run are
those it has alone, so nothing is lost and no interleaving of unrelated parts is
explored; `View` keeps only the variables of the part that moves.

### Bounds

Two or three actors are enough for every pairwise race; counters wrap after
a few values, so wrap-around is reached; logs, rings and pools have two to seven
places, so that full and empty are both reached.

- `log`: two processes, three blocks, two values, a log of four. One block per
  operation keeps the liveness check small; the theorems cover every size. It is below
  `MAXOPBLOCKS`, as `RoomForAll` requires.
- `bio`: three processes, four blocks and three buffers, so that buffers are
  recycled and waited for; seven descriptors, so that the third request runs out
  after one of its three; ring indices start at 5 of 7 and wrap. Four accesses in all
  (`MAXIO`), after which `Terminated` stutters.
- `fs`: four calls on paths in all (`MAXCALLS`), enough for create, link and two
  unlinks, or for a failing `mkdir` against `mkdir` and `unlink`; one block and two
  inodes to fight for. `Terminated` is the state after the last call, so that TLC's
  deadlock check finds only real ones.
- `services`: `MAXBUSY = 1` keeps out the overlap of two crashes, which hangs (see
  below). The console's ring has three places: `^U` erases two characters, and from the second
  initial state, two characters into a line with counters about to wrap, a ring that
  fills with a reader asleep and a key that finds it full are within `MAXCALLS = 3`.
  In MinCU the first processes have a quota that is never used up; `set_cpu_quota()` asks for 1,
  which one tick uses up, and a new process has quota 0, which it is over at once.
- `process`: pages of two units, two of them under a lowest page table, so a
  size ends inside a page, a copy crosses one, and growth needs a new page-table page; 24
  frames, enough for what is allocated when nothing fails; a call finds up to twelve pages,
  more than any needs, and three calls are made. Programs with a gap, with overlapping segments, cut off, and refused.
- `kernel`: three process slots and two CPUs; three CPUs and two locks; heaps of up to
  twelve units; one command line of each form, also malformed ones, with up to two refused
  forks or pipes; images with direct and indirect blocks and pieces that cross a block.

### Fairness

Weak fairness is assumed of CPUs that run kernel code, of the clock interrupt's handler, of
recovery, and in `Threads` of the scheduler and the timer. Strong fairness is assumed where
the code contends: a spin lock that is free again and again is obtained in the end, a process
that is `RUNNABLE` again and again is scheduled (the scan of `proc[]` comes round to it), the
timer makes a running process yield, and in `Log` an operation that has begun ends, since
the code between `begin_op()` and `end_op()` writes finitely many blocks. In `Pipe` every
process closes its end at last, as `exit()` does. Nothing is assumed of what user code asks
for: no process must start a call. `SleepReturns` and `DeadlineKills` exclude the lock cycle
that `clock_deadlock` exhibits, by name.

### Deadlock checking

It is off where the system may rightly stop: all users of a pipe have closed it,
the parts of `services` make a bounded number of calls, threads that join each other wait for ever,
processes that all wait in `proc_liveness`, and the clock's lock cycle. It is on in `log`, `kernel`, `bio` and `fs`.

## What is proved

Every theorem holds for all values of the constants that the named assumption of the
module allows. Each rests on an inductive invariant, which TLC checked first on the
instance of the run, with one lemma per action that the action keeps it. `PROJECT.json`
lists the theorems, and with each the property that a run checks as well.

**The log** (`LogSteps`, `LogProofs`; `LogAssumption`: finitely many processes, any blocks
and values, `MAXOPBLOCKS < LOGSIZE`). Type correctness; no process sleeps in
`begin_op()` without a reason; a quiet log is durable; the write-ahead rule;
`log_write()` never finds the log full (`RoomForAll`); and `Log` implements `AtomicDisk`
(`Atomicity`). The invariant `IndInv` (theorem `Invariance`) says how the header in memory, the header
on disk, the pinned buffers and the stage of the commit go together. `RoomForAll` adds `RoomInv`: the blocks in the header, together with what the operations in
progress may still add, `OpBlocks` each less the blocks they are charged for having written, leave
two places of `LOGSIZE`. Its hypothesis `OpBlocks < MAXOPBLOCKS` is needed:
`begin_op()` reserves `MAXOPBLOCKS` per operation out of `LOGSIZE`, `log_write()` refuses
at `LOGSIZE - 1`, and with operations of exactly `MAXOPBLOCKS` blocks TLC finds the panic
(`log.c:220`). `filewrite()` reaches `MAXOPBLOCKS` only if every data block it adds has
a bitmap block of its own (`file.c:193`); the images of `mkfs` have one bitmap block.
The count uses a surjection from pairs of an operation and a number onto the charged
blocks, since induction over the set of operations is not available.

**The spin locks** (`SpinLockProofs`; `SpinLockAssumption`: any CPUs, finitely many locks, which
are numbers and are taken in rising order). A lock has one holder at most
(`Exclusion`), no CPU takes an interrupt while it holds or waits for a lock (`Masked`), and
`acquire()` never panics on its own lock and the last `release()` restores the interrupts
(`Restored`). Exclusion alone is not inductive: between the swap and the store of
`lk->cpu`, and between the reset of `lk->cpu` and of `lk->locked`, the lock word and the owner
disagree, and that no interrupt handler comes in there depends on `noff`.
`SpinInv` says which locks a CPU has at each instruction
(`LockInv`), and that `noff` is their number, plus one inside `acquire()` and `release()`, with
`intena` recording what interrupts were before the first (`NestInv`).

**Processes** (`ProcSteps`, `ProcProofs`; `ProcAssumption`: two slots or more, finitely many
CPUs). No two CPUs run one process (`OneStack`), every process but init has a living parent
(`ParentOutlives`), `wait()` does not sleep through an exit (`NoExitMissed`), and `fork()`
returns the pid of its own child although it reads it without the lock
(`ForkReturnsChild`). `ProcInv` ties `p->state` to the place of the kernel thread and to
the owner of `p->lock` across `swtch()` (`CpuInv`, `StateInv`), gives a child being made to
one parent (`ForkInv`), and records how far the loops of `reparent()`, `wakeup()` and `wait()` have come
(`LoopInv`): a lost exit is excluded only because the loops run under `wait_lock`. `WakeInv` names the one
exception: init may sleep beside a zombie it has just inherited, until the `wakeup()` under
way reaches it.

**Pipes** (`PipeProofs`; `PipeAssumption`: any `PIPESIZE`, `UINT` a proper multiple of it). `pipeclose()` frees
the pipe only when nobody can reach it (`NoUseAfterFree`), and `Pipe` implements
`ByteQueue` (`PipeIsByteQueue`): the counters wrap, and the slot of a byte is the same
before and after because `PIPESIZE` divides `UINT`. `PipeInv` says who has `pi->lock`
and what was tested under it, and that an end is open as long as a process has it.

**Threads** (`ThreadsProofs`; `ThreadsAssumption`: any `MAX_THREAD`). A thread returns with its own
registers (`RegistersKept`), joins are not lost (`JoinNotLost`), `sched()` saves to live pages
(`SavesAreSafe`). `ThreadsInv` says which registers are in `p->trapframe`, in the page of
each thread and in the scheduler's copy, on the CPU and off it, and that ids are not reused.

**The MinCU scheduler** (`SchedProofs`; `MinCUAssumption`: any slots, any CPUs, times below
the initial `min`). A scanning CPU holds the `p->lock` of its candidate and no other, and a process runs
on one CPU (`CandidateIsHeld`); the process it switches to has used no more
than any that was eligible through the whole scan (`LeastUsedFirst`). The second speaks only of
the end of a scan; `MinCUInv` says what holds in the middle: of the slots passed so far, those still
eligible have used no less than the candidate (`LeastInv`), whose state and usage its lock keeps as
they were read (`ScanInv`); usage never exceeds the time passed (`UsageInv`), so
that a first candidate is always below the initial `min`.

**`sys_sleep()`** (`SchedProofs`; `ClockAssumption`). It returns after `n` ticks at the earliest,
for any width of `ticks` (`SleepsEnough`), from `ClockInv`: `ticks - ticks0` in unsigned arithmetic is the
number of ticks since the call. `MAXLAG < UINT` is needed: a call that is not scheduled
for 2^32 ticks would lose count.

These results are about safety. Only model-checked: the properties of `Bio`, `FileSys`, `Console`,
`Memory`, `Reports`, `Malloc`, `Parser`, `Shell` and `Mkfs`, and all liveness. Liveness
and ENABLED, induction over data (the parser, the allocator's list, page tables of any
depth), and recursive operators are out of the prover's reach.

## Where the code disagrees with its comments or its purpose

Three have runs (above). Others, found while modelling:

- Two processes that crash together: the inode lock that `kfilecreate()` returns with is
  never released, and the second sleeps for ever (`trap.c:243`; `StoreReturns` in `Reports`).
- `create()` and `link()` do not test whether the directory they have just locked was removed
  meanwhile; a file entered there is lost (`sysfile.c:270`).
- `fileseek()` returns from its error paths with the inode locked (`file.c:125`); nothing calls it yet.
- `set_cpu_quota()` loops for ever when its target is neither the caller, nor its child, nor
  without a parent: it reads `target_proc->parent` again and again (`proc.c:1283`).
- `kill()` wakes only a process that already sleeps: one between its test of
  `killed()` and `sleep()` sleeps on (`proc.c:901`).
- `kill(0)` marks a free slot, and the next process in it is born killed (`proc.c:898`).
- A killed writer leaves the pipe without waking the reader (`pipe.c:85`).
- `begin_op()` admits `LOGSIZE` blocks, the log on disk holds one less (`log.c:220`).
- A failing `kfileseek()` returns inside its transaction (`kfile.c:116`).
- `store_trap()` reuses an inode pointer whose reference it has dropped (`trap.c:241`).
- The report counter restarts at boot; `myrep()` shows the descendants among the last
  ten reports of the system, not the last ten of the descendants.
- The result of a system call that sleeps can go to another thread (`syscall.c:165`;
  `ResultToCaller` in `Threads`).
- A process all of whose threads are in `join_thread()` never runs again.
- `child_processes()` takes no lock: while others fork, exit or are reaped it may list a
  process that is no descendant.

## Modelled without a property

The models contain these parts, and no run states what they should do: the lists that `top()` and
`child_processes()` return, and the ring of reports in memory (`MinCU`, `Reports`); the count at the head
of `/reports.bin`; the bitmap `mkfs` writes; the merging of free neighbours in `free()`; that `;` waits for its
first command, and what a malformed line parses to; that a filled transmit buffer is always served; that a buffer
cache has one buffer per block and descriptors are neither lost nor shared, except as far as
`ReadsLatest` and `SleepHasReason` depend on it; the in-memory copies of inodes.

## Not modelled

- `myrep()`, which reads the ring of reports without a lock.
- Trap entry, context switch, boot and interrupt controller (`*.S`, `start.c`, `plic.c`): register
  saving and machine set-up, below the level of the models. The order of `main()` is in `Reports`
  where it matters.
- The kernel's page table, built once before other CPUs run, and the start-up of the disk driver.
- In `FileSys` the current directory, `.` and `..`, devices, `mknod`, offsets and bytes; `fstat` and
  `read` change nothing but an offset; `sys_seek` is not in the table of system calls. Two levels of
  directories with two processes are as much as TLC explores.
- `ssched()`, which changes the scheduler of a running system, and MinCU for processes of
  several threads.
- `printf`, string functions, `param.h` and the fetching of arguments: no shared state.
- User programs other than the shell and `cat`: they run one after the other on system calls that
  are modelled, and have no state of their own. The tests were read for what they expect.
