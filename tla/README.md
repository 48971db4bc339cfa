# Linux 0.11: a model of the kernel's waiting, caching and paging, its drivers, processes and terminals

The repository is a collection of source trees. The one with a system of its
own to verify is `src/linux-0.11`, a complete kernel of about 13000 lines; the
others are third-party releases, book examples and user interfaces, and are
listed in `PROJECT.json` with the reason they are left out. This directory
holds TLA+ modules for the parts of the kernel where several tasks and
interrupt handlers work on shared state, TLC configurations for small
instances, and TLAPS proofs. File names below are relative to
`src/linux-0.11`.

## The system

The kernel runs on one processor and is **not preempted**: a task that executes
kernel code keeps the processor until it calls `schedule()`, which it does by
sleeping or on its way back to user mode. Interrupt handlers run in between,
wherever interrupts are enabled. Almost every difficulty of the code comes from
one pattern: state is examined, the task sleeps, and the state is used.

| component | state | operations | correct when |
|---|---|---|---|
| wait queues (`kernel/sched.c`) | one pointer per queue, `tmp` on the stack of each sleeper, task states | `sleep_on`, `interruptible_sleep_on`, `wake_up`, the signal scan of `schedule` | `wake_up` leads to the return of every sleeper |
| request queue (`kernel/blk_drv/ll_rw_blk.c`, `blk.h`) | the table of requests, a list per device | `make_request`, `add_request`, `end_request` | list and table agree, the elevator sweeps, nobody starves |
| buffer cache (`fs/buffer.c`, `file_dev.c`, `block_dev.c`) | buffer heads, hash and free lists | `getblk`, `bread`, `breada`, `brelse`, `sync` | one buffer per block, a block behaves as one memory cell |
| hard disk driver (`kernel/blk_drv/hd.c`) | `do_hd`, `reset`, `recalibrate`, progress of the current request | `do_hd_request`, the interrupt handlers | a request that ends well was transferred; every request ends |
| memory (`mm/memory.c`, `mm/page.s`, `fs/exec.c`) | `mem_map`, page tables, `executable` | faults, `fork`, `execve`, `exit`, `verify_area` | counts are exact, tasks do not see each other's stores |
| inodes (`fs/inode.c`) | the inode table | `iget`, `iput`, `sync_inodes` | one entry per inode, counts are references |
| pipes and open files (`fs/pipe.c`, `open.c`, `fcntl.c`, `read_write.c`) | ring buffer in a page, descriptors, `file_table` | `read_pipe`, `write_pipe`, `open`, `close`, `dup` | first in first out, closing ends the other side's wait |
| processes and signals (`kernel/fork.c`, `exit.c`, `signal.c`, `sys.c`) | the task table, pids, fathers, signal sets | `fork`, `exit`, `waitpid`, `kill` | a father hears of each child once |
| floppy driver and timers (`kernel/blk_drv/floppy.c`, `kernel/sched.c`) | flags `reset`, `recalibrate`, `seek`, the handler, motors and their counters, the timer list | `do_fd_request`, the interrupt handlers, `do_timer`, `floppy_change` | transfers only from the right drive up to speed, every request ends |
| scheduler (`kernel/sched.c`) | counters | `schedule` | every runnable task runs (appears as fairness) |
| terminals (`kernel/chr_drv`) | three ring buffers per terminal | `copy_to_cooked`, `tty_read`, `tty_write` | characters are neither lost nor invented |
| bitmaps, super blocks, names (`fs/bitmap.c`, `super.c`, `namei.c`) | bitmaps, the super block table, directories | allocation, mount, path walk | a block has one owner |

How they meet: file and directory code asks the buffer cache for blocks; the
cache sleeps on the wait queues of its buffers and hands buffers to the request
queue; the queue starts the driver when it was empty; the driver's interrupt
ends the request, unlocks the buffer and wakes its sleepers. Page faults read
through the same cache; the inode table reads and writes inodes through it. A
pipe is an inode with a page. The timer interrupt drives the floppy's motors,
the keyboard and serial interrupts fill and empty the queues that processes
read and write. `exit` and `fork` touch all of it.

The behaviours that are hard: pointers kept across a sleep, which `release()`
and the reuse of a task structure make stale; a lock that is released while its
waiters are still asleep; the disk interrupt between any two statements; a copy
from user memory that sleeps in a page fault; memory that runs out halfway
through a `fork`; disk errors in the second half of a transfer; numbers of
inodes and processes that are used again; an interrupt that calls the routine it
interrupted. `PROJECT.json`
lists them one by one under "hazards", with the line and the property that
watches over it.

## The modules

**WaitQueue** models `sched.c` 111-120 (the signal scan), 144-194, and the
`do_exit`, `release` and `copy_process` parts that change a task's state. A step
is what a task does between two calls of `schedule()`, or a `wake_up()`. `tmp`
and `on` are the local variable and the argument of the sleep function. A stale
pointer may name a freed structure; writing through it has no effect here,
because the page belongs to somebody else by then. Most callers disable interrupts
before they look and sleep. `make_request()` and `floppy_on()` do not
(`ll_rw_blk.c` 129, `sched.c` 236): on the queues in `OpenQueues` going to sleep
takes two steps, `Enter` (up to `*p = current`) and `Block` (the state and
`schedule()`), and a handler's `wake_up()` may come in between. It then sets running
what is running and clears the pointer, and the task and all behind its `tmp` sleep
for good. `missed` is the history of the queues this has happened to.

**WaitSet** is what the rest of the kernel believes: a queue is a set of
sleepers and `wake_up` dooms all of them to return. `WaitQueue!WaitSetSpec` maps
`woken` to the sleepers that tasks in flight reach through `tmp`, for the queues
that no handler wakes while a task is entering them; what becomes of the others
meanwhile must not matter to these.

**RequestQueue** models the table of requests and the elevator, with a slot and
a list position for each request.

**BufferCache** models `getblk` and its callers statement by statement between
two points where the disk interrupt matters: the look-up, each of the three
waits, the search for a victim, its write-back, the assignment, `bread`'s and
`breada`'s reads, the copy (which may sleep in a fault), the release, and
`sync`. `cpu` says who is in the kernel; only `DiskInterrupt` runs while it is
taken. `last` is history. It composes with RequestQueue
(`RequestQueueSpec`) and implements **BlockStore**, one memory cell per block
(`BlockStoreSpec`).

Of the sleeps of the cache, `wait_on_buffer()`'s are entered with interrupts off
and no handler wakes `buffer_wait`, so they are one step each. `make_request()` is
another matter: interrupts are on from its search of the table to the end of its
`sleep_on()`. A process that finds no slot therefore goes through three steps
(`NoSlot`, `SlotEnter`, `SlotSleep`). `FreeSlot`, the `wake_up(&wait_for_request)`
of `end_request()`, wakes nobody if it comes before the process is in the queue: the
process then sleeps although there is a slot, until the next `end_request()`, and
there may be none. If it comes inside `sleep_on()` the process is lost with all
sleepers behind it, and no later `end_request()` finds them, for the pointer is
cleared. `Missed` names both.

`sync_dev()` calls `sync_inodes()` between its two rounds and `sys_sync()` before its
only one. The call is the action `SyncInodes`: the process may sleep there, in the
inode table or in the cache, and what it writes into inodes' buffers are writes of
the kind other processes make here. That it returns is an assumption of this
module; InodeCache shows when it does not.

**HdDriver** models `hd.c` from `hd_out` to `do_hd_request` and `hd_interrupt`
of `system_call.s`. The loop of `do_hd_request()` is one step per round; nothing
else runs meanwhile, because the kernel is not preempted and no command is
outstanding. The drive is external: it ends each command with an interrupt,
good or bad; it may not ask for the data of a write; a sector whose write failed
holds the old data, the new, or neither. After its last request is given up
`bad_rw_intr()` reads `CURRENT->errors` through a null pointer: that is the page
directory's third entry (`boot/head.s` 205), a large number, so `reset` is set.
The position of a new request in the list is left open; RequestQueue has it.

**Memory** models `memory.c`, `page.s` and the parts of `fork.c`, `exit.c` and
`exec.c` that change an address space. Pages of page tables and task structures
are only counted, and so are the pages of arguments that `do_execve()` holds until it
maps them (one stands for all those of a call): `arg_pages`. `copy_strings()` reads
user memory and may fault (`Fault` at `args`), load a page and run out of memory;
then `oom()` calls `do_exit()`, which does not return to lines 350-351 of `exec.c`,
and the pages in `page[]` stay taken: `leaked`. What is stored to the stack after
the new program is in place (`create_tables()`) is like a store of that
program. `image` is
history: what each task stored and therefore must find. A scenario fixes the
tasks at the start and the calls they make.

**InodeCache** models `inode.c` with `new_inode`, `free_inode` and the calls of
`namei.c` and `open.c` that use inodes: look up and change, create, remove, make
a pipe, write all inodes back. A step ends where a process may sleep, on `i_wait`
or in the buffer cache. `read_inode()` and `write_inode()` call `bread()` with the
inode locked, and `bread()` may come to `sync_inodes()` when all buffers are dirty
(`buffer.c` 231, 72): `SyncUnderLock` puts the process to sleep on a locked inode of
the table, its own at the latest, and `under` says who is there. The code has two
more holes, and the history variables record
when one is entered: `torn`, when `free_inode()` clears an entry that another
process has locked, and `stale`, when `iget()` reads an inode that was freed
after its number was found.

**Pipe** models `pipe.c` with the parts of `open.c`, `fork.c`, `exit.c` and
`inode.c` that count its ends. The copy of each chunk follows the move of the
pointer, and may sleep in a page fault in between; the scenario `faults` says
whether it does.

**Process** models `exit.c`, `fork.c`, `signal.c` and `sys.c`: a process is tied
to its father, group and session by numbers only. `parent` is history: the slot
of the real father. Task 0 is left out and all processes are the super user's. Init
runs the loop of `init/main.c` 186-206: it forks, again and again while `fork()`
fails, then waits until that child is collected (`shell` is its number), and begins
anew.

**Tty** models one terminal, its three queues, a reader and a writer. Interrupts
come between any two accesses to a queue, so `GETCH` and `PUTCH` take two steps.
The serial handler sends EOI last and is not entered twice: it is one step. The
keyboard's comes through a trap gate (`console.c` 683) and sends EOI before
`do_tty_interrupt()` (`keyboard.S` 66-69), so the next key may interrupt it anywhere
in `copy_to_cooked()` or `con_write()`. `handlers` is the stack of its activations,
each with what it does next (`todo`), its character and a register; `Access` is one
access of an activation to a queue, `Handler` lets the innermost make one, and no
process runs before the stack is empty. The serial handler is the same accesses
in one go (`CopyToCooked`). `raced` and `torn` record the moments after which the
input or the output is no longer in order.

**Floppy** models `floppy.c` with the timer list and the motors of `sched.c`.
Its handlers call each other, so each is an operator from a state (a record `s`)
to the states it may leave behind. `raced` records that two chains of handlers
are under way, `wild` that a transfer began without a request. A process in
`floppy_change()` goes step by step as well, because interrupts are on between
its tests and its sleeps: `floppy_on()` tests `mon_timer` after `sti()`
(`sched.c` 228-236), and `floppy_change()` reads `current_DOR`, `selected` and
`current_DOR` again (`floppy.c` 143-146). The timer tick or the
`floppy_deselect()` that comes in between wakes nobody, or loses who is inside
`sleep_on()`; `missed` records it.

Memory's predicate `Separate` names the combinations of calls for which sharing
of program pages is not invisible; `SharingInvisible` is conditioned on it.

In most modules the type invariant and the smaller invariants are the named
conjuncts of one property, stated last (`HeadsConsistent`, `InStep`,
`PagesCounted`, `TableConsistent`, ...); the parts carry their own comments.

`MC*.tla` give the instances where a configuration cannot. Definitions introduced
as slips are variations of the definition below them, one plausible mistake each;
no `Next` uses them.

## The runs

| run | instance | shows |
|---|---|---|
| `wait_queue` | three tasks; a queue of each kind and one that tasks enter with interrupts on; one task may exit and be replaced, two may be signalled | `TypeOK`, `DeadNotAsleep`, `NoLostSleeper`, `WaitSetSpec`, `WokenReturns` |
| `request_queue` | five slots, six blocks | `ElevatorOrder` (types, table and list agree, `TwoSweeps`), `EveryRequestServed` |
| `cache_structure` | two buffers, three blocks, two slots; read-ahead and sync against a writer that may fault; I/O errors | `HeadsConsistent` (types, `CountIsReferences`, `LockHasOneOwner`), `OneBufferPerBlock`, `HeldBufferKeepsBlock` |
| `cache_is_store` | a reader and a writer, two values | `CleanIsOnDisk`, `BlockStoreSpec` |
| `cache_live` | read-ahead and a writer, an interrupt anywhere between the search for a slot and the sleep | `EverySleeperWoken`, `RequestQueueSpec` |
| `hd_driver` | two requests, a block across two cylinders, a block half outside its partition, three errors | `InStep` (types, `CommandFits`, `NeverStalled`), `GivenUpAfterMaxErrors`, `OkMeansTransferred`, `WritesStayInside`, `CurrentEnds` |
| `memory` | up to three tasks, two addresses in two page tables; eight, ten or fourteen pages | `PagesCounted` (types, `MemMapCounts`, `ArgPagesCounted`), `WritableIsPrivate`, `SharingInvisible` (`CleanIsFile`, `MemoryIsPrivate`) |
| `inode_table` | three processes, three entries, two inodes, six mixes of calls | `TableConsistent` (types, `CountIsReferences`, `UnusedIsIdle`), `OneInodePerNumber`, `LocksSound` (`LockHasOneOwner`, `SleeperHasWaker`), `ChangesKept` |
| `pipe` | two processes, a ring of four bytes, with and without faults | `FirstInFirstOut`, `EndsConsistent` (types, `CountsAreEnds`, `SleepersWait`), `ClosedEndReturns` |
| `processes` | init and two more slots, four process numbers, four mixes of calls | `FamilyRight` (types, `FatherIsParent`), `WaiterIsTold`, `OrphansCollected` |
| `terminal` | queues of three characters; a console whose handler may be interrupted once by the next key, a raw line, a line with echo | `InputConsistent` (types, `InputInOrder`, `SleepersWait`), `OutputInOrder`, `ReadEnds`, `WriteEnds` |
| `floppy` | two requests, two drives, one request perhaps behind the end, one fault outside the counted errors, a process in `floppy_change` | `DriverReady` (types, `OneThingInHand`, `TransferReady`), `OkMeansTransferred`, `RequestEnds`, `ChangeReturns` |

**Why the bounds are enough.** A wait queue needs three tasks for its hard case:
a sleeper whose `tmp` names a task that has gone and come back while a third
sleeps behind it; that one task may exit (`Mortal`) is enough for the stale name. Signals matter
to interruptible sleepers only, so the tasks that may be signalled are those that
sleep that way (`Readers`).
The cache has fewer buffers than blocks, so every call may have to evict, and
fewer buffers than two calls want, so they wait for each other; two slots give
one to writes, so the table fills up. The elevator needs five slots for two
sweeps of more than one request each. The disk's block has its two sectors in
different cylinders, and three errors are enough for `MAX_ERRORS/2` to ask for a
reset before the request is given up. Eight pages are one or two short of what
three tasks need, so every allocation fails in some behaviour; in the scenarios
about contents there is room for everybody's copies. Three inode entries serve
three processes; `spare` lowers them to one, so that `get_empty_inode()` finds none.
The ring of a pipe goes round within five bytes, and a write of four never fits
at once. Four process numbers for three tasks come round after two forks. A
terminal queue of three characters is full after the echoes of three keys, or of a
newline and another, and wraps
within what a run types. `READ_LEFT` is 1, so that "nearly full", where a reader may
have an unfinished line, and "full", where `copy_to_cooked()` looks at no more input,
are different states, as with the code's 20: an erase leads from the first to one
where there is nothing to read. On the console, where handlers interrupt
each other access by access, two keys (`MaxNest` activations) and one character
written are enough to hit each `GETCH`, `PUTCH` and `con_write()` of both; the lines
have three keys, and the raw one four characters to write. The floppy's times are scaled down but keep their order
(`SETTLE < SPIN < OFF`, and a command is shorter than a motor stays on), which
`FloppyAssumption` states; two errors give the retry, the recalibration and the
end of a request.

**Deadlock** is not checked where the system may stop: HdDriver stops in
`panic()`; in Memory and Pipe all tasks may have exited; InodeCache's table may
be full or the kernel panic; in the cache everybody may wait for a lock whose owner
was lost in `sleep_on()`; in Tty, Process and Floppy everything allowed by the
bounds may have happened. There the liveness properties say what must not stop.

**Fairness.** `Kernel(p)`, weakly: `schedule()` runs the
task with the largest counter, counters only go down while a task runs and are
refilled only when all runnable ones are zero, so a task that stays runnable
gets the processor, as long as the others do not fork for ever. In Pipe and Tty
the processor is a variable (`cpu`), and in WaitQueue a task that is entering a queue
has it (`entering`), so a runnable task is enabled only now and
then, and the same argument gives strong fairness of its steps. In Process, init
makes the next call of its loop (`Fork(1)`, `SysWaitpid(1, -1)`, `WaitRepeat(1)`,
weakly); that its `fork()` succeeds is not assumed, and `OrphansCollected` says what
follows if init comes to its `wait()` again and again. `DiskInterrupt`, `EndRequest`,
`HdInterrupt`, `FloppyInterrupt`, the serial line's `WriteChar` and the clock's
`DoTimer`, weakly: devices answer every command; and a keyboard handler goes on
(`Handler`). That `EndRequest` is fair is what
`CurrentEnds` establishes for the disk from the fairness of the drive;
`hd.c` has no timeout, so an interrupt that is lost cannot be survived and is not
modelled. Nothing is assumed of system calls: a process need not call anything.
That every `getblk()` returns is not claimed, since a process can lose every race
for a buffer; `EverySleeperWoken` says that each sleep ends, and that as long as no
disk interrupt comes between `make_request()`'s search and its sleep.

## Disagreements

Where the code does not do what a comment says, or a property holds only up to a
point, the models follow the code. They are named here because the properties
above step around them.

* **An exited task runs again.** `interruptible_sleep_on()` sets a task running
  through `tmp` after a sleep (`kernel/sched.c` 184). If that task left the queue
  and exited meanwhile, `do_exit()` returns, although `kernel/exit.c` 134 has its
  `return` "just to suppress warnings" and `kernel/signal.c` 13 declares it
  `volatile`. WaitQueue's `exited` tells; `DeadNotAsleep` and `NoLostSleeper`
  hold all the same. `*p = NULL` on the way out can also drop other interruptible
  sleepers; nothing is promised of these queues.
* **Sleepers that are lost.** `wake_up()` in the middle of `sleep_on()` clears the
  pointer and sets running a task that then assigns its state and sleeps
  (`kernel/sched.c` 160-161). `make_request()` (129) and `floppy_on()` (236) go there
  with interrupts enabled, and between the look and the call (`ll_rw_blk.c` 119-129,
  `sched.c` 228-236, `floppy.c` 143-144) a `wake_up()` is not heard of. A process
  lost by `make_request()` keeps its buffer locked for good. `NoLostSleeper`,
  `EverySleeperWoken` and `ChangeReturns` hold up to that moment.
* **A process that waits for itself.** `read_inode()` and `write_inode()` hold
  `i_lock` across `bread()`; when all unused buffers are dirty, `getblk()` calls
  `sync_dev()`, that `sync_inodes()` (`fs/buffer.c` 72, 231), and that waits for
  each inode of the table, the caller's own too. `LocksSound` names it.
* **A write that is lost.** `file_write()` marks the buffer dirty before it copies
  (`fs/file_dev.c` 71). If the copy faults and the buffer is written meanwhile,
  the data ends up in a buffer that counts as clean, against `fs/buffer.c`
  241-242. `cache_is_store` therefore has writers whose source is present;
  `cache_structure` has the others.
* **A raw write that is lost.** `block_write()` of a whole block leaves
  `b_uptodate` clear (`fs/block_dev.c` 28), and the next `bread()` reads the old
  contents over it. BufferCache has the operation (`raw_write`); no run calls it,
  because `BlockStoreSpec` would fail.
* **Nothing is read ahead.** `breada()` passes `bh` instead of `tmp` to
  `ll_rw_block(READA, ...)` (`fs/buffer.c` 336, comment at 317-321).
* **Reads do not always go first.** A read that arrives behind two ordered writes
  is appended to them, although `kernel/blk_drv/blk.h` 36 says "reads always go
  before writes".
* **One error is enough in the last block.** `block+2 > nr_sects`
  (`kernel/blk_drv/hd.c` 304) is tested again on a retry, when `sector` may
  already be at the second half of the partition's last block, although line 33
  has a maximum of errors per sector. `GivenUpAfterMaxErrors` names the exception.
* **A floppy transfer without a request.** When a request is given up and the
  queue is empty, `bad_flp_intr()` tests `errors` of request NULL and the driver
  recalibrates. A request that arrives then starts the driver a second time: two
  timers run, and the later one may start a transfer with `CURRENT` NULL, where
  `floppy.c` 304-308 says that everything has been set up correctly. Also, a
  request behind the end of the diskette leaves `current_drive` changed (434), and
  resets and failed recalibrations count no error (346), so a dead drive is tried
  for ever; `MaxFaults` bounds them.
* **Inodes.** `free_inode()` clears a locked entry (`fs/bitmap.c` 133), `namei()`
  uses a number after a sleep (`fs/namei.c` 323), and two `unlink()`s of one name
  may lower `i_nlinks` below zero (713).
* **Memory.** `un_wp_page()` enters the copy of a modified page as clean
  (`mm/memory.c` 235); a page made writable by `verify_area()` may be shared before
  the kernel stores to it (`kernel/fork.c` 34); `do_execve()` has its new
  executable and its old pages while it closes files (`fs/exec.c` 321-326). A task
  that runs out of memory while `copy_strings()` reads its arguments exits inside
  `do_execve()`, whose lines 347-351 are to give back the argument pages and the
  executable's inode: both are lost. `ArgPagesCounted` counts the pages.
* **Pipes.** The pointers move before the copy (`fs/pipe.c` 32, 61): with a page
  fault in the copy the order of bytes is lost. `FirstInFirstOut` is stated for
  copies that do not sleep; the counts and wake-ups hold in both cases.
* **Terminals.** `console.c` 18-23 relies on interrupts being off in the keyboard
  interrupt "as we use trap-gates", which leave them on, and the handler has sent
  EOI. A key that interrupts the handler of another between its `GETCH` and `PUTCH`
  comes out first; one that hits `con_write()`, of a process or of the handler, makes
  it take characters that are not there. An echo may overflow
  the write queue, or hit a process inside `PUTCH`. A reader of half a line spins
  in `tty_read()` (256-259) and lets nobody run; an erase may turn a queue that is
  nearly full, from which it may read, into such a half line.
* **Processes.** `find_empty_process()` does not look at groups and sessions, so a
  new process may get the number of a session whose leader is gone.
  `waitpid(-1)` takes the zombie that is last in the table, so earlier ones may
  wait for ever: `OrphansCollected` speaks of the last. Init repeats a `fork()` that
  fails without ever waiting (`init/main.c` 190-193): when its zombies
  fill the table, they stay.

## What is proved

The proofs are in modules of their own, one per component. All theorems are for every value
of the constants that the module's `ASSUME` admits; the assumptions are listed
at the end.

**Wait queues** (`WaitQueueProofs`).

* `TypeCorrect`, `NoZombieQueued`, `NoSleeperLost`: `TypeOK`, `DeadNotAsleep` and
  `NoLostSleeper` hold always, the last for each queue that is entered with interrupts
  off, and for an open one until a `wake_up()` meets a task that is entering it. `NoLostSleeper` says that each set of tasks which
  contains the queue's head and its sleepers in flight, and is closed under `tmp`,
  contains all sleepers. Stated with closed sets, "reachable through `tmp`" needs
  no recursion, which is what makes it provable. It is inductive together with
  `TypeOK` and `DeadNotAsleep`; the latter is needed because `wake_up()` on a
  freed structure would do nothing, so a dead task at the head would cut off those
  behind it. The steps: `Frame` for actions that leave a queue alone, or only set
  more of its sleepers running; `WakeUpReached`, where the head moves into flight;
  `SleepOnReached`, where the new head's `tmp` is the old one, also when it is still
  entering; and
  `SleepOnReturnReached`, where a sleeper leaves and its `tmp` is in flight.
* `ImplementsWaitSet`: `Spec => WaitSetSpec`, for the queues that are entered with
  interrupts off, whatever is lost on others. The abstract `woken` is the set of
  sleepers reached from those in flight. `WokenFrame` and `SleepOnReturnWoken`
  show that a woken sleeper stays woken until it returns; `NoLostSleeper` gives
  that `wake_up()` makes all sleepers woken.

**Request queue** (`RequestQueueProofs`).

* `ElevatorKeepsOrder`: `ElevatorOrder` holds always. The invariant `QueueInv`
  adds `OneRequestPerBlock`, without which `IN_ORDER` would not decide between two
  requests. The core is `InsertSweeps`: a list with at most one break, into which
  a request is inserted where `StopAt()` says, has at most one break again. When
  `add_request()` runs off the end of a list with a break, the last request is in
  order with the new one (`EndOfSecondSweep`). That walks along the list, and is
  proved by taking the least counterexample.

**Buffer cache** (`BufferCacheProofs`), with disk errors, faulting writers and raw
writes included.

* `HeadsStayConsistent`, `BlockHasOneBuffer`, `HeldKeepsBlock`: `HeadsConsistent`,
  `OneBufferPerBlock` and `HeldBufferKeepsBlock` hold always. The invariant
  `CacheInv` says where each process is and with which locals (`Control`, the three
  uses of `ll_rw_block()`); which places a process leaves without giving up the
  processor (`Runs`), so that a second process is never between the search and the
  assignment; that all buffers are on the free list, so a search that fails means
  the block is not there (`FreeListFull`); and who owns each lock (`LocksOwned`,
  the form of `LockHasOneOwner` without counting). Most actions are a `ProcStep`,
  the step of one process that changes only its own references (`ProcStepKeeps`,
  and `CountStep` for the count); `Take`, `LLNoSlot`, `Submit` and `DiskInterrupt`
  have their own proofs. Sleepers that are lost are no exception: counts and owners
  of locks stay right.
* `ImplementsRequestQueue`: `Spec => RequestQueueSpec`. The proof composes: the
  invariant of the queue, `RequestQueueProofs!QueueInv`, is a conjunct of
  `CacheInv` through an `INSTANCE` of that module with the cache's table as its
  request table, and its step lemmas are cited for `Submit` and `DiskInterrupt`.
  What the cache has to show is that a block it queues is not pending, which
  follows from one buffer per block and one owner per lock.

**Contents of the cache** (second part of `BufferCacheProofs`), under the hypothesis `Healthy`: the
disk does not fail, no write sleeps in its copy and none skips the read.
`BlockStoreSpec` needs all three (see Disagreements for the last two); read, write,
read-ahead and `sync` remain, by any number of processes.

* `CleanStaysOnDisk`: `CleanIsOnDisk` holds always. The invariant `ContentsInv`,
  on top of `CacheInv`, says where the last contents of a block are: on the disk, or
  in the block's buffer if that is dirty or its write is queued (`DiskIsLast`); an
  up-to-date buffer has them (`BufferIsLast`); and what the drive was given of the
  write under way is what the buffer still holds, unless it is dirty again
  (`DriveHasIt`), for a write may hit a buffer while it is transferred. `ReadOnce`
  is why no read overwrites a write: only a buffer that is not up to date is read,
  and only one that is gets dirty. `Reliable` says what a process counts on when it
  comes back: that the buffer it waits for is there or on its way.
* `ImplementsBlockStore`: `Spec => BlockStoreSpec`. Most steps are quiet
  (`QuietKeeps`); `Begin`, `CopyIn`, `CopyOut` and `Brelse` are the four actions of
  BlockStore.

**Hard disk driver** (`HdDriverProofs`).

* `DriverInStep` and `GivenUpLate`: `InStep` and `GivenUpAfterMaxErrors` hold
  always. The invariant `DriverInv` adds what the drive may be doing, how far the
  current request has come (`Progress`: what was transferred of it so far is equal on
  both sides), that a command is outstanding only inside the partition, and that a
  request restarts in its second sector only after an error. `LocateInverse` is
  the arithmetic: cylinder, head and sector of the two divisions name the block.
* `WritesInside` and `OkIsTransferred`: the action properties `WritesStayInside`
  and `OkMeansTransferred`, from the same invariant.

**Processes** (`ProcessProofs`).

* `FamilyStaysRight`: `FamilyRight` holds always. `FamilyInv` has the slot of the
  father instead of a search for its number (`Related`), that numbers are distinct
  and that init never exits, because no signal but `SIGCHLD` reaches it. That
  `find_empty_process()` ends with a number nobody has needs a free number: there
  are more numbers than tasks, by counting.
* `SleeperIsTold`: `WaiterIsTold` holds always.

**Memory** (`MemoryProofs`), for any number of tasks, pages, addresses and page
tables.

* `PagesStayCounted`: `PagesCounted` holds always: no page is lost but the
  arguments of the tasks that ran out of memory in `execve()`, and of these exactly as
  many as there were such tasks. `MemMapCounts` compares `mem_map`
  with the size of a set of pairs of task and address, so each step needs counting:
  `RowChanges` (only one task's row of the set changes) and `OneChanges` (one
  member), from which `TaskChanges`, `EntryChanges` and `KernelChanges` follow.
  The counts are not inductive alone. The invariant `MemInv` adds `TaskRight`, what
  a task holds by where it is: a page in a local variable exactly while it loads a
  page or starts a program, nothing at all once it has exited. Without it
  `do_exit()` could free a page twice, or `fork()` overwrite a row.
* `WritableStaysPrivate`: `WritableIsPrivate` holds always. In `MemInv` it reads
  `StoresAlone`: the count of a writable page, or of a page being filled, is 1. From
  the exact counts the lemma `SoleUser` gets that it has one user.
* `SharingStaysInvisible`: `SharingInvisible` holds always; like the property, it
  speaks of the combinations of calls that `Separate` admits. `MemoryRight` adds to
  `CleanIsFile` and `MemoryIsPrivate` what keeps them so: a protected page of an
  executable is clean, which is why `un_wp_page()` may enter its copy as clean, and
  a task with an executable never forks. `OtherTask` shows once that a step keeps
  what a task finds as long as its pages are not stored to; `SoleUser` gives that for
  stores and `Remembered` for pages that are freed.

**Pipe** (`PipeProofs`), for any number of processes that share the two ends and
any size of the ring.

* `EndsStayConsistent`: `EndsConsistent` holds always, with copies that sleep and
  with copies that do not. The invariant `Inv` adds what a process has by where it
  is (`ProcRight`): nothing once it has exited, both ends alone while `sys_pipe()`
  waits for an inode. `SleepersWait` is the conjunct that takes the work. A sleeper
  is there only while both ends are open and it has nothing to move, or while
  somebody else is inside a call, who wakes it before he leaves: `BlockInv` for the
  one that goes to sleep, `MoveInv` and `LeaveInv` for those that move bytes and
  return, `CloseInv` for an end that goes away. `OwnersChange` and `EndsCounted` do
  the counting of descriptors and ends.
* `PipeIsQueue`: `FirstInFirstOut` holds always. `RingRight` says which byte is at
  which place of the ring, counted from `PIPE_TAIL`; what was read is 1, 2, 3, ...;
  the arithmetic is that of `PIPE_SIZE` and `& (PAGE_SIZE-1)`, for every size of
  the page, and of chunks that end at its end.

**Inodes** (`InodeCacheProofs`), for any number of processes, entries and inode
numbers.

* `TableStaysConsistent`: `TableConsistent` holds always, even after the two ways
  out (`torn`, `stale`). `CountIsReferences` adds the sizes of three sets of
  processes; `TotalChanges` is the count when one process moves. It needs
  `ProcRight`: which entry a process has by where it is, and that the empty entry
  `iget()` has in hand stays empty while it sleeps on the one it has found.
* `OneEntryPerInode`: `OneInodePerNumber` holds always. `iget()` may assign after a
  search that found nothing because no process runs between the search and the
  assignment; `NumsRight` adds that inodes in the table are used ones, without
  which `new_inode()` could bring in a number that is there already.
* `LocksStaySound`: `LocksSound` holds always. `LocksRight` names the owner of a
  lock instead of counting owners. Of a sleeper's owner it says that he is not
  asleep on an inode himself, unless he is in `under`. That an entry is alone with its reader is part
  of it, for else a second process could change what is being read.
* `NoChangeIsLost`: `ChangesKept` holds always. It leans on all of the others: on
  the counts, because an entry may be taken only when nobody has it; on
  `EntryRight`, because then it is clean; on the locks, because `write_inode()`
  clears `i_dirt` at its end whatever happened since its start.

**Assumptions.** Each is an `ASSUME` that TLC evaluates in every run of the module.
Wait queues: the two kinds of queues are disjoint and `NULL` is no task and no
queue. Tables and numbers of buffers, slots, sectors, errors and tasks are
natural numbers, and not zero; blocks are numbers; there is at least one device;
there are finitely many processes; `NULL` is no task, process or value; process
numbers are at least as many as tasks; a pipe's page has more than one byte. Memory: there are finitely many addresses,
the stack is not part of the executable, and a scenario starts in a state the
kernel can be in: what its tasks use, three pages each, and what is in use elsewhere
fit into memory (the arguments of task `p` are in page `p`).

**Model-checked only.** Liveness, which is out of the prover's reach:
`WokenReturns`, `EveryRequestServed`, `EverySleeperWoken`, `CurrentEnds`,
`OrphansCollected`, `ClosedEndReturns`, and the corresponding properties of Tty and
Floppy. The safety of Tty and Floppy (`InputConsistent`, `OutputInOrder`,
`DriverReady`, `OkMeansTransferred` of Floppy): there one step of a handler goes
through a whole list (`CopyToCooked` until the read queue is empty; `DoFdRequest`,
`AddTimer` and `DoTimer` are recursive functions over the queue and the timers), and
what such a definition computes for every list takes an induction that the provers
cannot be given.

## What is not modelled

The other source trees of the repository are third-party releases, teaching
drivers, user interfaces and documentation; they share no code with the kernel,
and `PROJECT.json` lists them one by one. Their size is the reason that the mapped
lines are a small share of the whole tree.

Of the kernel: the cache has one device and no `bread_page`, `invalidate_buffers`
or disk change; the insertion into an empty hash chain, which writes through a
null pointer (`fs/buffer.c` 163), is memory layout. The copy out of a buffer is one
step, although `put_fs_byte()` may fault in its middle (`fs/file_dev.c` 36-37) and a
writer change the rest; and so is the search of the request table. The disk driver has one drive. Memory leaves
out the kernel's own pages, `calc_mem` and limits of text and data. InodeCache has
no mounts and no `_bmap`. Pipe has no `dup`. Process has no users, alarms or
handler frames. Tty has no `tty_ioctl`, no `VTIME`, no translation of characters.
Floppy has no DMA, geometry or nested interrupts. The choice of a task by its
counter is an assumption of fairness. Boot, console escape sequences, printing and
the build tool run without concurrency or are pure I/O. The ram disk copies memory
in one go.

## Plan

1. Tty with the serial handler on the stack of activations as the console's is, so
   that no recursion is left and `InputConsistent` and `OutputInOrder` can be proved;
   Floppy with one step for each entry of its lists, for `DriverReady`.
2. **SuperBlock** and **Bitmap**: mount and unmount against `get_super`, which may
   find an entry that `read_super()` has named but not yet locked (`fs/super.c`
   117); allocation of blocks against truncation.
3. **Malloc** (`lib/malloc.c`): buckets of equal blocks in a page, with interrupts
   off in parts only.
