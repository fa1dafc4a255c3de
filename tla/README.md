# TLA+ specification of the zinix kernel

zinix is a RISC-V kernel in Rust (`src/kernel`) that runs musl programs on one
hart. This directory holds its formal specification: TLA+ modules translated
from the source, TLC configurations that check them on small instances, and
TLAPS proofs about eight of them. `PROJECT.json` is the index: components, runs,
a faulty variant of the code for every property, the source lines of every
definition, hazards, findings and theorems. File names below are relative to
`src/kernel/src`; those that start with `fatfs/` are relative to
`src/deps/rust-fatfs/src`.

## 1. The system and its parts

| part | source | state it keeps | module |
|---|---|---|---|
| tasks, lists, scheduler, timer | `task/mod.rs`, `task/task.rs`, `trap/timer.rs` | `running_list`, `sleep_list`, `exit_list`, `RUNNING`, a status per task, `tic_counter` | `Scheduler` |
| traps, returns, context switch | `trap/trap_asm.s`, `trap/mod.rs`, `task/switch_context.s`, `task/task.rs` | CSRs, trap frames, a context per task | `Dispatch` |
| process system calls | `syscall/sys_proc.rs`, `syscall/mod.rs` | parents, tids, exit codes | `Process` |
| pipes | `fs/pipe.rs` | ring buffer, writer count, two wait lists | `PipeRingBuffer`, `Pipe` |
| descriptors and open files | `syscall/sys_fs.rs`, `fs/dfile.rs` | a table of `DFile`s per task | `FdTable` |
| files | `fs/dfile.rs`, `fs/inode.rs`, `fs/fat.rs`, `fatfs/file.rs`, `fatfs/table.rs`, `fatfs/dir_entry.rs`, `fatfs/fs.rs` | positions, one cursor per inode, cluster chains, directory entries, blocks | `FatFile` |
| inode cache | `fs/inode.rs` | tree of inodes with weak children | `InodeCache` |
| page frames | `mm/buddy.rs`, `mm/bitmap.rs` | free lists, bitmaps, counters | `Buddy` |
| page descriptors, DMA buffers | `mm/page.rs`, `mm/mod.rs`, `task/stack.rs`, `io/virtio.rs` | one descriptor per frame, reference counts, `DMA_FMS` | `Pages` |
| address spaces | `mm/mm.rs`, `mm/vma.rs` | tree of mappings, `brk`, a tree of pages per mapping | `Mm`, `VmaSearch`, `FilePage` |
| copy on write (a feature) | `mm/mm.rs`, `mm/vma.rs`, `trap/mod.rs` | reserved pages | `Cow` |
| page tables | `mm/pagetable.rs` | three-level trees, the pages of each | `PageTable` |
| kernel mappings, `satp` | `mm/kmap.rs`, `task/task.rs` | the token, the installed table, the interrupt flag | `Kmap` |
| spin locks | `sync/mod.rs` | lock flag, saved interrupt flag | inside `Dispatch`, `FdTable`, `Kmap`, `Pipe` |
| drivers, console, firmware, start-up | `io/virtio.rs` (registers), `io/sdcard.rs`, `console.rs`, `sbi.rs`, `main.rs` | device registers | not modelled |

How they interact decides what a step is. There is one hart. System calls,
page faults and the timer handler run with interrupts off from the trap to the
return, so they are interleaved only where they call `scheduler()`. Kernel
tasks (the boot task, and the reader and writer of `test.rs`) run with
interrupts on outside of `lock_irq` guards, so the timer may come between any
two of their statements. `Dispatch` goes below this: there a step is an entry with
its handler, or one CSR write of a return sequence, and the timer comes wherever
`sstatus.SIE` is set. The build is the default one: debug assertions and
overflow checks are on (each is a step that stops the system, recorded in a
variable `stopped` or `panic`), and the feature `copy_on_write` is off except
in `Cow`.

## 2. Modules

One module per component, and theorems in a `*Proofs` module of their own. `MC*`
modules only supply constants; `MCBytes`, `MCMemory` and `MCTrees` also join
specifications that share no state, so that a behaviour is one of any of them. Definitions keep
the names of the functions they translate. Definitions under a comment "Faulty
variant" are the code with a plausible mistake; no specification uses them.
They show that each property can be broken.

**PipeRingBuffer**, **PipeFifo**. `arr`, `head`, `tail` and `status` are the
fields of the struct. `read` and `write` compute a number of bytes and
`read_byte`, `write_byte` move one byte per step. `PipeFifo` is the promise, a
bounded queue with atomic calls; the mapping gives the queue the whole effect
of a call when it begins.

**Scheduler**. The variable `list` holds the three static lists and the wait
lists of pipes. `scheduler(lists, statuses, assign)` is the function of that
name with its four outcomes. The client is the most general one: at any moment
the current task may create, sleep, exit, wake or be interrupted.
`mark_sleeping` and `call_scheduler` are the two statements of a sleep in a
task with interrupts on.

**Process** extends it with `clone`, `execve`, `exit`, `wait4` and `ppoll`; `pc`
says where in a call a task will resume. **Pipe** extends it with
`inc_write`, `read_exact`, `write_exact`, the wake-up functions and the release of the
writer, one step per critical section or statement; `Counter` are the readers that
count a write end themselves, as the one of `test.rs` does. The history `split` tells
whether some call has moved its bytes in two pieces. Both are proved to refine
`SchedSpec`, so what is proved of `Scheduler` holds of them.

**Dispatch** extends `Scheduler` downwards. `mode`, `pc`, `sp`, `sscratch`,
`sstatus` and `sepc` are the registers that decide where the hart goes; `frames`
has the trap frames of every stack and `ctx` the `Context` of every task.
`trap_frame`, `trap_stack` and `trap_ret_label` are `trap_entry`, with its choice
of the stack by `sscratch`; `handler_ends` is what is left of a handler after
`scheduler()`, with `switch_context` if another task was chosen. The two return
sequences are four steps: `sstatus`, `sscratch`, `sepc`, and the general registers
with `sret` (an interrupt inside the last one has the outcomes of one just before
it). `entry_frame`, `kern_frame`, `child_frame` and `exec_frame` are the frames
written by hand in `create_user_task`, `create_kern_task`, fork and `execve`, and the
`*_context`s go with them. The plain `lock()` of `running_list` in `add_task` is
there too: the boot task takes it with interrupts on.

**FdTable**. `opened[t][fd]` is a file: a terminal, or one end of a pipe. Every
call that makes, copies or drops a descriptor is an action, with the drops
(`DFile::drop`, and through it the writer count) that follow from it. `openat` looks
its path up under the lock of the file its `dirfd` names, so it too can meet a lock that
a sleeper holds. `dup3` and `fcntl` take numbers out of range; a `pipe` that fails has
written its array all the same. Pipe transfers are one byte; what matters here are the
locks held meanwhile.

**FatFile**, **Files**. An open file (`dfile`) has a position; the inode below has one
fatfs `File` with one cursor (`offset`, `cur`) for all open files, so every call
begins with `seek`. `read_off` is one step. A write is several: the new
cluster's entry, the link from the chain's end with the hint and the first cluster,
and the data block by block (`write_block`: read, change, write back). Dropping the
last open file writes the directory entry field by field: the upper half of the first
cluster, the lower half, the size. `power_loss` may come between any two of them; one
block is written whole or not at all. `BlkStorage_read` splits a byte range into
blocks, as a recursive function of the position. `Files` is the promise: files are sequences of bytes, writes show at
once, the length on the disk catches up when the file is closed, and a power loss
leaves that length. `torn` are the files whose entry a power loss caught between the
two halves (section 5), and `spread` says that somebody has since written to one: from
then on nothing is promised of the volume. Left out: mirrors of the table, the count of
free clusters, the dirty flag, FAT12 and FAT16.

**Buddy**, **PageFrames**. `areas`, `bitmap` and `free_cnt` of each order, with
`alloc_area` and `free_area` including the splits and combinations they cause.
`PageFrames` is the promise: a set of free pages. **Pages** extends `Buddy` with
the descriptors `alloc_pages` makes: `page` is `PagesManager.pages` after
upgrading, `arcs` the strong counts, `unclean` the frames with an earlier owner's
data, `dma` the list of the disk driver. The drop of the last `Arc` is one step
with the `free_area` and the drops of the friends it causes: the only blocks of
several pages that die are kernel stacks of `execve`'s temporary tasks, inside a
system call. Every caller unwraps `alloc_pages`, so a refusal stops the kernel; so
does the assertion in the release of a DMA buffer of a size that is no power of two.

**VmaSearch**, **Mm**. The first has the searches for free ranges, shared with
`Kmap`. `Mm` has `mmap`, at any address, `brk`, page faults and fork's copy, with the
panics of the debug assertions on unaligned arguments;
`kernel_access` is a system call that touches a buffer of the program, where a fault
is looked up in the kernel's mappings and panics. The history `clobbered` has the
address spaces in which `mmap` was given an address inside another mapping. A frame is named by
the mapping whose tree holds it, and contains "zero", "file" or "stored".
**FilePage** looks into one mapping byte by byte: which file bytes
`_do_alloc_one_page` puts where. **Cow** is fork and the fault handler of the
`copy_on_write` build, for one mapping, a parent and its children. It has the faults
taken in user mode; the branch for faults in kernel mode (`trap/mod.rs:347-373`) treats
them as the default build does, which is in `Mm`.

**PageTable**, **AddressSpaces**. Tables live in frames taken from a pool whose
free frames hold anything. The kernel's root entries are copied into a user
root when it is made. `AddressSpaces` is the promise: partial maps from pages to
frames with permissions. The build is the default one: the root of the k210
(`mm/pagetable.rs:79-84`) is left out, and `drop_table` asks that the mappings were
dropped before their table, which the `copy_on_write` build does not keep to
(`mm/mm.rs:130-142`).

**Kmap**. `satp`, the interrupt flag and the token, with everything that
installs a page table: the loader, `execve`, fork, exit and the scheduler. `execve`
of a path without a file panics (`no_such_file`), and so does the loader of a file that
is not an ELF file (`not_an_elf`).

**InodeCache**. Inodes with strong parents and weak children, lookup of a path from the
root or from an open directory with removal of dead children, creation on demand, `..`
(which goes by the directory entry and makes an inode of its own), and the drops when
a holder goes.

## 3. Runs

| run | instance | shows |
|---|---|---|
| `process` | boot task and three tids, exit codes 0 and 1, `TIC_MAX` 1 | no task lost, duplicated or revived; statuses and lists agree; idle unreachable; every runnable process runs; refines `Scheduler` |
| `process_wait` | boot task and two tids | a violation: `wait4` never returns the exit code of the only child |
| `dispatch` | boot task, a kernel task, two programs, `TIC_MAX` 1 | frames, contexts and stacks of different tasks never mix; a task that has begun to run always resumes where it was; refines `Scheduler` |
| `dead_lock` | the same | a violation: the panic `Dead Lock!` of `try_lock` is reached |
| `pipe` | one reader (3 reads of 3 bytes) that counts a write end, two writers (2 writes of 2 bytes each), capacity 4, the timer between all statements | until a call moves its bytes in two pieces each writer's bytes come out in order and once, and no assertion fails; an emptied wait list needs a second waker; short reads only at the end; refines `Scheduler` |
| `pipe_read_assert` | a read of 3 bytes against writes of 2 | a violation: `read_exact`'s assertion fails |
| `pipe_lost_wakeup` | the reader and the writer of `test.rs`, 3 bytes to read and 2 to write (20 and 19 there) | a violation: the reader sleeps on after the last writer has gone |
| `fd` | two tasks, three descriptors each and one number too many, one pipe of one byte | writer count = open write ends; failures leave nothing behind; one sleeper per locked file |
| `bytes` | a ring of 3 bytes, calls of 0 to 4; pages of 3, a mapped file of 7 bytes, segments up to 12 bytes, `mmap` at offsets 0, 3 and 9; a volume of three clusters of two sectors of two bytes, two files, two open files, two writes, one power loss | the ring's loops stay in bounds over every wrap and refine `PipeFifo`; a page fault puts every byte in its place; `FatFile` refines `Files`, its cursor is always in place, and a power loss leaves every directory entry with a sound chain, but for one caught between the halves of its first cluster |
| `memory` | 7 pages, 3 orders, two `Arc`s per block, DMA requests of 2 and 3 pages; a parent, two children, two pages, two values; three programs, five address spaces, two program files and another file | blocks partition the pages; bits and counters right; descriptors, counts and contents match the blocks handed out; `Pages` refines `Buddy`, which refines `PageFrames`; children's writes private, faults resolved, first write copies the snapshot; token keeps the kernel's table and interrupts off; programs run on their own space; the installed table is alive; a token shows its own file |
| `mm` | two processes, pages of 2 bytes, mappings of 0, 2, 3 and 4 bytes, four breaks, four hints | until a hint lies inside a mapping: mappings disjoint, page table = page trees, heap ends at `brk`, reads never change and pages never go away, no panic but for unaligned arguments and bad accesses |
| `trees` | root, a directory, two files, two holders, eight inodes; two user tables, the kernel's, eight table frames | lookups end at the asked path; no second inode of a name before one died; tables private; kernel halves never wrong; only memory runs out; refines `AddressSpaces` |

**Bounds.** Each is the smallest at which the interesting case happens. Capacity
3 and buffers of 4 make both indices wrap inside one call and let calls be cut
short. Seven pages are not a power of two, so the last block of each order has
no buddy; a DMA request of 3 pages gets a block of 4. Only one block of the largest
order fits, so two of them are never free side by side and the test that keeps them
from being combined (`mm/buddy.rs:218`) is not put to work; eight pages are beyond the
time of a run. Three tids besides boot
give a parent, a child and a bystander; `execve` uses one up. Two children let one child fork before and one after the
parent's write. Eight table frames are enough for two tables with all levels,
and few enough that memory runs out and that freed tables are used again. A
dead child in the list before a live one is what the removal in the inode list can get
wrong. Two tasks of a kind, one of another and the boot task are
enough for `Dispatch` to fork, `execve`, sleep and preempt around a first return.
In the volume, one file has a chain of two clusters in descending order whose second
is not covered by the size, as a power loss leaves it, and the other has none; the
third cluster is free and the hint points at a used one, so that the search wraps;
lengths of 3 and 4 against sectors of 2 and clusters of 4 give blocks that are
partly changed, calls cut short at a cluster's end, and files that grow by a cluster;
a largest size of 5 is met. The lower half of a cluster number is one bit, so that the
number 3 of the free cluster has something in both halves. In `pipe` the reads are of 3
bytes, the writes of 2 and the capacity is 4, so that calls are moved whole and in pieces,
the buffer is full and is empty with a call halfway, and two writers wake one reader. In `mm` an address space whose mappings were
not overlaid never gives a frame back: there is no `munmap` and the break does not shrink. `TIC_MAX`, `PAGE_SIZE`, table sizes and
`MAX_OPENED` are parameters that only occur in comparisons. `CNT_MOD` stands
for 256, as the writer count is a `u8`. `MAX_TID`, `READS`, `WRITES`, `PIPES`,
`MAX_LEN`, `MAX_LISTED`, `MAX_ARCS`, `MAX_DMA`, `MAX_WRITES` and `MAX_RESTARTS` bound what is otherwise unlimited.

**Environment assumptions.** `Mm` lets programs ask for any address, and what it
states of an address space ends when one lies inside a mapping: the code does not check
that (section 5). `Pipe` takes any lengths; what it states of the bytes ends with the
first call that moves them in two pieces (the reader of `test.rs` asks for 20 bytes,
its writer writes 19 and the capacity is 1024, so there none does). `InodeCache` takes
a volume whose directories do not change. `Pipe` takes `scheduler()` and `add_task` as
one step each although a kernel task runs them with interrupts on; `Dispatch` shows what
an interrupt inside `add_task` does. `FatFile` takes one inode per file; when there are
two, see section 5. The kernel may use the pages of the program: `Task::init` sets
`sstatus.SUM` in the qemu build (`task/task.rs:194`). The disk holds what was written to
it last, and writes a block whole or not at all.

**Invariants.** Most modules have one invariant that is the conjunction of its
type invariant and of named structural parts (`SchedInv`, `BuddyInv`, `KmapInv`
and so on): what every operation preserves, and what a proof by induction starts
from. The properties a client relies on stand by themselves. `RingInv`, `SchedInv`
and `CowInv` are the very invariants the proofs of section 4 show inductive.

**Deadlock** is checked in every run. A step that leaves everything as it is
stands for the machine after a panic, and for the boot task's endless loop.

**Fairness.** `process` checks liveness, and `process_wait` and `pipe_lost_wakeup` refute
it. In `ProcFairSpec` the timer interrupt is strongly
fair: it stays pending during a system call and is taken on the return to user
code, so a task that keeps calling the kernel is interrupted all the same.
Kernel code with interrupts off is weakly fair: the hart goes on executing.
Nothing is assumed of programs: none has to exit, to be scheduled, or to make
a call. In `PipeFairSpec` the timer is weakly fair, as it ticks for ever, and the statements of a
task and the creation of the tasks are strongly fair: a task that is given the processor
again and again gets on, since a slice is far longer than a statement.

## 4. Proofs

`tlapm` checks every proof; nothing is assumed but the named assumptions on the
constants.

**PipeRingBufferProofs** is about every capacity (`SizeAssumption`: at least 1),
every set of bytes and every buffer length. The inductive invariant is
`RingInv`, the conjunction of `RingTypeOK`, `StatusResolvesAmbiguity` and
`LoopStaysInBounds`. None of the three is inductive alone: the step of `head`
needs to know that a byte is there, which the loop's bound says, and the bound
is in terms of `available_read`, which reads the status. Lemma `WrapNext` turns
the modulus into a case distinction; `AvailableAddsUp` shows that the code's
subtractions do not go below zero. One lemma per action follows.

**SchedulerProofs** is about every set of tasks, every set of wait lists and
every `TIC_MAX`. The inductive invariant `SchedInv` adds three facts to the
checked ones: the boot task is always runnable and on `running_list`, whatever
is on a list was created, and zombies are exactly on `exit_list`. The first is
why idle is never reached. The lemmas split in two layers: what requeueing,
moving and reversing do to positions and members of lists (`Requeued*`,
`Moved*`, `Concat*`, `Reversed*`), and one lemma per action on top of them.
Theorems: `SchedulerRunsTheFront`, `SchedulerKeepsListsApart`,
`SchedulerLosesNobody`, `SchedulerNeverIdles`, the types, and the action
property `SchedulerBuriesZombies`.

**ProcessProofs**, **DispatchProofs**, **PipeProofs** first show that every step of these
modules is a step of `Scheduler` or none (`ProcessImplementsScheduler`,
`DispatchImplementsScheduler`, `PipeImplementsScheduler`): one case per action, which
names the scheduler action it contains. With `SchedulerInvariant` the lists are then
right in every state of all three, for every number of tasks.

`ProcessInvariant` and `ExitCodesAreLost` rest on `ProcIInv`, which is `SchedInv`,
`ProcInv` and `ExitCodeNeverReported` together. That `wait4` only reports 0 needs that
what is on `sleep_list` is asleep (`StatusMatchesList`), that only the dead have a code
(`CodesAreOfTheDead`), and, for the steps of `scheduler()`, that a task is on one list.

`ShortReadIsTheEnd` assumes `WritersFit`, that there are fewer writers than the `u8` can
count, and `CountedFirst`, that a reader which counts a write end itself is the only
reader: another one could look at the count before. Its invariant `EndInv` adds to the property that the count is the number of writers
that have not released their end (less the one still to be counted), and on which places in the code readers and writers can
be: a count of zero is final, as every writer is then past its last write.

**CowProofs**: `CowInv` is inductive as it stands; it ties each entry of a page table to
the frame it names, and says where what the parent held at a fork is kept until the
youngest child has copied it: in the reserved page, or in a frame the parent cannot write. `CowCopiesTheSnapshot` is an action property on top of it.

**FdTableProofs**: the invariant is `FdInv` with `WriteCntIsLiveWriters`. As a pipe has
one writing `DFile`, the count is 1 or 0, by whether any descriptor of any task refers to
it (`CountMeans`); `SetTablesCounts` says that the drops keep it so.
`FailedCallsLeaveNothing` needs the count as well: a failing `pipe` counts up and down.

**KmapProofs**: the invariant is `KmapInv` with `UserRunsOnItsSpace`. The token's saved
`satp` must be the table to go back to, which is the table of the current task, so neither
holds without the other. `InstalledIsAlive` follows: the installed table is the kernel's,
or that of a space that a task or `sys_execve` still holds. The proof uses nothing of
where the search for addresses puts a file.
`KmapInv` is about the token, the interrupts and the tables, not about what the token
shows.

**Only model-checked**: liveness (`EveryRunnableProcessRuns`; outside the prover's
reach), the registers of `Dispatch` (`DispatchInv`, `StartedTasksResumeInPlace`), what
bytes a reader gets (`ReaderGetsNextBytes`), `LoaderReadsItsFile`, the refinements of
`PipeFifo`, `PageFrames`, `Buddy`, `AddressSpaces` and `Files`, and the properties of
`Buddy`, `Pages`, `Mm`, `PageTable`, `InodeCache`, `FilePage` and `FatFile`. In the last
ones, sums over free lists or recursive functions along a chain or a tree stand in the
way: they need induction over data.

## 5. Divergences met while modelling

Four are runs.

- `pipe_read_assert`: `read_exact` passes the whole buffer to the ring in every
  iteration (`fs/pipe.rs:71`), so a read in two iterations moves more than
  `need_read` and its assertion (`fs/pipe.rs:86`) fails.
- `dead_lock`: `add_task` locks `running_list` with the plain `lock()`
  (`task/mod.rs:59`). The boot task calls it with interrupts on, so a timer interrupt
  that ends the slice makes `scheduler()` spin on the lock until `try_lock` panics
  (`sync/mod.rs:47`).
- `pipe_lost_wakeup`: a timer interrupt between `TaskSleeping` and `scheduler()` parks a
  reader on `sleep_list`, where the pipe does not look for it (`fs/pipe.rs:63`); the
  comment at `fs/pipe.rs:36` says that the last writer has to wake all readers, or they
  can never wake. A task woken by a pipe also keeps the status `TaskSleeping`
  (`fs/pipe.rs:55`), so that its next preemption has the same effect.
- `process_wait`: `wait4` scans `sleep_list` (`task/mod.rs:94`) and an exited task is on
  `exit_list`, so a parent never learns an exit code, which `vfork.c` of `libc-test` (line
  36) tests for. `ExitCodesAreLost` shows it for every number of tasks.

The modules contain the following ones too. Where a definition is named, adding
it to a configuration of the module gives the counterexample.

- `write_exact` has the same flaw: `WriteMovesExactly` with 3 bytes to write into
  2 free places (`fs/pipe.rs:104`).
- Two wakers of one pipe: the length of the wait list is read under one lock and
  the tasks are popped under others, so `unwrap` may find the list empty
  (`fs/pipe.rs:55`; `WakeUpFindsItsTasks`). `PipeInv` says that it takes two.
- `sys_pipe` stores the reading descriptor twice (`syscall/sys_fs.rs:102`;
  `PipeReturnsWriteEnd`).
- `execve` replaces the descriptors by three terminals (`task/task.rs:320`;
  `ExecKeepsDescriptors`), and exit keeps write ends open
  (`task/mod.rs:62`; `ExitReleasesWriteEnds`). `libc-test` (`spawn.c`) expects
  otherwise.
- `read` and `write` on a pipe sleep with locks held (`syscall/sys_fs.rs:352`,
  against the comment at `fs/pipe.rs:74`; `NoDeadLock`). `openat`
  with such a file as its directory spins on the same lock.
- A `pipe` that fails stores the number it had found, or 0, in the caller's array all the
  same (`syscall/sys_fs.rs:101`).
- `mmap` compares a hinted range only with mappings that start at or above the
  hint (`mm/mm.rs:261`), so a hint inside a mapping gives two that overlap (`NoOverlap`
  without `intact`). `mmap` with an unaligned address or length fails a debug assertion
  (`mm/mm.rs:272`).
- `VMA::split` refuses the addresses it is for, so the break never shrinks
  (`mm/vma.rs:296`).
- `mmap` of a file at an offset does not shorten the part to be read
  (`syscall/sys_proc.rs:263`), so a page fault may fail the assertion at
  `mm/vma.rs:440`. `AssertNeedsAnOffset` says this is the only case.
- With copy on write, the parent's first write after a fork makes its frame
  writable again while children that have only read the page still map that
  frame, so they see the parent's later stores (`trap/mod.rs:469`, against the
  comment at `mm/mm.rs:129`). A page first touched after the fork is not reserved
  (`trap/mod.rs:478`), and a second fork drops the reserved pages. Hence
  `FirstWriteCopiesSnapshot` speaks of first writes of the youngest child.
- The context of a new task has `SIE` set (`task/task.rs:305`, `:369`), so the boot
  task's creations can be interrupted in their first return. After `csrw sepc` such an
  interrupt leaves its own address in `sepc`, and the return goes there: a program
  fetches from a kernel address (`wild_fetch` in `Dispatch`), a kernel task also
  loses `SPP`. A child inherits this from a parent that was never switched out
  (`child_context`). `StartedTasksResumeInPlace` therefore speaks of tasks that have
  begun to run; the first return is the only window.
- `create_kern_task` sets `x2` one frame too low (`task/task.rs:309`), so the registers
  behind it are loaded from below the frame. The function takes no argument from them.
- A system call on a buffer that is mapped but was never touched panics: the fault
  happens in kernel mode and is looked up in the kernel's address space
  (`trap/mod.rs:291`; `kernel_access` in `Mm`).
- The length that `fstatat` and `mmap` see is that of the directory entry
  (`fs/dfile.rs:464`, `fill_stat`), which lags behind what was written until the last
  open file is closed; `Files` states it that way (`Stat`, `Sync`).
- `writev` on a plain file asserts that each piece is written whole
  (`syscall/sys_fs.rs:399`); `File::write` stops at the end of a cluster.
- Removing a dead child skips the next one in the list (`fs/inode.rs:124`, `:133`),
  so one file may get two inodes (`OneInodePerName`). `..` looks up a directory entry of that name instead of the parent,
  so a path through it has inodes of its own.
- The two halves of the first cluster are two writes of the disk
  (`fatfs/dir_entry.rs:263`, `:266`): a power loss between them leaves a file that is
  empty but names a cluster of another one, and the first write to it goes there
  (`half_written`, `torn` and `spread` in `FatFile`).
- Releasing a DMA buffer compares the pages of its block with those of the request
  (`io/virtio.rs:93`), which differ for a request that is no power of two (`PagesInv`
  says for no other).
- `execve` of a path that names no file panics (`syscall/sys_proc.rs:95`), and so does
  one of a file that is not an ELF file (`mm/mm.rs:392`, `:394`).

## 6. Not modelled, and why

- The general registers other than `x2`, floating point, firmware calls, console and
  logging: straight-line code without state that anything else reads.
- Device registers and transfers of `io/virtio.rs` and `io/sdcard.rs`: their meaning is
  that of the hardware. The DMA buffers are in `Pages`.
- Directories in fatfs (long and short names, creation, renaming, removal), mounting,
  formatting, truncation and labels: the kernel mounts once, looks names up and never
  makes, truncates or removes a file. A lookup is a function of the directory in
  `InodeCache`. Reading the boot sector happens once and is checked by values only.
- The heap (`linked_list_allocator`), and the trees and lists of the `alloc` crate, which
  are functions, sets and sequences in the modules.
- `sendfile` (always returns -1 and changes nothing), `lseek` (not dispatched),
  `deep_clone`, `DFile::seek`, `read_all`, `write_all` (no caller in a system call).
- Calls that return a constant or a field (`getpid`, `uname`, signals).
- The user stack with the auxiliary vector: straight-line writes to a page that is
  private to the loader at that time.

## 7. What could follow

1. Proofs about `Dispatch`'s registers: `DispatchInv` with the position in each return
   sequence is the start of an inductive invariant.
2. `Buddy` and `Pages`: the free lists as sets, so that the counters need no induction.
3. `writev` and `sendfile` on plain files in `FatFile`, once `sendfile` does something.
