------------------------------- MODULE FdTable -------------------------------
(***************************************************************************)
(* The descriptor tables of the tasks (kernel/src/task/task.rs), the       *)
(* system calls on them (syscall/sys_fs.rs, sys_proc.rs) and the life of   *)
(* the open files (DFile, fs/dfile.rs), seen from the pipes: a pipe counts *)
(* its writers, and a reader of an empty pipe takes a count of zero for    *)
(* the end of the data.                                                    *)
(*                                                                         *)
(* deep_clone has no caller, so a pipe has one DFile for reading and one   *)
(* for writing, shared by every descriptor that was duplicated or          *)
(* inherited.  Files and terminals are one value, Other: nothing here      *)
(* depends on which of them is open.  A DFile lives while a descriptor     *)
(* refers to it.  System calls run with interrupts off; they are atomic up *)
(* to a sleep.                                                             *)
(***************************************************************************)
EXTENDS Integers, FiniteSets, FiniteSetsExt

CONSTANTS
  Task, Init1,       \* user tasks; Init1 exists at the start
  MAX_OPENED,        \* length of a descriptor table
  PIPES,             \* bound on the number of pipes made
  RING_BUFFER_SIZE   \* bytes a pipe holds

ASSUME FdAssumption ==
  /\ Init1 \in Task /\ MAX_OPENED \in Nat /\ MAX_OPENED >= 3
  /\ PIPES \in Nat \ {0} /\ RING_BUFFER_SIZE \in Nat \ {0}

Fd == 0..(MAX_OPENED - 1)
Number == 0..MAX_OPENED   \* what a caller may pass as one: the last is out of range
AT_FDCWD == -100          \* a path that starts at the working directory
Pipe == 1..PIPES
None == [class |-> "none", pipe |-> 0, w |-> FALSE]
Other == [class |-> "other", pipe |-> 0, w |-> TRUE]
read_end(k) == [class |-> "pipe", pipe |-> k, w |-> FALSE]
write_end(k) == [class |-> "pipe", pipe |-> k, w |-> TRUE]
DFile == {None, Other} \cup {read_end(k) : k \in Pipe} \cup {write_end(k) : k \in Pipe}

VARIABLES
  opened,     \* [Task -> [Fd -> DFile]]
  state,      \* [Task -> "new", "running", "sleeping" or "exited"]
  pipes,      \* number of pipes made
  write_cnt,  \* [Pipe -> Nat]
  held,       \* bytes in a pipe's buffer
  wait_write, \* what a sleeping task is writing to, with the lock of that DFile
  call,       \* the call just made: "pipe", "execve" or "other", with its
              \* result, and for pipe the caller and what its array holds
  stopped     \* why the kernel panicked, or "no"

vars == <<opened, state, pipes, write_cnt, held, wait_write, call, stopped>>
fileVars == <<opened, state, pipes, write_cnt>>

stdio == [fd \in Fd |-> IF fd <= 2 THEN Other ELSE None]
empty_table == [fd \in Fd |-> None]
no_call == [fn |-> "other", ret |-> 0, task |-> Init1, out |-> <<>>]

FdInit ==
  /\ opened = [t \in Task |-> IF t = Init1 THEN stdio ELSE empty_table]
  /\ state = [t \in Task |-> IF t = Init1 THEN "running" ELSE "new"]
  /\ pipes = 0 /\ write_cnt = [k \in Pipe |-> 0] /\ held = [k \in Pipe |-> 0]
  /\ wait_write = [t \in Task |-> None]
  /\ call = no_call
  /\ stopped = "no"

can_call(t) == stopped = "no" /\ state[t] = "running"

\* The DFiles some descriptor table refers to.
live(tables) == {tables[t][fd] : t \in Task, fd \in Fd} \ {None}

\* Faulty variant: every descriptor that is closed counts.
dec_write_each_close(cnt, tables, tables_after) ==
  [k \in Pipe |-> IF \E t \in Task, fd \in Fd : /\ tables[t][fd] = write_end(k)
                                                /\ tables_after[t][fd] # write_end(k)
                    THEN cnt[k] - 1 ELSE cnt[k]]

\* DFile::drop of every file whose last descriptor is gone.
dec_write(cnt, tables, tables_after) ==
  [k \in Pipe |-> IF write_end(k) \in live(tables) \ live(tables_after)
                    THEN cnt[k] - 1 ELSE cnt[k]]

\* The new descriptor tables, with the drops that follow.
set_tables(tables) ==
  /\ opened' = tables
  /\ write_cnt' = dec_write(write_cnt, opened, tables)

returns(fn, ret) ==
  /\ call' = [fn |-> fn, ret |-> ret, task |-> Init1, out |-> <<>>]
  /\ UNCHANGED <<held, wait_write, stopped>>

free_from(table, start) == {fd \in Fd : fd >= start /\ table[fd] = None}

\* The lowest free descriptor from start on, or -1.
alloc_opened(table, start) ==
  IF free_from(table, start) = {} THEN -1 ELSE Min(free_from(table, start))

\* Faulty variant: when there is no room for the second end, the first stays.
sys_pipe_keeps_readfd(t) ==
  LET k == pipes + 1
      readfd == alloc_opened(opened[t], 0)
  IN /\ can_call(t) /\ pipes < PIPES /\ readfd # -1
     /\ pipes' = k
     /\ opened' = [opened EXCEPT ![t][readfd] = read_end(k)]
     /\ call' = [fn |-> "pipe", ret |-> -1, task |-> t, out |-> <<>>]
     /\ UNCHANGED <<state, write_cnt, held, wait_write, stopped>>

\* Both ends are made, and counted, before a descriptor is looked for.  What
\* the caller gets in its array is the reading descriptor, twice, also when the
\* call fails.
sys_pipe(t) ==
  LET k == pipes + 1
      readfd == alloc_opened(opened[t], 0)
      with_read == [opened[t] EXCEPT ![readfd] = read_end(k)]
      writefd == alloc_opened(with_read, 0)
      ok == readfd # -1 /\ writefd # -1
  IN /\ can_call(t) /\ pipes < PIPES
     /\ pipes' = k
     /\ opened' = IF ok THEN [opened EXCEPT ![t] = [with_read EXCEPT ![writefd] = write_end(k)]]
                  ELSE opened
     /\ write_cnt' = [write_cnt EXCEPT ![k] = IF ok THEN 1 ELSE 0]
     /\ call' = [fn |-> "pipe", ret |-> IF ok THEN 0 ELSE -1, task |-> t,
                 out |-> IF readfd = -1 THEN <<0, 0>> ELSE <<readfd, readfd>>]
     /\ UNCHANGED <<state, held, wait_write, stopped>>

sys_close(t, fd) ==
  /\ can_call(t)
  /\ set_tables([opened EXCEPT ![t][fd] = None])
  /\ returns("other", IF opened[t][fd] = None THEN -1 ELSE 0)
  /\ UNCHANGED <<state, pipes>>

locked(f) == \E t \in Task : wait_write[t] = f

panic(why) ==
  /\ stopped' = why
  /\ call' = no_call
  /\ UNCHANGED <<fileVars, held, wait_write>>

\* dup and F_DUPFD: the lowest free descriptor from start on.
\* F_DUPFD_CLOEXEC also sets a flag in the DFile, under its lock.
dup_from(t, fd, start, cloexec) ==
  LET new == alloc_opened(opened[t], start)
      ok == opened[t][fd] # None /\ new # -1
  IN /\ can_call(t)
     /\ IF ok /\ cloexec /\ locked(opened[t][fd]) THEN panic("Dead Lock!")
        ELSE /\ opened' = IF ok THEN [opened EXCEPT ![t][new] = opened[t][fd]] ELSE opened
             /\ returns("other", IF ok THEN 0 ELSE -1)
             /\ UNCHANGED <<state, pipes, write_cnt>>

\* F_GETFD and F_SETFD: the flag, which nothing else in the kernel reads.
fcntl_flag(t, fd) ==
  /\ can_call(t)
  /\ IF opened[t][fd] # None /\ locked(opened[t][fd]) THEN panic("Dead Lock!")
     ELSE /\ returns("other", IF opened[t][fd] = None THEN -1 ELSE 0)
          /\ UNCHANGED fileVars

\* set_opened refuses a number that is out of range.
dup3(t, fd, new) ==
  LET ok == opened[t][fd] # None /\ new \in Fd
  IN /\ can_call(t)
     /\ IF ok THEN set_tables([opened EXCEPT ![t][new] = opened[t][fd]])
              ELSE UNCHANGED <<opened, write_cnt>>
     /\ returns("other", IF ok THEN 0 ELSE -1)
     /\ UNCHANGED <<state, pipes>>

\* The path is looked up from an open file, under its lock; only directories
\* find anything.
sys_openat(t, dirfd, found) ==
  LET dir == IF dirfd = AT_FDCWD THEN Other ELSE opened[t][dirfd]
      new == alloc_opened(opened[t], 0)
      ok == dir = Other /\ found /\ new # -1
  IN /\ can_call(t)
     /\ IF dir # None /\ locked(dir) THEN panic("Dead Lock!")
        ELSE /\ opened' = IF ok THEN [opened EXCEPT ![t][new] = Other] ELSE opened
             /\ returns("other", IF ok THEN 0 ELSE -1)
             /\ UNCHANGED <<state, pipes, write_cnt>>

do_fork(t, c) ==
  /\ can_call(t) /\ state[c] = "new"
  /\ opened' = [opened EXCEPT ![c] = opened[t]]
  /\ state' = [state EXCEPT ![c] = "running"]
  /\ returns("other", 0)
  /\ UNCHANGED <<pipes, write_cnt>>

\* The program is loaded into a new task, and the descriptors of that task,
\* three terminals, replace those of the caller.  A path that is not found is
\* a panic.
sys_execve(t, found) ==
  /\ can_call(t)
  /\ IF ~found THEN panic("execve")
     ELSE /\ set_tables([opened EXCEPT ![t] = stdio])
          /\ returns("execve", 0)
          /\ UNCHANGED <<state, pipes>>

\* The task goes to exit_list, and stays there with its descriptors.
exit_self(t) ==
  /\ can_call(t)
  /\ state' = [state EXCEPT ![t] = "exited"]
  /\ returns("other", 0)
  /\ UNCHANGED <<opened, pipes, write_cnt>>

\* One byte moves.
transfers(k, n) ==
  /\ held' = [held EXCEPT ![k] = @ + n]
  /\ call' = no_call
  /\ UNCHANGED <<opened, pipes, write_cnt, wait_write, stopped>>

\* The file is not open for this, or there is nothing left to read.
refused(ret) == returns("other", ret) /\ UNCHANGED fileVars

\* Everyone who waits to write is put back on the running list.
wake_up_write(k) ==
  state' = [t \in Task |-> IF wait_write[t] = write_end(k) THEN "running" ELSE state[t]]

\* read of one byte of a pipe.  The locks of the task and of the DFile are
\* held all the time; the sleep locks the task again and spins for ever,
\* which try_lock reports as a deadlock.
sys_read(t, fd) ==
  LET f == opened[t][fd]
      k == f.pipe
  IN /\ can_call(t) /\ f.class = "pipe"
     /\ \/ ~locked(f) /\ f.w /\ refused(-1)
        \/ ~locked(f) /\ ~f.w /\ held[k] > 0 /\ transfers(k, -1) /\ wake_up_write(k)
        \/ ~locked(f) /\ ~f.w /\ held[k] = 0 /\ write_cnt[k] = 0 /\ refused(0)
        \/ (locked(f) \/ (~f.w /\ held[k] = 0 /\ write_cnt[k] # 0)) /\ panic("Dead Lock!")

\* write of one byte to a pipe: the locks are those of sys_read.
sys_write(t, fd) ==
  LET f == opened[t][fd]
      k == f.pipe
  IN /\ can_call(t) /\ f.class = "pipe"
     /\ \/ ~f.w /\ refused(-1)
        \/ f.w /\ ~locked(f) /\ held[k] < RING_BUFFER_SIZE /\ transfers(k, 1) /\ UNCHANGED state
        \/ f.w /\ (locked(f) \/ held[k] = RING_BUFFER_SIZE) /\ panic("Dead Lock!")

\* Faulty variant: two writers may sleep with the same file.
sys_writev_shared(t, fd) ==
  LET f == opened[t][fd]
  IN /\ can_call(t) /\ f.class = "pipe" /\ f.w /\ held[f.pipe] = RING_BUFFER_SIZE
     /\ wait_write' = [wait_write EXCEPT ![t] = f]
     /\ state' = [state EXCEPT ![t] = "sleeping"]
     /\ call' = no_call
     /\ UNCHANGED <<opened, pipes, write_cnt, held, stopped>>

\* writev of one piece has let go of the task's lock, but sleeps with the
\* lock of the DFile.
sys_writev(t, fd) ==
  LET f == opened[t][fd]
      k == f.pipe
  IN /\ can_call(t) /\ f.class = "pipe"
     /\ \/ ~f.w /\ refused(-1)
        \/ f.w /\ locked(f) /\ panic("Dead Lock!")
        \/ f.w /\ ~locked(f) /\ held[k] < RING_BUFFER_SIZE /\ transfers(k, 1) /\ UNCHANGED state
        \/ /\ f.w /\ ~locked(f) /\ held[k] = RING_BUFFER_SIZE
           /\ wait_write' = [wait_write EXCEPT ![t] = f]
           /\ state' = [state EXCEPT ![t] = "sleeping"]
           /\ call' = no_call
           /\ UNCHANGED <<opened, pipes, write_cnt, held, stopped>>

\* The writer runs again: it writes, or finds the pipe full and sleeps again.
resume_writev(t) ==
  LET k == wait_write[t].pipe
  IN /\ can_call(t) /\ wait_write[t] # None
     /\ IF held[k] < RING_BUFFER_SIZE
          THEN /\ held' = [held EXCEPT ![k] = @ + 1]
               /\ wait_write' = [wait_write EXCEPT ![t] = None]
               /\ call' = no_call
               /\ UNCHANGED <<fileVars, stopped>>
          ELSE /\ state' = [state EXCEPT ![t] = "sleeping"]
               /\ call' = no_call
               /\ UNCHANGED <<opened, pipes, write_cnt, held, wait_write, stopped>>

idle(t) == wait_write[t] = None

\* The kernel has panicked, or no task can run: the boot loop goes on.
shut_down ==
  /\ stopped # "no" \/ \A t \in Task : state[t] # "running"
  /\ UNCHANGED vars

FdNext ==
  \/ \E t \in Task : idle(t) /\
       \/ sys_pipe(t) \/ exit_self(t)
       \/ \E found \in BOOLEAN : \/ \E dirfd \in Fd \cup {AT_FDCWD} : sys_openat(t, dirfd, found)
                                \/ sys_execve(t, found)
       \/ \E c \in Task : do_fork(t, c)
       \/ \E fd \in Fd : \/ sys_close(t, fd) \/ fcntl_flag(t, fd)
                        \/ sys_read(t, fd) \/ sys_write(t, fd) \/ sys_writev(t, fd)
       \/ \E fd \in Fd, new \in Number : \/ \E cloexec \in BOOLEAN : dup_from(t, fd, new, cloexec)
                                         \/ dup3(t, fd, new)
  \/ \E t \in Task : resume_writev(t)
  \/ shut_down

FdSpec == FdInit /\ [][FdNext]_vars

-----------------------------------------------------------------------------
\* The types of the variables.
FdTypeOK ==
  /\ opened \in [Task -> [Fd -> DFile]]
  /\ state \in [Task -> {"new", "running", "sleeping", "exited"}]
  /\ pipes \in 0..PIPES /\ write_cnt \in [Pipe -> Int]
  /\ held \in [Pipe -> 0..RING_BUFFER_SIZE]
  /\ wait_write \in [Task -> DFile]
  /\ stopped \in {"no", "Dead Lock!", "execve"}

\* A pipe's writer count is the number of its writing DFiles that a descriptor
\* still refers to, through any sequence of pipe, dup, close, fork, execve and
\* failed calls: a reader is never told "end of data" while someone can write,
\* and a count that has no writer left behind it never stays above zero.
WriteCntIsLiveWriters ==
  \A k \in Pipe : write_cnt[k] = Cardinality(live(opened) \cap {write_end(k)})

\* A call that fails leaves every descriptor table and every writer count as
\* they were; a pipe call that finds room for one end only gives that back.
FailureLeavesNothing ==
  [][call'.ret = -1 => UNCHANGED <<opened, write_cnt, held>>]_vars

\* One task at a time holds the lock of a pipe's DFile across a sleep.
OneSleeperPerFile ==
  \A t, u \in Task : t # u /\ wait_write[t] # None => wait_write[t] # wait_write[u]

\* No descriptor refers to a pipe that was not made, and a task that does not
\* exist yet has no descriptors for fork to overwrite.
TablesAreBacked ==
  \A t \in Task : /\ \A fd \in Fd : opened[t][fd].pipe <= pipes
                  /\ state[t] = "new" => opened[t] = empty_table

\* The tables have their types and refer to what there is, a pipe holds no more
\* than its capacity, and one task at a time sleeps with a file's lock.
FdInv == FdTypeOK /\ TablesAreBacked /\ OneSleeperPerFile

\* After a successful pipe call the second number in the caller's array is the
\* descriptor to write to.
PipeReturnsWriteEnd ==
  call.fn = "pipe" /\ call.ret = 0 => opened[call.task][call.out[2]].w

\* A descriptor that was redirected to a pipe is still open on the pipe in the
\* program that execve starts.
ExecKeepsDescriptors ==
  [][call'.fn = "execve" => opened' = opened]_vars

\* A pipe whose writing end only tasks that have exited refer to reads as ended.
ExitReleasesWriteEnds ==
  \A k \in Pipe :
    (\A t \in Task, fd \in Fd : opened[t][fd] = write_end(k) => state[t] = "exited")
      => write_cnt[k] = 0

\* No task goes to sleep in a pipe with a lock that it, or the task that is to
\* wake it, needs.
NoDeadLock == stopped # "Dead Lock!"
=============================================================================
