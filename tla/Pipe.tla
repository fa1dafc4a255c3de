------------------------------- MODULE Pipe ---------------------------------
(***************************************************************************)
(* Pipe::read_exact and Pipe::write_exact of kernel/src/fs/pipe.rs, called   *)
(* by kernel tasks as in kernel/src/test.rs, on top of the task lists.       *)
(*                                                                          *)
(* A kernel task runs with interrupts on: the timer may come between any two  *)
(* statements, except where a lock_irq guard is alive.  One step is therefore *)
(* one such critical section, or one statement outside of them.  The buffer   *)
(* is the bounded queue PipeRingBuffer implements.  The bodies of scheduler() *)
(* and add_task(), and taking the length of a wait list under its plain       *)
(* lock(), are single steps here: see Dispatch for a lock that is held across *)
(* an interrupt.                                                              *)
(***************************************************************************)
EXTENDS Scheduler, FiniteSets

CONSTANTS Reader,            \* tasks that read
          Writer,            \* tasks that write, then release their write end
          Counter,           \* readers that count a write end by inc_write first
          READ_LEN,          \* buf.len() of read_exact
          WRITE_LEN,         \* buf.len() of write_exact
          READS, WRITES,     \* bounds: read_exact and write_exact calls of one task
          RING_BUFFER_SIZE,  \* capacity of the buffer, 1024 in the code
          CNT_MOD            \* the modulus of the u8 write_cnt, 256 in the code

ASSUME PipeAssumption ==
  /\ Reader \subseteq Task /\ Writer \subseteq Task
  /\ Reader \cap Writer = {} /\ Boot \notin Reader \cup Writer
  /\ Counter \subseteq Reader
  /\ {"wait_read", "wait_write"} = WaitList
  /\ {READ_LEN, WRITE_LEN, READS, WRITES, RING_BUFFER_SIZE, CNT_MOD} \subseteq Nat \ {0}

VARIABLES buffer,     \* the bytes in the ring buffer, oldest first
          write_cnt,  \* Pipe.write_cnt
          at,         \* the statement each task is at
          buf_pos,    \* the local of read_exact or write_exact
          wake_left,  \* iterations left of the loop of a wake_up function
          buf,        \* the reader's buffer
          calls,      \* the calls each task has finished
          stopped,    \* which assertion or unwrap failed, or "none"
          split,      \* history: whether a call moved bytes in two iterations
          received    \* history: the bytes the calls of read_exact returned

history == <<split, received>>
pipeVars == <<schedVars, buffer, write_cnt, at, buf_pos, wake_left, buf, calls, stopped, history>>

Party == Reader \cup Writer

least(a, b) == IF a <= b THEN a ELSE b

\* The bytes of a writer's buffer in its c-th call: all different, so that
\* the order of delivery can be seen.
write_buf(w, c) == [k \in 1..WRITE_LEN |-> <<w, c, k>>]

\* What the reader's buffer is filled with at the start.
Zero == <<Boot, 0, 0>>

\* The write ends exist before the tasks start, each counted by inc_write but
\* those that a reader is to count, as the reader of test.rs does.
PipeInit == /\ SchedInit
            /\ buffer = <<>>
            /\ write_cnt = (Cardinality(Writer) + CNT_MOD - Cardinality(Counter)) % CNT_MOD
            /\ at = [t \in Party |-> IF t \in Counter THEN "inc"
                                    ELSE IF t \in Reader THEN "read" ELSE "write"]
            /\ buf_pos = [t \in Party |-> 0]
            /\ wake_left = [t \in Party |-> 0]
            /\ buf = [t \in Reader |-> [k \in 1..READ_LEN |-> Zero]]
            /\ calls = [t \in Party |-> 0]
            /\ stopped = "none"
            /\ split = FALSE
            /\ received = <<>>

goto(t, where) == at' = [at EXCEPT ![t] = where]

stop(why) == /\ stopped' = why
             /\ UNCHANGED <<schedVars, buffer, write_cnt, at, buf_pos, wake_left, buf, calls, history>>

\* The list a task sleeps on, and the list it wakes.
own_list(t) == IF t \in Reader THEN "wait_read" ELSE "wait_write"
peer_list(t) == IF t \in Reader THEN "wait_write" ELSE "wait_read"

-----------------------------------------------------------------------------
\* test_pipe starts the readers and writers.
create_kern_task_and_run(t) ==
  /\ RUNNING = Boot
  /\ add_task(t)
  /\ UNCHANGED <<buffer, write_cnt, at, buf_pos, wake_left, buf, calls, stopped, history>>

\* The timer, wherever the running task is.
irq_handler ==
  /\ timer_entry
  /\ UNCHANGED <<buffer, write_cnt, at, buf_pos, wake_left, buf, calls, stopped, history>>

\* inc_write, before the first read.
inc_write(t) ==
  /\ at[t] = "inc"
  /\ write_cnt' = (write_cnt + 1) % CNT_MOD
  /\ goto(t, "read")
  /\ UNCHANGED <<schedVars, buffer, buf_pos, wake_left, buf, calls, stopped, history>>

\* An iteration moves n bytes, and is not the first of its call to move some.
note_split(t, n) == split' = (split \/ (n > 0 /\ buf_pos[t] > 0))

\* The call hands its caller the first n bytes of the buffer.
hand_over(t, n) == received' = received \o SubSeq(buf[t], 1, n)

\* Faulty variants: the first byte comes last; an empty buffer ends the read
\* although there are writers.
read_rotated(t) ==
  /\ at[t] = "read" /\ buf_pos[t] < READ_LEN
  /\ LET n == least(Len(buffer), READ_LEN)
     IN  /\ buffer' = SubSeq(buffer, n + 1, Len(buffer))
         /\ buf' = [buf EXCEPT ![t] =
                      [k \in 1..READ_LEN |-> IF k <= n THEN buffer[(k % n) + 1] ELSE @[k]]]
         /\ buf_pos' = [buf_pos EXCEPT ![t] = @ + n]
         /\ note_split(t, n)
         /\ IF n > 0 THEN goto(t, "read") /\ UNCHANGED received
            ELSE IF write_cnt # 0 THEN goto(t, "sleep") /\ UNCHANGED received
            ELSE goto(t, "returned") /\ hand_over(t, buf_pos[t])
  /\ UNCHANGED <<schedVars, write_cnt, wake_left, calls, stopped>>

read_ends_on_empty(t) ==
  /\ at[t] = "read" /\ buf_pos[t] < READ_LEN
  /\ LET n == least(Len(buffer), READ_LEN)
     IN  /\ buffer' = SubSeq(buffer, n + 1, Len(buffer))
         /\ buf' = [buf EXCEPT ![t] = [k \in 1..READ_LEN |-> IF k <= n THEN buffer[k] ELSE @[k]]]
         /\ buf_pos' = [buf_pos EXCEPT ![t] = @ + n]
         /\ note_split(t, n)
         /\ IF n > 0 THEN goto(t, "read") /\ UNCHANGED received
            ELSE goto(t, "returned") /\ hand_over(t, buf_pos[t])
  /\ UNCHANGED <<schedVars, write_cnt, wake_left, calls, stopped>>

\* One iteration of read_exact's loop under the buffer's lock: ring_buffer.read
\* always fills buf from its start, with as much as the whole of buf can take.
read_iteration(t) ==
  /\ at[t] = "read" /\ buf_pos[t] < READ_LEN
  /\ LET n == least(Len(buffer), READ_LEN)
     IN  /\ buffer' = SubSeq(buffer, n + 1, Len(buffer))
         /\ buf' = [buf EXCEPT ![t] = [k \in 1..READ_LEN |-> IF k <= n THEN buffer[k] ELSE @[k]]]
         /\ buf_pos' = [buf_pos EXCEPT ![t] = @ + n]
         /\ note_split(t, n)
         /\ IF n > 0 THEN goto(t, "read") /\ UNCHANGED received
            ELSE IF write_cnt # 0 THEN goto(t, "sleep") /\ UNCHANGED received
            ELSE goto(t, "returned") /\ hand_over(t, buf_pos[t])
  /\ UNCHANGED <<schedVars, write_cnt, wake_left, calls, stopped>>

\* One iteration of write_exact's loop, which likewise restarts at buf[0].
write_iteration(t) ==
  /\ at[t] = "write" /\ buf_pos[t] < WRITE_LEN
  /\ LET n == least(RING_BUFFER_SIZE - Len(buffer), WRITE_LEN)
     IN  /\ buffer' = buffer \o SubSeq(write_buf(t, calls[t]), 1, n)
         /\ buf_pos' = [buf_pos EXCEPT ![t] = @ + n]
         /\ note_split(t, n)
         /\ goto(t, IF n > 0 THEN "write" ELSE "sleep")
  /\ UNCHANGED <<schedVars, write_cnt, wake_left, buf, calls, stopped, received>>

\* The first statement of sleep_wait_read and sleep_wait_write ...
sleep_wait_mark(t) ==
  /\ at[t] = "sleep"
  /\ mark_sleeping
  /\ goto(t, "switch")
  /\ UNCHANGED <<buffer, write_cnt, buf_pos, wake_left, buf, calls, stopped, history>>

\* ... and the second; when it returns the loop goes on.
sleep_wait_switch(t) ==
  /\ at[t] = "switch"
  /\ call_scheduler(own_list(t))
  /\ goto(t, IF t \in Reader THEN "read" ELSE "write")
  /\ UNCHANGED <<buffer, write_cnt, buf_pos, wake_left, buf, calls, stopped, history>>

\* Faulty variant: one iteration too many of the wake-up loop.
transfer_done_one_more(t) ==
  /\ at[t] \in {"read", "write"}
  /\ buf_pos[t] = IF t \in Reader THEN READ_LEN ELSE WRITE_LEN
  /\ wake_left' = [wake_left EXCEPT ![t] = Len(list[peer_list(t)]) + 1]
  /\ goto(t, "wake")
  /\ UNCHANGED <<schedVars, buffer, write_cnt, buf_pos, buf, calls, stopped, history>>

\* Behind the loops: the assertion, then the length the wake-up loop will use.
transfer_done(t) ==
  LET need == IF t \in Reader THEN READ_LEN ELSE WRITE_LEN
  IN  /\ at[t] \in {"read", "write"} /\ buf_pos[t] >= need
      /\ IF buf_pos[t] # need
         THEN stop(IF t \in Reader THEN "assert read_exact" ELSE "assert write_exact")
         ELSE /\ wake_left' = [wake_left EXCEPT ![t] = Len(list[peer_list(t)])]
              /\ goto(t, "wake")
              /\ IF t \in Reader THEN hand_over(t, need) ELSE UNCHANGED received
              /\ UNCHANGED <<schedVars, buffer, write_cnt, buf_pos, buf, calls, stopped, split>>

\* Faulty variant: the task is queued to run but stays on the wait list.
wake_without_pop(t) ==
  /\ at[t] \in {"wake", "wake after dec"} /\ wake_left[t] > 0
  /\ list[peer_list(t)] # <<>>
  /\ list' = [list EXCEPT !["running_list"] = Append(@, Head(list[peer_list(t)]))]
  /\ wake_left' = [wake_left EXCEPT ![t] = @ - 1]
  /\ UNCHANGED <<status, RUNNING, tic_counter, panic,
                 buffer, write_cnt, at, buf_pos, buf, calls, stopped, history>>

\* One iteration of wake_up_read or wake_up_write: pop_front().unwrap(), add_task.
wake_iteration(t) ==
  /\ at[t] \in {"wake", "wake after dec"} /\ wake_left[t] > 0
  /\ IF list[peer_list(t)] = <<>>
     THEN stop("unwrap pop_front")
     ELSE /\ wake_up(peer_list(t), 1)
          /\ wake_left' = [wake_left EXCEPT ![t] = @ - 1]
          /\ UNCHANGED <<buffer, write_cnt, at, buf_pos, buf, calls, stopped, history>>

\* The wake-up loop is over: read_exact or write_exact returns, and the task
\* calls it again, is done, or releases its write end.
wake_done(t) ==
  /\ at[t] = "wake" /\ wake_left[t] = 0
  /\ calls' = [calls EXCEPT ![t] = @ + 1]
  /\ buf_pos' = [buf_pos EXCEPT ![t] = 0]
  /\ goto(t, IF t \in Reader THEN (IF calls'[t] = READS THEN "returned" ELSE "read")
                             ELSE (IF calls'[t] = WRITES THEN "dec" ELSE "write"))
  /\ UNCHANGED <<schedVars, buffer, write_cnt, wake_left, buf, stopped, history>>

\* dec_write: the last writer goes on to wake every waiting reader.
dec_write(t) ==
  /\ at[t] = "dec"
  /\ write_cnt' = (write_cnt + CNT_MOD - 1) % CNT_MOD
  /\ wake_left' = [wake_left EXCEPT ![t] = IF write_cnt = 1 THEN Len(list["wait_read"]) ELSE 0]
  /\ goto(t, "wake after dec")
  /\ UNCHANGED <<schedVars, buffer, buf_pos, buf, calls, stopped, history>>

dec_done(t) ==
  /\ at[t] = "wake after dec" /\ wake_left[t] = 0
  /\ goto(t, "returned")
  /\ UNCHANGED <<schedVars, buffer, write_cnt, buf_pos, wake_left, buf, calls, stopped, history>>

\* The running task executes its next statement.
task_step(t) ==
  /\ RUNNING = t
  /\ \/ inc_write(t) \/ read_iteration(t) \/ write_iteration(t)
     \/ sleep_wait_mark(t) \/ sleep_wait_switch(t)
     \/ transfer_done(t) \/ wake_iteration(t) \/ wake_done(t)
     \/ dec_write(t) \/ dec_done(t)

alive == panic = "none" /\ stopped = "none"

\* After a panic the machine is shut down.
shut_down == ~alive /\ UNCHANGED pipeVars

PipeStep == (\E t \in Party : create_kern_task_and_run(t) \/ task_step(t)) \/ irq_handler

PipeNext == (alive /\ PipeStep) \/ shut_down

PipeSpec == PipeInit /\ [][PipeNext]_pipeVars

\* The timer ticks for ever; a task that is given the processor again and
\* again executes, since a slice is far longer than a statement.
PipeFairSpec == /\ PipeSpec
                /\ WF_pipeVars(alive /\ irq_handler)
                /\ \A t \in Party : /\ SF_pipeVars(alive /\ create_kern_task_and_run(t))
                                    /\ SF_pipeVars(alive /\ task_step(t))

-----------------------------------------------------------------------------
Bytes == {Zero} \cup (Writer \X (0..(WRITES - 1)) \X (1..WRITE_LEN))

\* The types of the pipe's fields and of the callers' locals.
PipeTypeOK ==
  /\ SchedTypeOK
  /\ buffer \in Seq(Bytes) /\ Len(buffer) <= RING_BUFFER_SIZE
  /\ write_cnt \in 0..(CNT_MOD - 1)
  /\ at \in [Party -> {"inc", "read", "write", "sleep", "switch", "wake", "dec",
                       "wake after dec", "returned"}]
  /\ buf_pos \in [Party -> Nat]
  /\ wake_left \in [Party -> 0..Cardinality(Task)]
  /\ buf \in [Reader -> [1..READ_LEN -> Bytes]]
  /\ calls \in [Party -> Nat]
  /\ stopped \in {"none", "assert read_exact", "assert write_exact", "unwrap pop_front"}
  /\ split \in BOOLEAN /\ received \in Seq(Bytes)

\* Everything the pipe does to the task lists is something the scheduler's
\* most general client does: no task is duplicated, lost or revived.
PipeUsesScheduler == SchedSpec

\* assert_eq!(buf_pos,need_read) at the end of read_exact.
ReadMovesExactly == stopped # "assert read_exact"

\* assert_eq!(buf_pos, need_write) at the end of write_exact.
WriteMovesExactly == stopped # "assert write_exact"

\* pop_front().unwrap() in wake_up_read and wake_up_write: the list still has
\* the tasks it had when its length was taken.
WakeUpFindsItsTasks == stopped # "unwrap pop_front"

\* Task u has woken, or is waking, the tasks that task t wakes.
rival(t, u) ==
  u # t /\ peer_list(u) = peer_list(t) /\ (calls[u] > 0 \/ at[u] \in {"wake", "wake after dec"})

\* A wake-up loop counts no more tasks than wait, unless another task has taken
\* some of them since.
CountedTasksWait ==
  \A t \in Party :
    wake_left[t] <= Len(list[peer_list(t)]) \/ \E u \in Party : rival(t, u)

\* A transfer fails its assertion only after some call had to move its bytes in
\* two pieces, and a wake-up finds its list emptied only when another task wakes
\* the same list; whatever the lengths and the capacity.
PipeInv ==
  /\ PipeTypeOK /\ CountedTasksWait
  /\ ~split => ReadMovesExactly /\ WriteMovesExactly
  /\ WakeUpFindsItsTasks \/ \E u \in Party : rival(RUNNING, u)

\* What a writer is to write, in order.
all_written(w) ==
  [k \in 1..(WRITES * WRITE_LEN) |-> <<w, (k - 1) \div WRITE_LEN, ((k - 1) % WRITE_LEN) + 1>>]

\* With one reader, the bytes of every writer come out of read_exact in the
\* order in which they were written, none missing and none twice, however often
\* reader and writers slept and were preempted, as long as no call has had to
\* move its bytes in two pieces (both loops restart at buf[0] and then do worse).
ReaderGetsNextBytes ==
  \A r \in Reader, w \in Writer :
    Reader = {r} /\ ~split =>
      LET from_w(b) == b[1] = w
          got == SelectSeq(received, from_w)
      IN  /\ Len(got) <= WRITES * WRITE_LEN
          /\ got = SubSeq(all_written(w), 1, Len(got))
          /\ \A i \in 1..Len(received) : received[i] # Zero

\* read_exact returns fewer bytes than asked for only when the last writer has
\* released the pipe and the buffer is drained: no byte comes after the end.
ShortReadOnlyAtEnd ==
  \A r \in Reader :
    at[r] = "returned" /\ calls[r] < READS => write_cnt = 0 /\ buffer = <<>>

\* The comment in dec_write: when all writers are released the waiting readers
\* have to be woken, or they can never wake.  So a reader that is inside
\* read_exact once every writer is gone returns.
ReadersReturnAfterLastWriter ==
  \A r \in Reader :
    (at[r] \in {"read", "sleep", "switch"} /\ \A w \in Writer : at[w] = "returned")
      ~> (at[r] = "returned" \/ ~alive)
=============================================================================
