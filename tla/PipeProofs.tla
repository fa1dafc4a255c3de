----------------------------- MODULE PipeProofs -----------------------------
(***************************************************************************)
(* Proofs about read_exact and write_exact for any number of readers and    *)
(* writers, any lengths and any capacity: what they do to the task lists is  *)
(* what the scheduler's most general client does, and a short read means     *)
(* that the last writer is gone and the buffer is drained.                   *)
(***************************************************************************)
EXTENDS Pipe, SchedulerProofs, FiniteSetTheorems

LEMMA WaitLists ==
  \A t \in Party : own_list(t) \in WaitList /\ peer_list(t) \in WaitList
  BY PipeAssumption DEF own_list, peer_list

\* Every statement is a step of the scheduler's client, or leaves the lists.
LEMMA StatementIsSchedStep ==
  ASSUME NEW t \in Party, panic = "none", task_step(t)
  PROVE  [SchedNext]_schedVars
<1>1. ASSUME \/ inc_write(t) \/ read_iteration(t) \/ write_iteration(t)
             \/ wake_done(t) \/ dec_write(t) \/ dec_done(t)
      PROVE  UNCHANGED schedVars
  BY <1>1 DEF inc_write, read_iteration, write_iteration, wake_done, dec_write, dec_done
<1>2. ASSUME transfer_done(t) PROVE UNCHANGED schedVars
  BY <1>2 DEF transfer_done, stop
<1>3. ASSUME sleep_wait_mark(t) PROVE SchedNext
  BY <1>3 DEF sleep_wait_mark, SchedNext
<1>4. ASSUME sleep_wait_switch(t) PROVE SchedNext
  BY <1>4, WaitLists DEF sleep_wait_switch, SchedNext
<1>5. ASSUME wake_iteration(t) PROVE [SchedNext]_schedVars
  <2>1. CASE list[peer_list(t)] = <<>>
    BY <1>5, <2>1 DEF wake_iteration, stop
  <2>2. CASE list[peer_list(t)] # <<>>
    <3>1. wake_up(peer_list(t), 1)
      BY <1>5, <2>2 DEF wake_iteration
    <3>2. 1 \in 1..Len(list[peer_list(t)])
      BY <3>1 DEF wake_up
    <3>. QED BY <3>1, <3>2, WaitLists DEF SchedNext
  <2>. QED BY <2>1, <2>2
<1>. QED BY <1>1, <1>2, <1>3, <1>4, <1>5 DEF task_step

LEMMA PipeStepIsSchedStep ==
  ASSUME [PipeNext]_pipeVars
  PROVE  [SchedNext]_schedVars
<1>1. CASE UNCHANGED pipeVars \/ shut_down
  BY <1>1 DEF pipeVars, shut_down
<1>2. ASSUME panic = "none", NEW t \in Party, create_kern_task_and_run(t) PROVE SchedNext
  <2>1. t \in Task
    BY PipeAssumption DEF Party
  <2>. QED BY <1>2, <2>1 DEF create_kern_task_and_run, SchedNext
<1>3. ASSUME panic = "none", irq_handler PROVE SchedNext
  BY <1>3 DEF irq_handler, SchedNext
<1>4. CASE alive /\ PipeStep
  BY <1>2, <1>3, <1>4, StatementIsSchedStep DEF PipeStep, alive
<1>. QED BY <1>1, <1>4 DEF PipeNext

\* Sleeping, waking and being preempted between any two statements of a transfer
\* implement the scheduler's specification.
THEOREM PipeImplementsScheduler == PipeSpec => PipeUsesScheduler
<1>1. PipeInit => SchedInit
  BY DEF PipeInit
<1>2. [PipeNext]_pipeVars => [SchedNext]_schedVars
  BY PipeStepIsSchedStep
<1>. QED BY <1>1, <1>2, PTL DEF PipeSpec, PipeUsesScheduler, SchedSpec

\* So no task that waits on a pipe is lost, doubled or on two lists, and the idle
\* branch of the scheduler is not reached while everyone waits.
THEOREM PipeKeepsTheLists == PipeSpec => []SchedInv
  BY PipeImplementsScheduler, SchedulerInvariant, PTL DEF PipeUsesScheduler

-----------------------------------------------------------------------------
\* The u8 count does not wrap: there are fewer writers than it can count.
WritersFit == IsFiniteSet(Writer) /\ Cardinality(Writer) < CNT_MOD

\* A reader that counts a write end is the only reader, so that no other reader
\* looks at the count before.
CountedFirst == \A r \in Reader : Counter \subseteq {r}

\* A writer that has released its write end, and the writers that have not.
Released == {"wake after dec", "returned"}

Holding == {w \in Writer : at[w] \notin Released}

Where == {"inc", "read", "write", "sleep", "switch", "wake", "dec", "wake after dec", "returned"}

ReaderAt == {"inc", "read", "sleep", "switch", "wake", "returned"}

Byte == Writer \X Nat \X Nat

\* Every write end has been counted.
Counted == \A c \in Counter : at[c] # "inc"

\* write_cnt counts the writers that have not released the pipe, but the one
\* that is still to be counted.
CountIsHolding ==
  write_cnt = IF Counted THEN Cardinality(Holding)
              ELSE (Cardinality(Holding) + CNT_MOD - 1) % CNT_MOD

\* The strengthening of ShortReadOnlyAtEnd: a count of zero that a reader finds
\* is final.
EndInv ==
  /\ WritersFit /\ CountedFirst
  /\ buffer \in Seq(Byte) /\ Len(buffer) <= RING_BUFFER_SIZE
  /\ at \in [Party -> Where] /\ calls \in [Party -> Nat]
  /\ \A r \in Reader : at[r] \in ReaderAt /\ (at[r] = "inc" => r \in Counter)
  /\ \A w \in Writer : at[w] \notin {"inc", "read"}
  /\ CountIsHolding
  /\ ShortReadOnlyAtEnd

LEMMA HoldingFinite ==
  ASSUME WritersFit
  PROVE  /\ IsFiniteSet(Holding) /\ Cardinality(Holding) \in Nat /\ Cardinality(Holding) < CNT_MOD
         /\ Cardinality(Holding) = 0 <=> Holding = {}
<1>1. Holding \subseteq Writer /\ IsFiniteSet(Writer)
  BY DEF Holding, WritersFit
<1>2. IsFiniteSet(Holding) /\ Cardinality(Holding) <= Cardinality(Writer)
  BY <1>1, FS_Subset
<1>3. Cardinality(Holding) \in Nat /\ Cardinality(Writer) \in Nat
  BY <1>1, <1>2, FS_CardinalityType
<1>4. CNT_MOD \in Nat
  BY PipeAssumption
<1>. QED BY <1>2, <1>3, <1>4, FS_EmptySet DEF WritersFit

\* A task goes on to a place on the same side of its release.
LEMMA HoldingSame ==
  ASSUME at \in [Party -> Where], NEW t \in Party, NEW x, goto(t, x),
         t \in Writer => (at[t] \in Released <=> x \in Released)
  PROVE  Holding' = Holding
<1>1. \A w \in Writer : at'[w] = IF w = t THEN x ELSE at[w]
  BY DEF goto, Party
<1>. QED BY <1>1 DEF Holding

LEMMA CounterIsParty == Counter \subseteq Party /\ Counter \subseteq Reader
  BY PipeAssumption DEF Party

\* A step that moves one task, and leaves the buffer and the count alone.
LEMMA MoveKeepsEnd ==
  ASSUME EndInv, UNCHANGED <<buffer, write_cnt>>, calls' \in [Party -> Nat],
         NEW t \in Party, NEW x \in Where, goto(t, x),
         \A u \in Party : u # t => calls'[u] = calls[u],
         at[t] # "inc", x # "inc",
         t \in Writer => (at[t] \in Released <=> x \in Released) /\ x # "read",
         t \in Reader => x \in ReaderAt /\ (x = "returned" /\ calls'[t] < READS => write_cnt = 0 /\ buffer = <<>>)
  PROVE  EndInv'
<1>1. at \in [Party -> Where] /\ Reader \subseteq Party /\ Writer \subseteq Party
  BY DEF EndInv, Party
<1>2. at' \in [Party -> Where] /\ \A u \in Party : at'[u] = IF u = t THEN x ELSE at[u]
  BY <1>1 DEF goto
<1>3. Holding' = Holding /\ (Counted' <=> Counted)
  BY <1>1, <1>2, HoldingSame, CounterIsParty DEF Counted
<1>4. /\ \A r \in Reader : at'[r] \in ReaderAt /\ (at'[r] = "inc" => r \in Counter)
      /\ \A w \in Writer : at'[w] \notin {"inc", "read"}
  BY <1>1, <1>2 DEF EndInv
<1>5. ShortReadOnlyAtEnd'
  BY <1>1, <1>2 DEF EndInv, ShortReadOnlyAtEnd
<1>. QED BY <1>2, <1>3, <1>4, <1>5 DEF EndInv, WritersFit, CountedFirst, CountIsHolding

LEMMA StillKeepsEnd ==
  ASSUME EndInv, UNCHANGED <<buffer, write_cnt, at, calls>>
  PROVE  EndInv'
  BY DEF EndInv, WritersFit, CountedFirst, CountIsHolding, Counted, ShortReadOnlyAtEnd, Holding

\* The statements that neither move bytes nor count.
LEMMA QuietKeepsEnd ==
  ASSUME EndInv, NEW t \in Party,
         \/ sleep_wait_mark(t) \/ sleep_wait_switch(t)
         \/ transfer_done(t) \/ wake_iteration(t) \/ wake_done(t) \/ dec_done(t)
  PROVE  EndInv'
<1>0. /\ at[t] \in Where /\ calls \in [Party -> Nat]
      /\ t \in Reader => at[t] \in ReaderAt
      /\ t \in Reader \/ t \in Writer
      /\ ~(t \in Reader /\ t \in Writer)
  BY PipeAssumption DEF EndInv, Party
<1>1. CASE sleep_wait_mark(t)
  BY <1>0, <1>1, MoveKeepsEnd DEF sleep_wait_mark, Where, ReaderAt, Released
<1>2. CASE sleep_wait_switch(t)
  BY <1>0, <1>2, MoveKeepsEnd DEF sleep_wait_switch, Where, ReaderAt, Released
<1>3. CASE transfer_done(t)
  BY <1>0, <1>3, MoveKeepsEnd, StillKeepsEnd DEF transfer_done, stop, Where, ReaderAt, Released
<1>4. CASE wake_iteration(t)
  BY <1>4, StillKeepsEnd DEF wake_iteration, stop
<1>5. CASE wake_done(t)
  <2>1. calls' = [calls EXCEPT ![t] = @ + 1] /\ UNCHANGED <<buffer, write_cnt>> /\ at[t] = "wake"
    BY <1>5 DEF wake_done
  <2>2. calls' \in [Party -> Nat] /\ \A u \in Party : u # t => calls'[u] = calls[u]
    BY <1>0, <2>1
  <2>3. CASE t \in Reader
    <3>1. goto(t, IF calls'[t] = READS THEN "returned" ELSE "read")
      BY <1>5, <2>3 DEF wake_done
    <3>2. READS \in Nat
      BY PipeAssumption
    <3>3. CASE calls'[t] = READS
      <4>1. goto(t, "returned") /\ ~(calls'[t] < READS)
        BY <3>1, <3>2, <3>3
      <4>2. "returned" \in Where /\ "returned" \in ReaderAt /\ t \notin Writer
        BY <1>0, <2>3 DEF Where, ReaderAt
      <4>. QED BY <2>1, <2>2, <4>1, <4>2, MoveKeepsEnd
    <3>4. CASE calls'[t] # READS
      BY <1>0, <2>1, <2>2, <2>3, <3>1, <3>4, MoveKeepsEnd DEF Where, ReaderAt, Released
    <3>. QED BY <3>3, <3>4
  <2>4. CASE t \notin Reader
    <3>1. goto(t, IF calls'[t] = WRITES THEN "dec" ELSE "write")
      BY <1>5, <2>4 DEF wake_done
    <3>2. goto(t, "dec") \/ goto(t, "write")
      BY <3>1
    <3>. QED BY <2>1, <2>2, <2>4, <3>2, MoveKeepsEnd DEF Where, Released
  <2>. QED BY <2>3, <2>4
<1>6. CASE dec_done(t)
  BY <1>0, <1>6, MoveKeepsEnd DEF dec_done, Where, ReaderAt, Released
<1>. QED BY <1>1, <1>2, <1>3, <1>4, <1>5, <1>6

\* A read takes a prefix of the buffer, and nothing only when it is empty.
LEMMA ReadPrefix ==
  ASSUME buffer \in Seq(Byte), NEW n, n = least(Len(buffer), READ_LEN),
         buffer' = SubSeq(buffer, n + 1, Len(buffer))
  PROVE  /\ n \in Nat /\ buffer' \in Seq(Byte) /\ Len(buffer') <= Len(buffer)
         /\ buffer = <<>> => buffer' = <<>>
         /\ ~(n > 0) => buffer' = <<>>
<1>1. Len(buffer) \in Nat /\ READ_LEN \in Nat /\ READ_LEN > 0
  BY PipeAssumption
<1>2. n \in Nat /\ n <= Len(buffer) /\ (n = 0 => Len(buffer) = 0)
  BY <1>1 DEF least
<1>3. buffer' \in Seq(Byte) /\ Len(buffer') = Len(buffer) - n
  BY <1>1, <1>2
<1>4. Len(buffer) = 0 => buffer' = <<>>
  BY <1>1, <1>2, <1>3
<1>5. buffer = <<>> => Len(buffer) = 0
  OBVIOUS
<1>. QED BY <1>1, <1>2, <1>3, <1>4, <1>5

LEMMA ReadKeepsEnd ==
  ASSUME EndInv, NEW t \in Party, read_iteration(t)
  PROVE  EndInv'
<1>. DEFINE n == least(Len(buffer), READ_LEN)
            x == IF n > 0 THEN "read" ELSE IF write_cnt # 0 THEN "sleep" ELSE "returned"
<1>1. /\ at[t] = "read" /\ UNCHANGED <<write_cnt, calls>>
      /\ buffer' = SubSeq(buffer, n + 1, Len(buffer)) /\ goto(t, x)
  BY DEF read_iteration, goto
<1>2. /\ n \in Nat /\ buffer' \in Seq(Byte) /\ Len(buffer') <= Len(buffer)
      /\ buffer = <<>> => buffer' = <<>>
      /\ ~(n > 0) => buffer' = <<>>
  BY <1>1, ReadPrefix DEF EndInv
<1>. HIDE DEF n
<1>3. /\ x \in Where /\ x \in ReaderAt /\ x # "inc"
      /\ x = "returned" => write_cnt = 0 /\ buffer' = <<>>
  BY <1>2 DEF Where, ReaderAt
<1>. HIDE DEF x
<1>4. t \notin Writer /\ Reader \subseteq Party /\ Writer \subseteq Party
  BY <1>1 DEF EndInv, Party
<1>5. at' \in [Party -> Where] /\ \A u \in Party : at'[u] = IF u = t THEN x ELSE at[u]
  BY <1>1, <1>3 DEF goto, EndInv
<1>6. Holding' = Holding /\ (Counted' <=> Counted)
  BY <1>1, <1>3, <1>4, <1>5, HoldingSame, CounterIsParty DEF EndInv, Counted
<1>7. Len(buffer') <= RING_BUFFER_SIZE
  <2>1. buffer \in Seq(Byte) /\ Len(buffer) <= RING_BUFFER_SIZE /\ RING_BUFFER_SIZE \in Nat
    BY PipeAssumption DEF EndInv
  <2>. QED BY <1>2, <2>1
<1>8. ShortReadOnlyAtEnd'
  BY <1>1, <1>2, <1>3, <1>4, <1>5 DEF EndInv, ShortReadOnlyAtEnd
<1>9. (\A r \in Reader : at'[r] \in ReaderAt /\ (at'[r] = "inc" => r \in Counter)) /\ (\A w \in Writer : at'[w] \notin {"inc", "read"})
  BY <1>3, <1>4, <1>5 DEF EndInv
<1>. QED BY <1>1, <1>2, <1>5, <1>6, <1>7, <1>8, <1>9 DEF EndInv, WritersFit, CountedFirst, CountIsHolding

\* A write adds what there is room for.
LEMMA WriteFits ==
  ASSUME buffer \in Seq(Byte), Len(buffer) <= RING_BUFFER_SIZE,
         NEW t \in Writer, NEW c \in Nat,
         NEW n, n = least(RING_BUFFER_SIZE - Len(buffer), WRITE_LEN),
         buffer' = buffer \o SubSeq(write_buf(t, c), 1, n)
  PROVE  n \in Nat /\ buffer' \in Seq(Byte) /\ Len(buffer') <= RING_BUFFER_SIZE
<1>1. Len(buffer) \in Nat /\ RING_BUFFER_SIZE \in Nat /\ WRITE_LEN \in Nat
  BY PipeAssumption
<1>2. n \in Nat /\ n <= WRITE_LEN /\ Len(buffer) + n <= RING_BUFFER_SIZE
  BY <1>1 DEF least
<1>3. \A k \in 1..WRITE_LEN : <<t, c, k>> \in Byte
  BY <1>1 DEF Byte
<1>4. write_buf(t, c) \in [1..WRITE_LEN -> Byte]
  BY <1>3 DEF write_buf
<1>5. write_buf(t, c) \in Seq(Byte) /\ Len(write_buf(t, c)) = WRITE_LEN
  BY <1>1, <1>4
<1>. DEFINE wb == write_buf(t, c)
            s == SubSeq(wb, 1, n)
<1>. HIDE DEF wb
<1>6. s \in Seq(Byte) /\ Len(s) = n
  BY <1>1, <1>2, <1>5 DEF wb
<1>7. buffer' = buffer \o s
  BY DEF wb
<1>. HIDE DEF s
<1>8. buffer' \in Seq(Byte) /\ Len(buffer') = Len(buffer) + n
  BY <1>1, <1>2, <1>6, <1>7
<1>. QED BY <1>1, <1>2, <1>8

\* While a writer has not released the pipe no read has ended short.
LEMMA NobodyAtEnd ==
  ASSUME EndInv, NEW t \in Holding, NEW r \in Reader
  PROVE  ~(at[r] = "returned" /\ calls[r] < READS)
<1>1. at[r] = "returned" => Counted
  BY DEF EndInv, CountedFirst, Counted
<1>2. Cardinality(Holding) # 0
  BY HoldingFinite DEF EndInv
<1>. QED BY <1>1, <1>2 DEF EndInv, CountIsHolding, ShortReadOnlyAtEnd

LEMMA WriteKeepsEnd ==
  ASSUME EndInv, NEW t \in Party, write_iteration(t)
  PROVE  EndInv'
<1>. DEFINE n == least(RING_BUFFER_SIZE - Len(buffer), WRITE_LEN)
            x == IF n > 0 THEN "write" ELSE "sleep"
<1>1. /\ at[t] = "write" /\ UNCHANGED <<write_cnt, calls>> /\ goto(t, x)
      /\ buffer' = buffer \o SubSeq(write_buf(t, calls[t]), 1, n)
  BY DEF write_iteration
<1>2. t \in Writer /\ t \notin Reader /\ calls[t] \in Nat
  BY <1>1, PipeAssumption DEF EndInv, Party, ReaderAt
<1>3. buffer' \in Seq(Byte) /\ Len(buffer') <= RING_BUFFER_SIZE
  BY <1>1, <1>2, WriteFits DEF EndInv
<1>4. t \in Holding
  BY <1>1, <1>2 DEF Holding, Released
<1>5. x \in Where /\ x \notin {"inc", "read"} /\ x \notin Released /\ at[t] \notin Released
  BY <1>1 DEF Where, Released
<1>. HIDE DEF x
<1>6. at' \in [Party -> Where] /\ \A u \in Party : at'[u] = IF u = t THEN x ELSE at[u]
  BY <1>1, <1>5 DEF goto, EndInv
<1>7. Holding' = Holding /\ (Counted' <=> Counted)
  BY <1>1, <1>5, <1>6, HoldingSame, CounterIsParty DEF EndInv, Counted
<1>8. (\A r \in Reader : at'[r] = at[r]) /\ (\A w \in Writer : at'[w] \notin {"inc", "read"})
  BY <1>2, <1>5, <1>6 DEF EndInv, Party
<1>9. ShortReadOnlyAtEnd'
  BY <1>1, <1>4, <1>8, NobodyAtEnd DEF ShortReadOnlyAtEnd
<1>. QED BY <1>1, <1>3, <1>6, <1>7, <1>8, <1>9 DEF EndInv, WritersFit, CountedFirst, CountIsHolding

\* The u8 arithmetic of dec_write below the modulus.
LEMMA DecIsMinusOne ==
  ASSUME NEW m \in Nat, NEW c \in Nat, c > 0, c < m
  PROVE  (c + m - 1) % m = c - 1
<1>1. c - 1 \in Nat /\ c - 1 < m /\ c + m - 1 = (c - 1) + 1 * m /\ m > 0
  OBVIOUS
<1>. QED BY <1>1

LEMMA DecKeepsEnd ==
  ASSUME EndInv, NEW t \in Party, dec_write(t)
  PROVE  EndInv'
<1>1. /\ at[t] = "dec" /\ UNCHANGED <<buffer, calls>> /\ goto(t, "wake after dec")
      /\ write_cnt' = (write_cnt + CNT_MOD - 1) % CNT_MOD
  BY DEF dec_write
<1>2. t \in Writer /\ t \notin Reader
  BY <1>1, PipeAssumption DEF EndInv, Party, ReaderAt
<1>3. t \in Holding
  BY <1>1, <1>2 DEF Holding, Released
<1>4. "wake after dec" \in Where /\ "wake after dec" \notin {"inc", "read"} /\ "wake after dec" \in Released
  BY DEF Where, Released
<1>5. at' \in [Party -> Where] /\ \A u \in Party : at'[u] = IF u = t THEN "wake after dec" ELSE at[u]
  BY <1>1, <1>4 DEF goto, EndInv
<1>6. Holding' = Holding \ {t}
  BY <1>4, <1>5 DEF Holding, Party
<1>7. /\ IsFiniteSet(Holding) /\ Cardinality(Holding) \in Nat /\ Cardinality(Holding) < CNT_MOD
      /\ Cardinality(Holding) # 0 /\ CNT_MOD \in Nat
  BY <1>3, HoldingFinite, PipeAssumption DEF EndInv
<1>8. Cardinality(Holding') = Cardinality(Holding) - 1
  BY <1>3, <1>6, <1>7, FS_RemoveElement
<1>. DEFINE h == Cardinality(Holding)
<1>9. Counted' <=> Counted
  BY <1>1, <1>4, <1>5, CounterIsParty DEF Counted
<1>10. /\ (h + CNT_MOD - 1) % CNT_MOD = h - 1
       /\ Cardinality(Holding') = h - 1 /\ h - 1 \in Nat
  <2>1. h \in Nat /\ h > 0 /\ h < CNT_MOD /\ CNT_MOD \in Nat
    BY <1>7
  <2>2. (h + CNT_MOD - 1) % CNT_MOD = h - 1
    BY <2>1, DecIsMinusOne
  <2>. QED BY <1>8, <2>1, <2>2
<1>11. CountIsHolding'
  <2>1. CASE Counted
    <3>1. write_cnt = h
      BY <2>1 DEF EndInv, CountIsHolding
    <3>. QED BY <1>1, <1>9, <1>10, <2>1, <3>1 DEF CountIsHolding
  <2>2. CASE ~Counted
    <3>1. write_cnt = h - 1
      BY <1>10, <2>2 DEF EndInv, CountIsHolding
    <3>2. write_cnt' = (Cardinality(Holding') + CNT_MOD - 1) % CNT_MOD
      BY <1>1, <1>10, <3>1
    <3>. QED BY <1>9, <2>2, <3>2 DEF CountIsHolding
  <2>. QED BY <2>1, <2>2
<1>12. (\A r \in Reader : at'[r] = at[r]) /\ (\A w \in Writer : at'[w] \notin {"inc", "read"})
  BY <1>2, <1>4, <1>5 DEF EndInv, Party
<1>13. ShortReadOnlyAtEnd'
  BY <1>1, <1>3, <1>12, NobodyAtEnd DEF ShortReadOnlyAtEnd
<1>. QED BY <1>1, <1>5, <1>11, <1>12, <1>13 DEF EndInv, WritersFit, CountedFirst

\* The u8 arithmetic of inc_write after it.
LEMMA IncIsPlusOne ==
  ASSUME NEW m \in Nat, NEW h \in Nat, h < m
  PROVE  (((h + m - 1) % m) + 1) % m = h
<1>1. CASE h = 0
  <2>1. m - 1 \in Nat /\ m - 1 < m /\ m > 0
    BY <1>1
  <2>2. (m - 1) % m = m - 1 /\ m % m = 0
    BY <2>1
  <2>. QED BY <1>1, <2>2
<1>2. CASE h > 0
  <2>1. (h + m - 1) % m = h - 1
    BY <1>2, DecIsMinusOne
  <2>2. (h - 1) + 1 = h /\ h % m = h
    OBVIOUS
  <2>. QED BY <2>1, <2>2
<1>. QED BY <1>1, <1>2

LEMMA IncKeepsEnd ==
  ASSUME EndInv, NEW t \in Party, inc_write(t)
  PROVE  EndInv'
<1>1. /\ at[t] = "inc" /\ UNCHANGED <<buffer, calls>> /\ goto(t, "read")
      /\ write_cnt' = (write_cnt + 1) % CNT_MOD
  BY DEF inc_write
<1>2. t \in Reader /\ t \notin Writer
  BY <1>1, PipeAssumption DEF EndInv, Party
<1>3. "read" \in Where /\ "read" \in ReaderAt /\ "read" \notin Released
  BY DEF Where, ReaderAt, Released
<1>4. at' \in [Party -> Where] /\ \A u \in Party : at'[u] = IF u = t THEN "read" ELSE at[u]
  BY <1>1, <1>3 DEF goto, EndInv
<1>5. Holding' = Holding
  BY <1>1, <1>2, HoldingSame DEF EndInv
<1>6. t \in Counter => ~Counted /\ Counted'
  BY <1>1, <1>2, <1>4, CounterIsParty DEF EndInv, CountedFirst, Counted
<1>7. t \in Counter
  BY <1>1, <1>2 DEF EndInv
<1>8. CountIsHolding'
  <2>1. /\ Cardinality(Holding) \in Nat /\ Cardinality(Holding) < CNT_MOD /\ CNT_MOD \in Nat
    BY HoldingFinite, PipeAssumption DEF EndInv
  <2>2. write_cnt = (Cardinality(Holding) + CNT_MOD - 1) % CNT_MOD
    BY <1>6, <1>7 DEF EndInv, CountIsHolding
  <2>3. write_cnt' = Cardinality(Holding)
    BY <1>1, <2>1, <2>2, IncIsPlusOne
  <2>. QED BY <1>5, <1>6, <1>7, <2>3 DEF CountIsHolding
<1>9. /\ \A r \in Reader : at'[r] \in ReaderAt /\ (at'[r] = "inc" => r \in Counter)
      /\ \A w \in Writer : at'[w] \notin {"inc", "read"}
  BY <1>2, <1>3, <1>4 DEF EndInv, Party
<1>10. \A r \in Reader : r = t
  BY <1>7 DEF EndInv, CountedFirst
<1>11. ShortReadOnlyAtEnd'
  BY <1>4, <1>10 DEF ShortReadOnlyAtEnd
<1>. QED BY <1>1, <1>4, <1>8, <1>9, <1>11 DEF EndInv, WritersFit, CountedFirst

LEMMA PipeStepKeepsEnd ==
  ASSUME EndInv, [PipeNext]_pipeVars
  PROVE  EndInv'
<1>1. CASE UNCHANGED pipeVars \/ shut_down
  BY <1>1, StillKeepsEnd DEF pipeVars, shut_down
<1>2. ASSUME NEW t \in Party, create_kern_task_and_run(t) PROVE EndInv'
  BY <1>2, StillKeepsEnd DEF create_kern_task_and_run
<1>3. CASE irq_handler
  BY <1>3, StillKeepsEnd DEF irq_handler
<1>4. ASSUME NEW t \in Party, task_step(t) PROVE EndInv'
  BY <1>4, QuietKeepsEnd, IncKeepsEnd, ReadKeepsEnd, WriteKeepsEnd, DecKeepsEnd DEF task_step
<1>. QED BY <1>1, <1>2, <1>3, <1>4 DEF PipeNext, PipeStep

LEMMA PipeStartsBeforeEnd == WritersFit /\ CountedFirst /\ PipeInit => EndInv
<1>. SUFFICES ASSUME WritersFit, CountedFirst, PipeInit PROVE EndInv
  OBVIOUS
<1>1. /\ at = [t \in Party |-> IF t \in Counter THEN "inc"
                              ELSE IF t \in Reader THEN "read" ELSE "write"]
      /\ calls = [t \in Party |-> 0] /\ buffer = <<>>
      /\ write_cnt = (Cardinality(Writer) + CNT_MOD - Cardinality(Counter)) % CNT_MOD
  BY DEF PipeInit
<1>2. /\ Reader \subseteq Party /\ Writer \subseteq Party /\ Counter \subseteq Reader
      /\ \A w \in Writer : w \notin Reader
  BY PipeAssumption DEF Party
<1>3. /\ at \in [Party -> Where]
      /\ \A r \in Reader : at[r] = IF r \in Counter THEN "inc" ELSE "read"
      /\ \A w \in Writer : at[w] = "write"
  BY <1>1, <1>2 DEF Where
<1>4. Holding = Writer
  BY <1>3 DEF Holding, Released
<1>5. CountIsHolding
  <2>1. Cardinality(Writer) \in Nat /\ Cardinality(Writer) < CNT_MOD /\ CNT_MOD \in Nat
    BY FS_CardinalityType, PipeAssumption DEF WritersFit
  <2>2. CASE Counter = {}
    <3>1. Counted /\ Cardinality(Counter) = 0
      BY <2>2, FS_EmptySet DEF Counted
    <3>2. (Cardinality(Writer) + CNT_MOD - 0) % CNT_MOD = Cardinality(Writer)
      BY <2>1
    <3>. QED BY <1>1, <1>4, <3>1, <3>2 DEF CountIsHolding
  <2>3. CASE Counter # {}
    <3>1. PICK c \in Counter : TRUE
      BY <2>3
    <3>2. Counter = {c}
      BY <1>2, <3>1 DEF CountedFirst
    <3>3. Cardinality(Counter) = 1
      BY <3>2, FS_Singleton
    <3>4. ~Counted
      BY <1>2, <1>3, <3>1 DEF Counted
    <3>. QED BY <1>1, <1>4, <3>3, <3>4 DEF CountIsHolding
  <2>. QED BY <2>2, <2>3
<1>6. ShortReadOnlyAtEnd
  BY <1>3 DEF ShortReadOnlyAtEnd
<1>7. buffer \in Seq(Byte) /\ Len(buffer) <= RING_BUFFER_SIZE
  BY <1>1, PipeAssumption
<1>8. calls \in [Party -> Nat]
  BY <1>1
<1>9. /\ \A r \in Reader : at[r] \in ReaderAt /\ (at[r] = "inc" => r \in Counter)
      /\ \A w \in Writer : at[w] \notin {"inc", "read"}
  BY <1>3 DEF ReaderAt
<1>. QED BY <1>3, <1>5, <1>6, <1>7, <1>8, <1>9 DEF EndInv

\* With any number of writers the u8 can count, and of readers, or one that counts
\* a write end first as in test.rs, a read_exact that returns fewer bytes than asked
\* for returns after the last byte: every writer has released the pipe, the buffer
\* is drained, and it stays so.
THEOREM ShortReadIsTheEnd == WritersFit /\ CountedFirst /\ PipeSpec => []ShortReadOnlyAtEnd
<1>1. EndInv => ShortReadOnlyAtEnd
  BY DEF EndInv
<1>. QED BY <1>1, PipeStartsBeforeEnd, PipeStepKeepsEnd, PTL DEF PipeSpec
=============================================================================
