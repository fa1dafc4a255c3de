--------------------------- MODULE PipeRingBuffer ---------------------------
(***************************************************************************)
(* The ring buffer behind a pipe: struct PipeRingBuffer of                  *)
(* kernel/src/fs/pipe.rs.  Its read and write first compute how many bytes  *)
(* they will move and then move them one at a time with read_byte and       *)
(* write_byte, which check nothing themselves: the count computed before    *)
(* the loop is all that keeps the loop from reading bytes nobody wrote or   *)
(* overwriting bytes nobody read.  The model takes one step per byte.       *)
(***************************************************************************)
EXTENDS Naturals, Sequences

CONSTANTS RING_BUFFER_SIZE,  \* the capacity, 1024 in the code
          Byte,              \* the values of a u8
          MAX_BUF,           \* bound: longest buffer a caller passes
          ZERO               \* the byte a new buffer is filled with

ASSUME SizeAssumption == RING_BUFFER_SIZE \in Nat \ {0}
ASSUME BufAssumption == MAX_BUF \in Nat
ASSUME ZeroAssumption == ZERO \in Byte

VARIABLES arr,     \* PipeRingBuffer.arr, indexed from 0
          head,    \* next index to read
          tail,    \* next index to write
          status,  \* RingBufferStatus
          op       \* the call in progress: its name, buffer, loop index and bound

ringVars == <<arr, head, tail, status, op>>

Status == {"FULL", "EMPTY", "NORMAL"}

Index == 0..(RING_BUFFER_SIZE - 1)

min(a, b) == IF a <= b THEN a ELSE b

Buf == UNION {[1..k -> Byte] : k \in 0..MAX_BUF}

new == /\ arr = [k \in Index |-> ZERO]
       /\ head = 0
       /\ tail = 0
       /\ status = "EMPTY"
       /\ op = [fn |-> "none", buf |-> <<>>, i |-> 0, n |-> 0]

\* Faulty variant: a full buffer, whose indices are equal, seems empty.
available_read_full_is_empty ==
  IF status = "EMPTY" THEN 0
  ELSE IF tail >= head THEN tail - head
                       ELSE tail + RING_BUFFER_SIZE - head

available_read ==
  IF status = "EMPTY" THEN 0
  ELSE IF tail > head THEN tail - head
                      ELSE tail + RING_BUFFER_SIZE - head

available_write ==
  IF status = "FULL" THEN 0 ELSE RING_BUFFER_SIZE - available_read

\* The loop of the call in progress has run to its bound: it has returned.
returned == op.i = op.n

\* read(buf) up to its loop: can_read bytes will be moved into buf.
read(len) ==
  /\ returned
  /\ op' = [fn |-> "read", buf |-> <<>>, i |-> 0, n |-> min(available_read, len)]
  /\ UNCHANGED <<arr, head, tail, status>>

\* One iteration of read's loop: buf[i] = self.read_byte().
read_byte ==
  /\ op.fn = "read" /\ ~returned
  /\ op' = [fn |-> "read", buf |-> Append(op.buf, arr[head]), i |-> op.i + 1, n |-> op.n]
  /\ head' = (head + 1) % RING_BUFFER_SIZE
  /\ status' = IF head' = tail THEN "EMPTY" ELSE "NORMAL"
  /\ UNCHANGED <<arr, tail>>

\* write(buf) up to its loop: the first can_write bytes of buf will be moved.
write(buf) ==
  /\ returned
  /\ op' = [fn |-> "write", buf |-> buf, i |-> 0, n |-> min(available_write, Len(buf))]
  /\ UNCHANGED <<arr, head, tail, status>>

\* Faulty variant: the last free place is filled without noticing.
write_byte_never_full ==
  /\ op.fn = "write" /\ ~returned
  /\ op' = [fn |-> "write", buf |-> op.buf, i |-> op.i + 1, n |-> op.n]
  /\ arr' = [arr EXCEPT ![tail] = op.buf[op.i + 1]]
  /\ tail' = (tail + 1) % RING_BUFFER_SIZE
  /\ status' = "NORMAL"
  /\ UNCHANGED head

\* One iteration of write's loop: self.write_byte(buf[i]).
write_byte ==
  /\ op.fn = "write" /\ ~returned
  /\ op' = [fn |-> "write", buf |-> op.buf, i |-> op.i + 1, n |-> op.n]
  /\ arr' = [arr EXCEPT ![tail] = op.buf[op.i + 1]]
  /\ tail' = (tail + 1) % RING_BUFFER_SIZE
  /\ status' = IF tail' = head THEN "FULL" ELSE "NORMAL"
  /\ UNCHANGED head

RingNext == \/ \E len \in 0..MAX_BUF : read(len)
            \/ read_byte
            \/ \E buf \in Buf : write(buf)
            \/ write_byte

RingSpec == new /\ [][RingNext]_ringVars

-----------------------------------------------------------------------------
\* The fields have the types of the struct.
RingTypeOK ==
  /\ arr \in [Index -> Byte]
  /\ head \in Index
  /\ tail \in Index
  /\ status \in Status
  /\ op \in [fn : {"none", "read", "write"}, buf : Seq(Byte), i : Nat, n : Nat]
  /\ op.i <= op.n
  /\ op.fn = "write" => op.n <= Len(op.buf)
  /\ op.fn = "read" => Len(op.buf) = op.i

\* head = tail is ambiguous, and status is what resolves it: it says NORMAL
\* exactly when the two indices differ (pipe.rs read_byte, write_byte).
StatusResolvesAmbiguity == (status = "NORMAL") <=> (head # tail)

\* At every iteration of the loops of read and write the bytes still to be
\* moved are there, or still fit: the bound computed before the loop is safe
\* although read_byte and write_byte check nothing.
LoopStaysInBounds ==
  /\ op.fn = "read" => op.n - op.i <= available_read
  /\ op.fn = "write" => op.n - op.i <= available_write

\* The three together are preserved by every iteration of the loops: the fields
\* keep their types, status resolves head = tail, and the loops stay in bounds.
RingInv == RingTypeOK /\ StatusResolvesAmbiguity /\ LoopStaysInBounds

-----------------------------------------------------------------------------
\* The k-th oldest byte held, and all of them.
Held(k) == arr[(head + k - 1) % RING_BUFFER_SIZE]

contents == [k \in 1..available_read |-> Held(k)]

\* The abstract queue takes the whole effect of a call when it begins.
queueBar ==
  CASE op.fn = "read" -> SubSeq(contents, op.n - op.i + 1, available_read)
    [] op.fn = "write" -> contents \o SubSeq(op.buf, op.i + 1, op.n)
    [] OTHER -> contents

outBar ==
  IF op.fn = "read" THEN op.buf \o SubSeq(contents, 1, op.n - op.i) ELSE <<>>

Fifo == INSTANCE PipeFifo WITH queue <- queueBar, out <- outBar, ret <- op.n

\* The byte loops implement the atomic bounded queue: every read delivers the
\* oldest bytes in order, none lost, repeated or overtaken across the wrap of
\* head and tail, and every call moves and reports as many bytes as possible.
ImplementsFifo == Fifo!FifoSpec
=============================================================================
