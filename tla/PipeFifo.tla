------------------------------ MODULE PipeFifo ------------------------------
(***************************************************************************)
(* What PipeRingBuffer promises to Pipe::read_exact and Pipe::write_exact   *)
(* (kernel/src/fs/pipe.rs): a first-in first-out byte queue of fixed        *)
(* capacity whose read and write each happen in one step, move as many      *)
(* bytes as they can, and return that number.                               *)
(***************************************************************************)
EXTENDS Naturals, Sequences

CONSTANTS RING_BUFFER_SIZE,  \* capacity of the queue
          Byte,              \* the values of a byte
          MAX_BUF            \* bound: longest caller's buffer considered

VARIABLES queue,  \* the bytes written and not yet read, oldest first
          out,    \* the bytes the last call delivered (none for a write)
          ret     \* the number the last call returned

fifoVars == <<queue, out, ret>>

least(a, b) == IF a <= b THEN a ELSE b

\* The callers' buffers: byte sequences of length at most MAX_BUF.
Buf == UNION {[1..k -> Byte] : k \in 0..MAX_BUF}

FifoInit == queue = <<>> /\ out = <<>> /\ ret = 0

FifoRead(len) ==
  LET n == least(Len(queue), len)
  IN  /\ out' = SubSeq(queue, 1, n)
      /\ queue' = SubSeq(queue, n + 1, Len(queue))
      /\ ret' = n

FifoWrite(buf) ==
  LET n == least(RING_BUFFER_SIZE - Len(queue), Len(buf))
  IN  /\ queue' = queue \o SubSeq(buf, 1, n)
      /\ out' = <<>>
      /\ ret' = n

FifoNext == \/ \E len \in 0..MAX_BUF : FifoRead(len)
            \/ \E buf \in Buf : FifoWrite(buf)

FifoSpec == FifoInit /\ [][FifoNext]_fifoVars
=============================================================================
