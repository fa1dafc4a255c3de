------------------------ MODULE PipeRingBufferProofs ------------------------
(***************************************************************************)
(* Proofs about PipeRingBuffer for every capacity, every set of bytes and   *)
(* every bound on the callers' buffers: the fields keep their types, status *)
(* resolves the ambiguity of head = tail, and the byte loops stay inside    *)
(* the bounds computed before them.  The conjunction of the three is        *)
(* inductive; none of them is by itself.                                    *)
(***************************************************************************)
EXTENDS PipeRingBuffer, TLAPS

\* (a + 1) % RING_BUFFER_SIZE, the step of head and tail, is the next index
\* or a wrap to zero.
LEMMA WrapNext ==
  ASSUME NEW a \in Index
  PROVE  (a + 1) % RING_BUFFER_SIZE = IF a + 1 = RING_BUFFER_SIZE THEN 0 ELSE a + 1
<1>1. CASE a + 1 = RING_BUFFER_SIZE
  BY <1>1, SizeAssumption, SMT DEF Index
<1>2. CASE a + 1 # RING_BUFFER_SIZE
  <2>1. a + 1 \in Nat /\ a + 1 < RING_BUFFER_SIZE
    BY <1>2, SizeAssumption, SMT DEF Index
  <2>. QED BY <1>2, <2>1, SizeAssumption, SMT
<1>. QED BY <1>1, <1>2

\* available_read and available_write are natural numbers (the subtractions
\* of the code do not go below zero) that add up to the capacity.
LEMMA AvailableAddsUp ==
  ASSUME RingTypeOK, StatusResolvesAmbiguity
  PROVE  /\ available_read \in 0..RING_BUFFER_SIZE
         /\ available_write = RING_BUFFER_SIZE - available_read
         /\ status = "EMPTY" <=> available_read = 0
         /\ status = "FULL" <=> available_read = RING_BUFFER_SIZE
  BY SizeAssumption DEF RingTypeOK, StatusResolvesAmbiguity, available_read, available_write,
     Index, Status

\* The empty ring satisfies the invariant.
LEMMA InitRingInv == new => RingInv
<1>. SUFFICES ASSUME new PROVE RingInv
  OBVIOUS
<1>1. RingTypeOK
  BY SizeAssumption, ZeroAssumption DEF new, RingTypeOK, Index, Status
<1>2. StatusResolvesAmbiguity /\ LoopStaysInBounds
  BY DEF new, StatusResolvesAmbiguity, LoopStaysInBounds
<1>. QED BY <1>1, <1>2 DEF RingInv

\* Starting a read preserves it.
LEMMA ReadKeepsRingInv ==
  ASSUME RingInv, NEW len \in 0..MAX_BUF, read(len)
  PROVE  RingInv'
<1>. USE DEF RingInv
<1>1. /\ available_read \in 0..RING_BUFFER_SIZE
      /\ available_read' = available_read
  BY AvailableAddsUp DEF read, available_read
<1>2. min(available_read, len) \in Nat /\ min(available_read, len) <= available_read
  BY <1>1, BufAssumption, SizeAssumption DEF min
<1>3. RingTypeOK'
  BY <1>2 DEF read, RingTypeOK
<1>4. StatusResolvesAmbiguity'
  BY DEF read, StatusResolvesAmbiguity
<1>5. LoopStaysInBounds'
  BY <1>1, <1>2 DEF read, LoopStaysInBounds
<1>. QED BY <1>3, <1>4, <1>5

\* Starting a write preserves it.
LEMMA WriteKeepsRingInv ==
  ASSUME RingInv, NEW buf \in Buf, write(buf)
  PROVE  RingInv'
<1>. USE DEF RingInv
<1>1. /\ available_write \in Nat
      /\ available_write' = available_write
  BY AvailableAddsUp, SizeAssumption DEF write, available_write, available_read
<1>2. buf \in Seq(Byte) /\ Len(buf) \in Nat
  BY BufAssumption DEF Buf
<1>3. /\ min(available_write, Len(buf)) \in Nat
      /\ min(available_write, Len(buf)) <= available_write
      /\ min(available_write, Len(buf)) <= Len(buf)
  BY <1>1, <1>2 DEF min
<1>4. RingTypeOK'
  BY <1>2, <1>3 DEF write, RingTypeOK
<1>5. StatusResolvesAmbiguity'
  BY DEF write, StatusResolvesAmbiguity
<1>6. LoopStaysInBounds'
  BY <1>1, <1>3 DEF write, LoopStaysInBounds
<1>. QED BY <1>4, <1>5, <1>6

\* One iteration of the read loop preserves it.
LEMMA ReadByteKeepsRingInv ==
  ASSUME RingInv, read_byte
  PROVE  RingInv'
<1>. USE DEF RingInv
<1>1. /\ head \in Index /\ tail \in Index /\ status \in Status
      /\ op.i \in Nat /\ op.n \in Nat /\ op.i < op.n /\ op.fn = "read"
  BY DEF RingTypeOK, read_byte, returned
<1>2. head' = IF head + 1 = RING_BUFFER_SIZE THEN 0 ELSE head + 1
  BY <1>1, WrapNext DEF read_byte
<1>3. head' \in Index /\ tail' = tail /\ status' = IF head' = tail THEN "EMPTY" ELSE "NORMAL"
  BY <1>1, <1>2, SizeAssumption DEF read_byte, Index
<1>4. /\ op'.fn = "read" /\ op'.n = op.n /\ op'.i = op.i + 1
      /\ op'.buf = Append(op.buf, arr[head])
      /\ op' \in [fn : {"none", "read", "write"}, buf : Seq(Byte), i : Nat, n : Nat]
  BY <1>1 DEF read_byte, RingTypeOK
<1>5. RingTypeOK'
  BY <1>1, <1>3, <1>4 DEF read_byte, RingTypeOK, Status
<1>6. StatusResolvesAmbiguity'
  BY <1>1, <1>3 DEF StatusResolvesAmbiguity
<1>7. available_read \in 1..RING_BUFFER_SIZE /\ status # "EMPTY"
  BY <1>1, AvailableAddsUp, SizeAssumption DEF LoopStaysInBounds
<1>8. available_read' = available_read - 1
  BY <1>1, <1>2, <1>3, <1>7, SizeAssumption
     DEF available_read, StatusResolvesAmbiguity, Index, Status
<1>9. LoopStaysInBounds'
  BY <1>1, <1>4, <1>7, <1>8, SizeAssumption DEF LoopStaysInBounds
<1>. QED BY <1>5, <1>6, <1>9

\* One iteration of the write loop preserves it.
LEMMA WriteByteKeepsRingInv ==
  ASSUME RingInv, write_byte
  PROVE  RingInv'
<1>. USE DEF RingInv
<1>1. /\ head \in Index /\ tail \in Index /\ status \in Status
      /\ op.i \in Nat /\ op.n \in Nat /\ op.i < op.n /\ op.fn = "write"
      /\ op.n <= Len(op.buf) /\ op.buf \in Seq(Byte)
  BY DEF RingTypeOK, write_byte, returned
<1>2. tail' = IF tail + 1 = RING_BUFFER_SIZE THEN 0 ELSE tail + 1
  BY <1>1, WrapNext DEF write_byte
<1>3. tail' \in Index /\ head' = head /\ status' = IF tail' = head THEN "FULL" ELSE "NORMAL"
  BY <1>1, <1>2, SizeAssumption DEF write_byte, Index
<1>4. /\ op'.fn = "write" /\ op'.n = op.n /\ op'.i = op.i + 1 /\ op'.buf = op.buf
      /\ op' \in [fn : {"none", "read", "write"}, buf : Seq(Byte), i : Nat, n : Nat]
  BY <1>1 DEF write_byte, RingTypeOK
<1>5. op.buf[op.i + 1] \in Byte
  BY <1>1
<1>6. arr' \in [Index -> Byte]
  BY <1>5 DEF write_byte, RingTypeOK
<1>7. RingTypeOK'
  BY <1>1, <1>3, <1>4, <1>6 DEF RingTypeOK, Status
<1>8. StatusResolvesAmbiguity'
  BY <1>1, <1>3 DEF StatusResolvesAmbiguity
<1>9. available_read \in 0..(RING_BUFFER_SIZE - 1) /\ status # "FULL"
  BY <1>1, AvailableAddsUp, SizeAssumption DEF LoopStaysInBounds
<1>10. available_read' = available_read + 1
  BY <1>1, <1>2, <1>3, <1>9, SizeAssumption
     DEF available_read, StatusResolvesAmbiguity, Index, Status
<1>11. available_write' = available_write - 1
  <2>1. available_write = RING_BUFFER_SIZE - available_read
    BY AvailableAddsUp
  <2>2. available_write' = RING_BUFFER_SIZE - available_read'
    <3>1. CASE tail' = head
      BY <3>1, <1>1, <1>3, SizeAssumption DEF available_write, available_read, Index
    <3>2. CASE tail' # head
      BY <3>2, <1>3 DEF available_write
    <3>. QED BY <3>1, <3>2
  <2>. QED BY <2>1, <2>2, <1>9, <1>10, SizeAssumption
<1>12. LoopStaysInBounds'
  <2>1. available_write \in Nat
    BY <1>9, AvailableAddsUp, SizeAssumption
  <2>. QED BY <1>1, <1>4, <1>11, <2>1 DEF LoopStaysInBounds
<1>. QED BY <1>7, <1>8, <1>12

\* A stuttering step preserves it.
LEMMA StutterKeepsRingInv ==
  ASSUME RingInv, UNCHANGED ringVars
  PROVE  RingInv'
  BY DEF RingInv, RingTypeOK, StatusResolvesAmbiguity, LoopStaysInBounds, ringVars,
     available_read, available_write

\* The inductive invariant holds in every state of every behaviour.
THEOREM RingInvariant == RingSpec => []RingInv
<1>1. new => RingInv
  BY InitRingInv
<1>2. RingInv /\ [RingNext]_ringVars => RingInv'
  BY ReadKeepsRingInv, WriteKeepsRingInv, ReadByteKeepsRingInv, WriteByteKeepsRingInv,
     StutterKeepsRingInv DEF RingNext
<1>. QED BY <1>1, <1>2, PTL DEF RingSpec

\* The fields of the ring buffer keep their types: in particular head and
\* tail, which index the array unchecked, stay inside it.
THEOREM RingTypeCorrect == RingSpec => []RingTypeOK
<1>1. RingInv => RingTypeOK
  BY DEF RingInv
<1>. QED BY <1>1, RingInvariant, PTL

\* status says NORMAL exactly when head and tail differ.
THEOREM RingStatus == RingSpec => []StatusResolvesAmbiguity
<1>1. RingInv => StatusResolvesAmbiguity
  BY DEF RingInv
<1>. QED BY <1>1, RingInvariant, PTL

\* The loops of read and write, which check nothing, never run past the bytes
\* that are there or the space that is free.
THEOREM RingLoopsInBounds == RingSpec => []LoopStaysInBounds
<1>1. RingInv => LoopStaysInBounds
  BY DEF RingInv
<1>. QED BY <1>1, RingInvariant, PTL
=============================================================================
