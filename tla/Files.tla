------------------------------- MODULE Files --------------------------------
(***************************************************************************)
(* What reading and writing files promises: a file is a sequence of bytes,  *)
(* an open file has a position in it, and a call moves some of the bytes it  *)
(* is asked to move.  What was written is there for everybody at once; the   *)
(* length on the disk catches up when the last user of the file has closed   *)
(* it, and is all of the file that a power loss leaves.  A power loss can    *)
(* leave part of a write in the bytes that were there, and can damage a file *)
(* that was growing from nothing: it is empty, and writing to it makes the    *)
(* whole volume void.                                                        *)
(***************************************************************************)
EXTENDS Naturals, Sequences, FiniteSets

CONSTANTS File, DFile, Flags, Bufs, Lens, MAX_FILE_SIZE,
          InitialContent   \* the bytes of each file at the start

VARIABLES content,   \* the bytes of each file
          durable,   \* the length of it that is on the disk
          opened,    \* [file, flags, pos] of each open file; file "none" when closed
          ret,       \* the call that returned last, with its result
          pending,   \* [dfile, buf] of the write in progress, or idle
          damaged,   \* the files a power loss has damaged
          void       \* whether one of them was written to: nothing is promised

filesVars == <<content, durable, opened, ret, pending, damaged, void>>

Closed == [file |-> "none", flags |-> "none", pos |-> 0]

users(f) == {d \in DFile : opened[d].file = f}

nothing == [fn |-> "none"]
idle == [at |-> "none"]

\* s with the bytes from position p on replaced, and extended, by the given ones.
splice(s, p, bytes) ==
  [i \in 1..(IF p + Len(bytes) > Len(s) THEN p + Len(bytes) ELSE Len(s)) |->
     IF i > p /\ i <= p + Len(bytes) THEN bytes[i - p] ELSE s[i]]

FilesInit == /\ content = InitialContent
             /\ durable = [f \in File |-> Len(InitialContent[f])]
             /\ opened = [d \in DFile |-> Closed]
             /\ ret = nothing
             /\ pending = idle
             /\ damaged = {}
             /\ void = FALSE

Open(d, f, fl) ==
  /\ pending = idle
  /\ opened[d] = Closed
  /\ opened' = [opened EXCEPT ![d] = [file |-> f, flags |-> fl, pos |-> 0]]
  /\ ret' = nothing
  /\ UNCHANGED <<content, durable, pending, damaged, void>>

\* Some of the next bytes; none only at the end, or when none are asked for.
Read(d, n) ==
  LET f == opened[d].file
      p == opened[d].pos
  IN  /\ pending = idle
      /\ opened[d] # Closed
      /\ opened[d].flags # "O_WRONLY"
      /\ ret'.fn = "read"
      /\ \E k \in 0..n :
           /\ opened' = [opened EXCEPT ![d] = [@ EXCEPT !.pos = p + k]]
           /\ p + k <= Len(content[f])
           /\ ret' = [fn |-> "read", bytes |-> SubSeq(content[f], p + 1, p + k)]
           /\ k = 0 => n = 0 \/ p = Len(content[f])
      /\ UNCHANGED <<content, durable, pending, damaged, void>>

\* The first bytes of the buffer are to go to the position; none only when none
\* are given or the file is as long as a file can be.
StartWrite(d, buf) ==
  /\ pending = idle
  /\ opened[d] # Closed
  /\ opened[d].flags # "O_RDONLY"
  /\ \E k \in 0..Len(buf) :
       IF k = 0
       THEN /\ buf = <<>> \/ opened[d].pos = MAX_FILE_SIZE
            /\ ret' = [fn |-> "write", n |-> 0]
            /\ UNCHANGED pending
       ELSE /\ opened[d].file \notin damaged
            /\ pending' = [dfile |-> d, buf |-> SubSeq(buf, 1, k)]
            /\ UNCHANGED ret
  /\ UNCHANGED <<content, durable, opened, damaged, void>>

\* A damaged file is written to.
Spoil(d) == /\ opened[d] # Closed
            /\ opened[d].flags # "O_RDONLY"
            /\ opened[d].file \in damaged
            /\ void' = TRUE

\* Some of them are there; the file does not grow yet.
Overwrite ==
  /\ pending # idle
  /\ LET f == opened[pending.dfile].file
         p == opened[pending.dfile].pos
     IN  \E k \in 1..Len(pending.buf) :
           content' = [content EXCEPT ![f] =
                         SubSeq(splice(@, p, SubSeq(pending.buf, 1, k)), 1, Len(@))]
  /\ UNCHANGED <<durable, opened, ret, pending, damaged, void>>

\* All of them are.
FinishWrite ==
  /\ pending # idle
  /\ LET d == pending.dfile
         n == Len(pending.buf)
     IN  /\ content' = [content EXCEPT ![opened[d].file] = splice(@, opened[d].pos, pending.buf)]
         /\ opened' = [opened EXCEPT ![d] = [@ EXCEPT !.pos = @ + n]]
         /\ ret' = [fn |-> "write", n |-> n]
  /\ pending' = idle
  /\ UNCHANGED <<durable, damaged, void>>

\* A call the file is not open for, or a write for which the disk has no room.
Refuse(d, fn) == /\ opened[d] # Closed
                 /\ pending # idle => fn = "write" /\ pending.dfile = d
                 /\ fn = "read" => opened[d].flags = "O_WRONLY"
                 /\ ret' = [fn |-> fn, err |-> TRUE]
                 /\ pending' = idle
                 /\ UNCHANGED <<opened, durable, content, damaged, void>>

Close(d) == /\ pending = idle
            /\ opened[d] # Closed
            /\ opened' = [opened EXCEPT ![d] = Closed]
            /\ ret' = nothing
            /\ UNCHANGED <<durable, content, pending, damaged, void>>

\* The length of a file nobody has open reaches the disk.
Sync(f) == /\ users(f) = {}
           /\ UNCHANGED <<opened, ret, pending, damaged, void>>
           /\ durable' = [durable EXCEPT ![f] = Len(content[f])]
           /\ UNCHANGED content

\* stat reports what is on the disk.
Stat(f) == /\ pending = idle
           /\ ret' = [fn |-> "stat", n |-> durable[f]]
           /\ UNCHANGED <<opened, durable, content, pending, damaged, void>>

\* At most one file is damaged: one that is empty on the disk, and whose length
\* was about to get there.
PowerLoss ==
  /\ opened' = [d \in DFile |-> Closed]
  /\ ret' = nothing
  /\ pending' = idle
  /\ content' = [f \in File |-> SubSeq(content[f], 1, durable[f])]
  /\ \E caught \in SUBSET {f \in File : users(f) = {} /\ durable[f] = 0 /\ content[f] # <<>>} :
       Cardinality(caught) <= 1 /\ damaged' = damaged \cup caught
  /\ UNCHANGED <<durable, void>>

FilesNext ==
  \/ void /\ void' = TRUE
  \/ \E d \in DFile :
       \/ \E f \in File, fl \in Flags[d] : Open(d, f, fl)
       \/ \E n \in Lens : Read(d, n)
       \/ \E buf \in Bufs : StartWrite(d, buf)
       \/ Spoil(d)
       \/ Close(d)
       \/ \E fn \in {"read", "write"} : Refuse(d, fn)
  \/ Overwrite \/ FinishWrite
  \/ \E f \in File : Sync(f) \/ Stat(f)
  \/ PowerLoss

FilesSpec == FilesInit /\ [][FilesNext]_filesVars
=============================================================================
