------------------------------ MODULE FatFile -------------------------------
(***************************************************************************)
(* Reading and writing files: the open files with their positions           *)
(* (kernel/src/fs/dfile.rs), the inode and the fatfs File it owns            *)
(* (fs/inode.rs, deps/rust-fatfs/src/file.rs), the allocation table           *)
(* (table.rs) and the block storage below (fs/fat.rs).  The files of the      *)
(* volume exist at the start: open takes no notice of O_CREATE and O_TRUNC.  *)
(*                                                                          *)
(* A call runs with interrupts off, but the machine can lose power between   *)
(* any two writes to the disk, so a write to the table, to a block of the    *)
(* data and to a field of a directory entry are steps of their own; a block  *)
(* is written as a whole.  The number of the first cluster is in two fields. *)
(* A file has one inode (see InodeCache for when it has).                    *)
(***************************************************************************)
EXTENDS Integers, Sequences, FiniteSets

CONSTANTS File,             \* the files of the volume
          DFile,            \* the open files there can be
          Flags,            \* the ways each of them can be opened
          SECTOR,           \* bytes of a block, 512 in the code
          CLUSTER_SIZE,     \* bytes of a cluster, a number of sectors
          TOTAL_CLUSTERS,
          HALF,             \* the numbers that fit first_cluster_lo, 2^16 in the code
          InitialSize,      \* the size of each file at the start
          InitialChain,     \* and its clusters
          INITIAL_HINT,     \* next_free_cluster on the disk, 0 for None
          MAX_FILE_SIZE,    \* u32::MAX in the code
          Lens,             \* the lengths of the buffers of the calls
          MAX_WRITES,       \* bound: calls of write
          MAX_RESTARTS      \* bound: power losses

ASSUME FatAssumption ==
  /\ SECTOR \in Nat \ {0} /\ CLUSTER_SIZE \in Nat \ {0} /\ CLUSTER_SIZE % SECTOR = 0
  /\ Flags \in [DFile -> SUBSET {"O_RDONLY", "O_WRONLY", "O_RDWR"}]
  /\ TOTAL_CLUSTERS \in Nat /\ HALF \in Nat \ {0, 1} /\ MAX_FILE_SIZE \in Nat /\ Lens \subseteq Nat
  /\ InitialSize \in [File -> 0..MAX_FILE_SIZE]
  /\ InitialChain \in [File -> Seq(2..(TOTAL_CLUSTERS + 1))]
  /\ \A f, g \in File : \A i \in 1..Len(InitialChain[f]), j \in 1..Len(InitialChain[g]) :
       InitialChain[f][i] = InitialChain[g][j] => f = g /\ i = j
  /\ \A f \in File : Len(InitialChain[f]) * CLUSTER_SIZE >= InitialSize[f]
  /\ INITIAL_HINT \in {0} \cup 2..(TOTAL_CLUSTERS + 2)

VARIABLES storage,   \* the bytes of each sector of the data area
          fat,       \* the entry of each cluster
          dentry,    \* [first, size] in the directory entry of each file
          hint,      \* FsInfoSector.next_free_cluster, 0 for None
          file,      \* the fatfs File of each live inode, or None
          dfile,     \* the open files
          call,      \* the call in progress
          ret,       \* the call that returned last, with its result
          count,     \* the calls of write and the power losses so far
          torn,      \* history: the files whose entry has half a cluster number
          spread     \* history: whether such a file was written to

tearVars == <<torn, spread>>
fatVars == <<storage, fat, dentry, hint, file, dfile, call, ret, count, tearVars>>

RESERVED_FAT_ENTRIES == 2
end_cluster == TOTAL_CLUSTERS + RESERVED_FAT_ENTRIES
Cluster == RESERVED_FAT_ENTRIES..(end_cluster - 1)
Free == 0
EndOfChain == 1

lower(a, b) == IF a <= b THEN a ELSE b

\* Byte k of the buffer of the w-th write; what the files hold at the start.
Blank == <<0, 0>>
data(w, n) == [k \in 1..n |-> <<w, k>>]

Closed == [file |-> "none", flags |-> "none", pos |-> 0]
None == [first |-> 0, cur |-> 0, offset |-> 0, size |-> -1]
no_call == [at |-> "none"]
nothing == [fn |-> "none"]

\* The entry of cluster c in a table that has the initial chains.
initial_entry(c) ==
  IF \A f \in File : \A i \in 1..Len(InitialChain[f]) : InitialChain[f][i] # c THEN Free
  ELSE LET f == CHOOSE f \in File : \E i \in 1..Len(InitialChain[f]) : InitialChain[f][i] = c
           i == CHOOSE i \in 1..Len(InitialChain[f]) : InitialChain[f][i] = c
       IN  IF i = Len(InitialChain[f]) THEN EndOfChain ELSE InitialChain[f][i + 1]

FatFileInit ==
  /\ storage = [b \in 0..(((TOTAL_CLUSTERS * CLUSTER_SIZE) \div SECTOR) - 1) |->
                  [o \in 0..(SECTOR - 1) |-> Blank]]
  /\ fat = [c \in Cluster |-> initial_entry(c)]
  /\ dentry = [f \in File |-> [first |-> IF InitialChain[f] = <<>> THEN 0 ELSE InitialChain[f][1],
                               size |-> InitialSize[f]]]
  /\ hint = INITIAL_HINT
  /\ file = [f \in File |-> None]
  /\ dfile = [d \in DFile |-> Closed]
  /\ call = no_call
  /\ ret = nothing
  /\ count = [writes |-> 0, restarts |-> 0]
  /\ torn = {}
  /\ spread = FALSE

-----------------------------------------------------------------------------
\* BlkStorage::read: block by block, from pos up to max.
BlkStorage_read(pos, max) ==
  LET from[p \in pos..max] ==
        IF p = max THEN <<>>
        ELSE LET len == lower(max - p, SECTOR - (p % SECTOR))
             IN  [k \in 1..len |-> storage[p \div SECTOR][(p % SECTOR) + k - 1]] \o from[p + len]
  IN  from[pos]

\* The bytes that one iteration of BlkStorage::write moves when it is at pos.
real_write_len(pos, buf) == lower(Len(buf), SECTOR - (pos % SECTOR))

\* Faulty variant: a block is written without having been read.
write_block_no_read(pos, buf) ==
  [storage EXCEPT ![pos \div SECTOR] =
     [o \in 0..(SECTOR - 1) |-> IF o >= pos % SECTOR /\ o < (pos % SECTOR) + real_write_len(pos, buf)
                                THEN buf[o - (pos % SECTOR) + 1] ELSE Blank]]

\* One iteration of BlkStorage::write: the block is read, changed from b_off on
\* and written back.
write_block(pos, buf) ==
  [storage EXCEPT ![pos \div SECTOR] =
     [o \in 0..(SECTOR - 1) |-> IF o >= pos % SECTOR /\ o < (pos % SECTOR) + real_write_len(pos, buf)
                                THEN buf[o - (pos % SECTOR) + 1] ELSE @[o]]]

offset_from_cluster(c) == (c - RESERVED_FAT_ENTRIES) * CLUSTER_SIZE
clusters_from_bytes(n) == (n + CLUSTER_SIZE - 1) \div CLUSTER_SIZE

\* ClusterIterator: the cluster after c, or 0.
get_next_cluster(c) == IF fat[c] \in Cluster THEN fat[c] ELSE 0

\* The iteration of File::seek: where n steps along the chain from c lead, and
\* how many of them there were.
skip(c, n) ==
  LET at[i \in 0..n] ==
        IF i = 0 THEN [cluster |-> c, steps |-> 0]
        ELSE IF at[i - 1].steps < i - 1 \/ get_next_cluster(at[i - 1].cluster) = 0 THEN at[i - 1]
        ELSE [cluster |-> get_next_cluster(at[i - 1].cluster), steps |-> i]
  IN  at[n]

\* Faulty variant: the cluster that is current is kept.
seek_keeps_cluster(f, pos) == [f EXCEPT !.offset = lower(pos, f.size)]

\* File::seek(SeekFrom::Start(pos)).  A position on the border of two clusters
\* is in the first of them.
seek(f, pos) ==
  LET new == lower(pos, f.size)
      n == clusters_from_bytes(new)
      s == skip(f.first, n - 1)
  IN  IF new = f.offset THEN f
      ELSE IF new = 0 THEN [f EXCEPT !.offset = 0, !.cur = 0]
      ELSE IF n = clusters_from_bytes(f.offset) THEN [f EXCEPT !.offset = new]
      ELSE IF f.first = 0 THEN [f EXCEPT !.offset = 0, !.cur = 0]
      ELSE [f EXCEPT !.cur = s.cluster,
                     !.offset = IF s.steps = n - 1 THEN new ELSE (s.steps + 1) * CLUSTER_SIZE]

\* Where the next byte goes: the cluster, or 0 when the chain has to grow.
cluster_at(f) ==
  IF f.offset % CLUSTER_SIZE # 0 THEN f.cur
  ELSE IF f.cur = 0 THEN f.first ELSE get_next_cluster(f.cur)

left_in_cluster(f) == CLUSTER_SIZE - (f.offset % CLUSTER_SIZE)
disk_pos(f, c) == offset_from_cluster(c) + (f.offset % CLUSTER_SIZE)

-----------------------------------------------------------------------------
between_calls == call = no_call
readable(d) == dfile[d].flags # "O_WRONLY"
writeable(d) == dfile[d].flags # "O_RDONLY"
users(f) == {d \in DFile : dfile[d].file = f}

\* sys_openat: the inode is there, or is made from the directory entry.
open_path(d, f, flags) ==
  /\ between_calls
  /\ dfile[d] = Closed
  /\ dfile' = [dfile EXCEPT ![d] = [file |-> f, flags |-> flags, pos |-> 0]]
  /\ file' = IF file[f] # None THEN file
             ELSE [file EXCEPT ![f] = [first |-> dentry[f].first, cur |-> 0, offset |-> 0,
                                       size |-> dentry[f].size]]
  /\ ret' = nothing
  /\ UNCHANGED <<storage, fat, dentry, hint, call, count, tearVars>>

\* DFile::read, Inode::read_off, File::seek and File::read.
read_off(d, len) ==
  LET f == seek(file[dfile[d].file], dfile[d].pos)
      c == cluster_at(f)
      n == lower(len, lower(left_in_cluster(f), f.size - f.offset))
      k == IF c = 0 THEN 0 ELSE n
  IN  /\ between_calls
      /\ dfile[d] # Closed
      /\ IF ~readable(d) THEN ret' = [fn |-> "read", err |-> TRUE] /\ UNCHANGED <<file, dfile>>
         ELSE /\ ret' = [fn |-> "read",
                         bytes |-> BlkStorage_read(disk_pos(f, c), disk_pos(f, c) + k)]
              /\ file' = [file EXCEPT ![dfile[d].file] =
                            IF k = 0 THEN f ELSE [f EXCEPT !.offset = @ + k, !.cur = c]]
              /\ dfile' = [dfile EXCEPT ![d].pos = @ + k]
      /\ UNCHANGED <<storage, fat, dentry, hint, call, count, tearVars>>

\* DFile::write, Inode::write_off and File::write up to the first write to the
\* disk: the File is at the position, and the cluster is known or wanted.
write_off(d, len) ==
  LET f == seek(file[dfile[d].file], dfile[d].pos)
      n == lower(lower(len, left_in_cluster(f)), MAX_FILE_SIZE - f.offset)
  IN  /\ between_calls
      /\ dfile[d] # Closed
      /\ IF ~writeable(d)
         THEN ret' = [fn |-> "write", err |-> TRUE] /\ UNCHANGED <<file, call, count>>
         ELSE /\ count.writes < MAX_WRITES
              /\ count' = [count EXCEPT !.writes = @ + 1]
              /\ file' = [file EXCEPT ![dfile[d].file] = f]
              /\ IF n = 0 THEN ret' = [fn |-> "write", n |-> 0] /\ UNCHANGED call
                 ELSE /\ call' = [at |-> IF cluster_at(f) # 0 THEN "data"
                                         ELSE IF f.offset % CLUSTER_SIZE = 0 THEN "find"
                                         ELSE "panic",
                                  dfile |-> d, buf |-> data(count.writes + 1, n),
                                  cluster |-> cluster_at(f), done |-> 0]
                      /\ UNCHANGED ret
      /\ spread' = (spread \/ (call' # no_call /\ dfile[d].file \in torn))
      /\ UNCHANGED <<storage, fat, dentry, hint, dfile, torn>>

writing(at) == call.at = at
its_name == dfile[call.dfile].file
its_file == file[its_name]

\* The first free cluster from a up to b - 1, or 0.
find_free(a, b) ==
  LET free == {c \in a..(b - 1) : fat[c] = Free}
  IN  IF free = {} THEN 0 ELSE CHOOSE c \in free : \A e \in free : c <= e

\* From the hint to the end, then from the start to the hint.
find_free_cluster ==
  LET start == IF hint # 0 /\ hint < end_cluster THEN hint ELSE RESERVED_FAT_ENTRIES
      late == find_free(start, end_cluster)
  IN  IF late = 0 /\ start > RESERVED_FAT_ENTRIES
      THEN find_free(RESERVED_FAT_ENTRIES, start) ELSE late

\* alloc_cluster up to its first write: the new cluster ends a chain.  With no
\* free cluster the call fails.
alloc_cluster ==
  /\ writing("find")
  /\ IF find_free_cluster = 0
     THEN /\ call' = no_call
          /\ ret' = [fn |-> "write", err |-> TRUE]
          /\ UNCHANGED fat
     ELSE /\ fat' = [fat EXCEPT ![find_free_cluster] = EndOfChain]
          /\ call' = [call EXCEPT !.at = "link", !.cluster = find_free_cluster]
          /\ UNCHANGED ret
  /\ UNCHANGED <<storage, dentry, hint, file, dfile, count, tearVars>>

\* Its second write, when the file has a chain; the hint; set_first_cluster.
link_cluster ==
  /\ writing("link")
  /\ fat' = IF its_file.cur = 0 THEN fat ELSE [fat EXCEPT ![its_file.cur] = call.cluster]
  /\ hint' = call.cluster + 1
  /\ file' = IF its_file.first # 0 THEN file
             ELSE [file EXCEPT ![its_name].first = call.cluster]
  /\ call' = [call EXCEPT !.at = "data"]
  /\ UNCHANGED <<storage, dentry, dfile, ret, count, tearVars>>

\* One block of the data; with the last one the offset, the size and the
\* position of the open file.
write_data ==
  LET f == its_file
      pos == disk_pos(f, call.cluster) + call.done
      rest == SubSeq(call.buf, call.done + 1, Len(call.buf))
      done == call.done + real_write_len(pos, rest)
      end == f.offset + Len(call.buf)
  IN  /\ writing("data")
      /\ storage' = write_block(pos, rest)
      /\ IF done < Len(call.buf)
         THEN call' = [call EXCEPT !.done = done] /\ UNCHANGED <<file, dfile, ret>>
         ELSE /\ file' = [file EXCEPT ![its_name] =
                            [f EXCEPT !.offset = end, !.cur = call.cluster,
                                      !.size = IF end > @ THEN end ELSE @]]
              /\ dfile' = [dfile EXCEPT ![call.dfile].pos = @ + Len(call.buf)]
              /\ ret' = [fn |-> "write", n |-> Len(call.buf)]
              /\ call' = no_call
      /\ UNCHANGED <<fat, dentry, hint, count, tearVars>>

\* The last reference to an open file goes; with it, when no other open file
\* is of that inode, the inode and its File, whose Drop flushes the entry.
close(d) ==
  LET f == dfile[d].file
  IN  /\ between_calls
      /\ dfile[d] # Closed
      /\ dfile' = [dfile EXCEPT ![d] = Closed]
      /\ call' = IF users(f) = {d} THEN [at |-> "flush hi", file |-> f] ELSE call
      /\ ret' = nothing
      /\ UNCHANGED <<storage, fat, dentry, hint, file, count, tearVars>>

\* Faulty variant: the size is written before the first cluster.
flush_hi_after_size ==
  /\ writing("flush hi")
  /\ dentry' = [dentry EXCEPT ![call.file].size = file[call.file].size]
  /\ call' = [call EXCEPT !.at = "flush lo"]
  /\ UNCHANGED <<storage, fat, hint, file, dfile, ret, count, tearVars>>

\* DirEntryEditor::flush writes the entry field by field: first_cluster_hi, ...
flush_hi ==
  /\ writing("flush hi")
  /\ dentry' = [dentry EXCEPT ![call.file].first =
                  (file[call.file].first \div HALF) * HALF + (@ % HALF)]
  /\ call' = [call EXCEPT !.at = "flush lo"]
  /\ UNCHANGED <<storage, fat, hint, file, dfile, ret, count, tearVars>>

\* ... first_cluster_lo, ...
flush_lo ==
  /\ writing("flush lo")
  /\ dentry' = [dentry EXCEPT ![call.file].first =
                  (@ \div HALF) * HALF + (file[call.file].first % HALF)]
  /\ call' = [call EXCEPT !.at = "flush size"]
  /\ UNCHANGED <<storage, fat, hint, file, dfile, ret, count, tearVars>>

\* ... and the size last.
flush_size ==
  /\ writing("flush size")
  /\ dentry' = [dentry EXCEPT ![call.file].size = file[call.file].size]
  /\ file' = [file EXCEPT ![call.file] = None]
  /\ call' = no_call
  /\ UNCHANGED <<storage, fat, hint, dfile, ret, count, tearVars>>

\* The entry that has the upper half of its new first cluster and not the lower
\* one: a number that is neither the old one nor the new one.
half_written ==
  {f \in File : writing("flush lo") /\ call.file = f
                /\ dentry[f].first \notin {0, file[f].first}}

\* sys_newfstatat: fill_stat takes the length from the directory entry.
fill_stat(f) ==
  /\ between_calls
  /\ ret' = [fn |-> "stat", n |-> dentry[f].size]
  /\ UNCHANGED <<storage, fat, dentry, hint, file, dfile, call, count, tearVars>>

\* The machine is switched off and on.  The file system is never unmounted, so
\* the hint on the disk is the one of the start.
power_loss ==
  /\ count.restarts < MAX_RESTARTS
  /\ count' = [count EXCEPT !.restarts = @ + 1]
  /\ hint' = INITIAL_HINT
  /\ file' = [f \in File |-> None]
  /\ dfile' = [d \in DFile |-> Closed]
  /\ call' = no_call
  /\ ret' = nothing
  /\ torn' = torn \cup half_written
  /\ UNCHANGED <<storage, fat, dentry, spread>>

FatFileNext ==
  \/ \E d \in DFile :
       \/ \E f \in File, fl \in Flags[d] : open_path(d, f, fl)
       \/ \E n \in Lens : read_off(d, n) \/ write_off(d, n)
       \/ close(d)
  \/ alloc_cluster \/ link_cluster \/ write_data
  \/ flush_hi \/ flush_lo \/ flush_size
  \/ \E f \in File : fill_stat(f)
  \/ power_loss

FatFileSpec == FatFileInit /\ [][FatFileNext]_fatVars

-----------------------------------------------------------------------------
\* The clusters of the chain from c, in order: at most as many as there are.
chain(c) ==
  LET upto[n \in 0..TOTAL_CLUSTERS] ==
        IF n = 0 \/ c = 0 THEN <<>>
        ELSE IF n = 1 THEN <<c>>
        ELSE LET s == upto[n - 1]
                 next == get_next_cluster(s[Len(s)])
             IN  IF next = 0 \/ Len(s) < n - 1 THEN s ELSE Append(s, next)
  IN  upto[TOTAL_CLUSTERS]

\* A chain that ends, of clusters that are allocated, none of them twice, with
\* room for size bytes.
sound(c, size) ==
  LET s == chain(c)
  IN  /\ \A i, j \in 1..Len(s) : s[i] = s[j] => i = j
      /\ s # <<>> => fat[s[Len(s)]] = EndOfChain
      /\ size <= Len(s) * CLUSTER_SIZE

clusters(c) == LET s == chain(c) IN {s[i] : i \in 1..Len(s)}

\* The types of the variables.
FatTypeOK ==
  /\ fat \in [Cluster -> {Free, EndOfChain} \cup Cluster]
  /\ dentry \in [File -> [first : {0} \cup Cluster, size : 0..MAX_FILE_SIZE]]
  /\ hint \in {0} \cup 2..end_cluster
  /\ \A f \in File : file[f] # None =>
       file[f] \in [first : {0} \cup Cluster, cur : {0} \cup Cluster,
                    offset : 0..MAX_FILE_SIZE, size : 0..MAX_FILE_SIZE]
  /\ \A d \in DFile : dfile[d] # Closed => dfile[d].file \in File /\ file[dfile[d].file] # None

\* The cursor of a File is where its offset says, whoever moved it last: its
\* current cluster is the one of the chain that holds the byte before it.
CursorInPlace ==
  \A f \in File : file[f] # None =>
    /\ f \in torn \/ sound(file[f].first, file[f].size)
    /\ file[f].offset <= file[f].size
    /\ file[f].cur = IF file[f].offset = 0 THEN 0
                     ELSE chain(file[f].first)[clusters_from_bytes(file[f].offset)]

\* No read or write reaches for a cluster that is not there (the panic "Offset
\* inside cluster but no cluster allocated"), and no position is past the end
\* of its file, however the open files of one inode take turns with its one
\* cursor; until a file is written to whose entry was left half written.
FatInv ==
  /\ FatTypeOK
  /\ ~spread =>
       /\ CursorInPlace /\ ~writing("panic")
       /\ \A d \in DFile : dfile[d] # Closed => dfile[d].pos <= file[dfile[d].file].size

\* Whenever the power goes, every directory entry is left with a chain that is
\* long enough for its size, and no cluster belongs to two files.  The one
\* exception is an entry caught between the two halves of its first cluster: it
\* names a cluster that is not its own, but as that of an empty file, and the
\* others are sound until somebody writes to it.
PowerLossLeavesVolumeSound ==
  LET damaged == torn \cup half_written
      whole == File \ damaged
  IN  ~spread =>
        /\ \A f \in damaged : dentry[f].size = 0 /\ dentry[f].first % HALF = 0
        /\ \A f \in whole : sound(dentry[f].first, dentry[f].size)
        /\ \A f, g \in whole :
             f # g => clusters(dentry[f].first) \cap clusters(dentry[g].first) = {}

-----------------------------------------------------------------------------
\* What the kernel takes a file for; its n-th cluster; its bytes.
now(f) == IF file[f] # None THEN [first |-> file[f].first, size |-> file[f].size] ELSE dentry[f]

cluster_of(c, n) ==
  LET at[i \in 0..n] == IF i = 0 THEN c ELSE get_next_cluster(at[i - 1])
  IN  at[n]

byte_at(pos) == storage[pos \div SECTOR][pos % SECTOR]

bytes_of(f) ==
  [i \in 1..now(f).size |->
     byte_at(offset_from_cluster(cluster_of(now(f).first, (i - 1) \div CLUSTER_SIZE))
               + ((i - 1) % CLUSTER_SIZE))]

\* The write in progress.
in_progress == IF call # no_call /\ "buf" \in DOMAIN call
               THEN [dfile |-> call.dfile, buf |-> call.buf] ELSE no_call

AllFiles == INSTANCE Files WITH
  InitialContent <- [f \in File |-> [i \in 1..InitialSize[f] |-> Blank]],
  Bufs <- {data(w, n) : w \in 1..MAX_WRITES, n \in Lens},
  content <- [f \in File |-> IF spread THEN <<>> ELSE bytes_of(f)],
  durable <- [f \in File |-> dentry[f].size],
  opened <- dfile,
  pending <- in_progress,
  damaged <- torn,
  void <- spread

\* Chains, the shared cursor and blocks that are read, changed and written back
\* implement files that are sequences of bytes: a read returns what is there at
\* the position of the open file, a write changes these bytes and no others,
\* of this file or another one, and a power loss in the middle of it leaves some
\* of the bytes that were there changed; the length on the disk is the one stat
\* reports.  Nothing is promised any more once a file is written to whose entry
\* a power loss has left half written.
ImplementsFiles == AllFiles!FilesSpec
=============================================================================
