------------------------------ MODULE FilePage ------------------------------
(***************************************************************************)
(* Filling the pages of a file mapping on a page fault:                    *)
(* VMA::_do_alloc_one_page (kernel/src/mm/vma.rs) and the two places that  *)
(* describe such a mapping, new_from_elf and sys_mmap.  The file is        *)
(* FILE_LEN bytes, and its byte at offset o is written o; a byte of a      *)
(* fresh frame that no read reached is Zero.  Addresses are offsets from   *)
(* the start of the mapping.                                               *)
(***************************************************************************)
EXTENDS Integers, FiniteSetsExt

CONSTANTS
  PAGE_SIZE, FILE_LEN,
  MAX_LEN,        \* bound on the length of a mapping, in bytes
  Offsets,        \* file offsets passed to mmap
  Makers          \* who makes the mapping: "elf", "mmap"

ASSUME FilePageAssumption ==
  /\ PAGE_SIZE \in Nat \ {0} /\ FILE_LEN \in Nat /\ MAX_LEN \in Nat
  /\ Offsets \subseteq Nat /\ Makers \subseteq {"elf", "mmap"}

Zero == -1

VARIABLES
  vma,      \* [len, file_off, file_in_vma_off, file_len]
  pages,    \* pages_tree: page address -> the bytes of its frame
  stopped   \* why the kernel panicked, or "no"

filePageVars == <<vma, pages, stopped>>

ceil(a) == ((a + PAGE_SIZE - 1) \div PAGE_SIZE) * PAGE_SIZE

\* A loadable segment: its first byte may lie anywhere in its first page, its
\* file part is inside the file, and its memory part is at least as long.
Segments ==
  {ph \in [offset : 0..(PAGE_SIZE - 1), ph_offset : 0..FILE_LEN, file_size : 0..FILE_LEN,
           mem_size : 1..MAX_LEN] :
     /\ ph.ph_offset + ph.file_size <= FILE_LEN
     /\ ph.file_size <= ph.mem_size
     /\ ceil(ph.mem_size + ph.offset) <= MAX_LEN}

elf_vma ==
  {[len |-> ceil(ph.mem_size + ph.offset), file_off |-> ph.ph_offset,
    file_in_vma_off |-> ph.offset, file_len |-> ph.file_size] : ph \in Segments}

\* The part of the mapping that is read from the file is min(len, file size),
\* whatever the offset is.
mmap_vma ==
  {[len |-> args.len, file_off |-> args.offset, file_in_vma_off |-> 0,
    file_len |-> Min({args.len, FILE_LEN})] :
     args \in [len : {l \in 1..MAX_LEN : l % PAGE_SIZE = 0}, offset : Offsets]}

FilePageInit ==
  /\ \/ "elf" \in Makers /\ vma \in elf_vma
     \/ "mmap" \in Makers /\ vma \in mmap_vma
  /\ pages = <<>>
  /\ stopped = "no"

\* Inode::read_off_exact: seeks (fatfs stops at the end of the file) and reads
\* until the buffer is full or nothing more comes.
read_off_exact(need, off) == Min({need, Max({0, FILE_LEN - off})})

\* Faulty variant: where the file part begins in the mapping is forgotten.
file_part_from_start(v) ==
  LET end == vma.file_in_vma_off + vma.file_len
      right == IF v + PAGE_SIZE <= end THEN PAGE_SIZE ELSE end - v
  IN IF v < end THEN [left |-> 0, right |-> right, off |-> v + vma.file_off]
                ELSE [left |-> 0, right |-> 0, off |-> 0]

\* The part left..right of page v that comes from the file, at offset off.
file_part(v) ==
  LET start == vma.file_in_vma_off
      end == vma.file_in_vma_off + vma.file_len
      right == IF v + PAGE_SIZE <= end THEN PAGE_SIZE ELSE end - v
  IN CASE v < start /\ v + PAGE_SIZE > start ->
            [left |-> start - v, right |-> right, off |-> vma.file_off]
       [] v >= start /\ v < end ->
            [left |-> 0, right |-> right, off |-> (v - start) + vma.file_off]
       [] OTHER -> [left |-> 0, right |-> 0, off |-> 0]

filled(part, real_read) ==
  [i \in 0..(PAGE_SIZE - 1) |->
     IF part.left <= i /\ i < part.left + real_read THEN part.off + (i - part.left) ELSE Zero]

\* The page is mapped before it is filled; the assertion comes after.
_do_alloc_one_page(v) ==
  LET part == file_part(v)
      need_read == part.right - part.left
      real_read == read_off_exact(need_read, part.off)
  IN /\ stopped = "no" /\ v \notin DOMAIN pages
     /\ pages' = [u \in DOMAIN pages \cup {v} |->
                    IF u = v THEN filled(part, real_read) ELSE pages[u]]
     /\ stopped' = IF real_read = need_read THEN "no" ELSE "assert"
     /\ UNCHANGED vma

page_addrs == {v \in 0..(vma.len - 1) : v % PAGE_SIZE = 0}

\* Every page is present, or the kernel has panicked: nothing is left to do.
idle == (stopped # "no" \/ DOMAIN pages = page_addrs) /\ UNCHANGED filePageVars

FilePageNext == (\E v \in page_addrs : _do_alloc_one_page(v)) \/ idle

FilePageSpec == FilePageInit /\ [][FilePageNext]_filePageVars

-----------------------------------------------------------------------------
\* The types of the variables.
FilePageTypeOK ==
  /\ DOMAIN pages \subseteq page_addrs
  /\ \A v \in DOMAIN pages : \A i \in 0..(PAGE_SIZE - 1) :
       pages[v][i] \in {Zero} \cup 0..(FILE_LEN - 1)
  /\ stopped \in {"no", "assert"}

\* Whatever the order in which the pages are touched, byte a of the mapping is
\* byte a - file_in_vma_off of the mapped part of the file, and zero before
\* and after that part (the bss of a program).
BytesInPlace ==
  stopped = "no" =>
    \A v \in DOMAIN pages : \A i \in 0..(PAGE_SIZE - 1) :
      LET o == v + i - vma.file_in_vma_off
      IN pages[v][i] = IF 0 <= o /\ o < vma.file_len THEN vma.file_off + o ELSE Zero

\* The assertion "real_read == need_read" fails for one kind of mapping only:
\* an mmap at an offset other than 0 that needs bytes past the end of the file,
\* because sys_mmap takes no notice of the offset when it computes file_len.
\* No program segment, and no mmap from the start of a file, ever fails.
AssertNeedsAnOffset ==
  stopped = "assert" =>
    vma \in mmap_vma /\ vma.file_off > 0 /\ vma.file_off + vma.file_len > FILE_LEN

\* The pages belong to the mapping, and hold the bytes of the file, in place,
\* and only an mmap past the end of its file stops the kernel.
FilePageInv == FilePageTypeOK /\ BytesInPlace /\ AssertNeedsAnOffset
=============================================================================
