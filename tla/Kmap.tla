-------------------------------- MODULE Kmap --------------------------------
(***************************************************************************)
(* Which page table the hart runs on.  A program is loaded (at boot, or by  *)
(* execve) through a KmapToken (kernel/src/mm/kmap.rs): its file is mapped   *)
(* in the kernel's address space, whose table is installed while the token   *)
(* lives; the scheduler installs the table of the user task it switches to;  *)
(* execve replaces the address space it runs on.  Addresses count pages      *)
(* (PAGE_SIZE is 1).                                                         *)
(*                                                                          *)
(* The timer interrupts whatever runs with the interrupts on: user programs, *)
(* and the boot task outside of lock_irq and of a token.                     *)
(***************************************************************************)
EXTENDS VmaSearch, Functions

CONSTANTS Boot,        \* the boot task: a kernel task, without address space
          User,        \* the user tasks there can be
          Space,       \* the user address spaces there can be
          Kernel,      \* the kernel's address space
          File,        \* the files that are loaded as programs
          Elf,         \* those that are ELF files
          FilePages,   \* the pages of each file
          KMAP_START, KMAP_END,
          Nothing      \* no task, no space

ASSUME SpacesAssumption ==
  Kernel \notin Space /\ Nothing \notin Space \cup {Kernel} /\ Boot \notin User
ASSUME KmapAssumption == /\ FilePages \in [File -> Nat \ {0}]
                         /\ KMAP_START \in Nat /\ KMAP_END \in Nat /\ KMAP_START < KMAP_END

VARIABLES vmas,     \* kernel_mm.vmas
          pages,    \* the pages of the kmap range the kernel's table maps: what they hold
          satp,     \* the installed page table
          irq,      \* sstatus.SIE
          cur,      \* the current task
          mm,       \* Task.mm of each user task; Nothing when there is no such task
          exited,   \* the user tasks on exit_list
          doing,    \* where each task is in loading a program
          built,    \* the address space a task has made for a program
          old_mm,   \* the address space that sys_execve still holds
          token,    \* the KmapToken; it lives while its length is not 0
          kmap_stopped  \* why the kernel panicked, or "no"

kmapVars == <<vmas, pages, satp, irq, cur, mm, exited, doing, built, old_mm, token, kmap_stopped>>

Task == User \cup {Boot}

no_token == [vaddr |-> 0, len |-> 0, satp_val |-> Kernel, irq_level |-> FALSE]
token_lives == token.len # 0

KmapInit ==
  /\ vmas = <<>> /\ pages = <<>>
  /\ satp = Kernel /\ irq = TRUE /\ cur = Boot
  /\ mm = [u \in User |-> Nothing] /\ exited = {}
  /\ doing = [t \in Task |-> "run"]
  /\ built = [t \in Task |-> Nothing] /\ old_mm = Nothing
  /\ token = no_token /\ kmap_stopped = "no"

\* The address spaces that something holds an Arc of; the others are freed.
live == {Kernel, old_mm} \cup {mm[u] : u \in User} \cup {built[t] : t \in Task}

running == kmap_stopped = "no"
is_user(t) == t \in User

-----------------------------------------------------------------------------
\* Faulty variant: the interrupts are disabled only under the kernel_mm lock,
\* whose guard enables them again.
irq_in_token_late(at_entry) == [level |-> FALSE, now |-> at_entry]

\* The interrupts in KmapToken::new_*, entered with at_entry: what disable_irq
\* returns, and what the guard of get_kernel_mm() restores when it goes.
irq_in_token(at_entry) == [level |-> at_entry, now |-> FALSE]

\* KmapToken::new_file, unwrapped by its caller.
new_file(f) ==
  LET s == __alloc_unmapped_core(vmas, None, FilePages[f], TRUE, KMAP_START, KMAP_END)
  IN  IF s = None \/ s \in Panics
      THEN /\ kmap_stopped' = "unwrap"
           /\ UNCHANGED <<vmas, token, satp, irq>>
      ELSE /\ vmas' = [a \in DOMAIN vmas \cup {s} |->
                         IF a = s THEN [end |-> s + FilePages[f], file |-> f] ELSE vmas[a]]
           /\ token' = [vaddr |-> s, len |-> FilePages[f], satp_val |-> satp,
                       irq_level |-> irq_in_token(irq).level]
           /\ satp' = Kernel
           /\ irq' = irq_in_token(irq).now
           /\ UNCHANGED kmap_stopped

\* Faulty variant: the pages stay mapped.
vma_drop_keeps(v) == pages

\* VMA::drop: its pages are unmapped.
vma_drop(v) == Restrict(pages, {p \in DOMAIN pages : ~(token.vaddr <= p /\ p < v.end)})

\* KmapToken::drop.
token_drop ==
  IF token.vaddr \notin DOMAIN vmas
  THEN kmap_stopped' = "Kmap bug" /\ UNCHANGED <<vmas, pages, satp, irq, token>>
  ELSE /\ vmas' = Restrict(vmas, DOMAIN vmas \ {token.vaddr})
       /\ pages' = vma_drop(vmas[token.vaddr])
       /\ satp' = token.satp_val
       /\ irq' = token.irq_level
       /\ token' = no_token
       /\ UNCHANGED kmap_stopped

-----------------------------------------------------------------------------
\* A user task enters sys_execve or sys_clone: exc_handler disables the interrupts.
syscall ==
  /\ running /\ is_user(cur) /\ doing[cur] = "run"
  /\ irq' = FALSE
  /\ doing' = [doing EXCEPT ![cur] = "syscall"]
  /\ UNCHANGED <<vmas, pages, satp, cur, mm, exited, built, old_mm, token, kmap_stopped>>

\* create_user_task, called by execve or by the boot task: its file is mapped.
create_user_task(f) ==
  /\ running
  /\ doing[cur] = IF is_user(cur) THEN "syscall" ELSE "run"
  /\ new_file(f)
  /\ doing' = [doing EXCEPT ![cur] = "loading"]
  /\ UNCHANGED <<pages, cur, mm, exited, built, old_mm>>

\* sys_execve of a path that names no file: create_user_task returns None.
no_such_file ==
  /\ running /\ is_user(cur) /\ doing[cur] = "syscall"
  /\ kmap_stopped' = "execve"
  /\ UNCHANGED <<vmas, pages, satp, irq, cur, mm, exited, doing, built, old_mm, token>>

\* new_from_elf reads page p of the file.  The first time, the page fault
\* handler (in kernel mode: the mappings of the kernel) maps it.
read_elf(p) ==
  LET start == find_vma(vmas, p)
  IN  /\ running /\ doing[cur] = "loading"
      /\ CASE p \in DOMAIN pages /\ satp = Kernel -> UNCHANGED <<pages, kmap_stopped>>
           [] start = None -> kmap_stopped' = "error address access" /\ UNCHANGED pages
           [] start # None /\ p \in DOMAIN pages /\ satp # Kernel ->
                kmap_stopped' = "prot fault" /\ UNCHANGED pages
           [] OTHER -> /\ pages' = [q \in DOMAIN pages \cup {p} |->
                                      IF q = p THEN <<vmas[start].file, p - start>> ELSE pages[q]]
                       /\ UNCHANGED kmap_stopped
      /\ UNCHANGED <<vmas, satp, irq, cur, mm, exited, doing, built, old_mm, token>>

\* new_from_elf unwraps what ElfFile::new makes of the file.
not_an_elf ==
  /\ running /\ doing[cur] = "loading"
  /\ token.vaddr \in DOMAIN vmas /\ vmas[token.vaddr].file \notin Elf
  /\ kmap_stopped' = "not an ELF"
  /\ UNCHANGED <<vmas, pages, satp, irq, cur, mm, exited, doing, built, old_mm, token>>

\* The new address space is made and the token dropped.
new_from_elf ==
  /\ running /\ doing[cur] = "loading"
  /\ token.vaddr \in DOMAIN vmas => vmas[token.vaddr].file \in Elf
  /\ \E s \in Space \ live : built' = [built EXCEPT ![cur] = s]
  /\ token_drop
  /\ doing' = [doing EXCEPT ![cur] = "loaded"]
  /\ UNCHANGED <<cur, mm, exited, old_mm>>

\* create_user_task_and_run: the boot task adds the task it made.
add_user_task(u) ==
  /\ running /\ cur = Boot /\ doing[Boot] = "loaded"
  /\ mm[u] = Nothing
  /\ mm' = [mm EXCEPT ![u] = built[Boot]]
  /\ built' = [built EXCEPT ![Boot] = Nothing]
  /\ doing' = [doing EXCEPT ![Boot] = "run"]
  /\ UNCHANGED <<vmas, pages, satp, irq, cur, exited, old_mm, token, kmap_stopped>>

\* Faulty variant: the old address space is dropped at once.
execve_from_tsk_drops ==
  /\ running /\ is_user(cur) /\ doing[cur] = "loaded"
  /\ mm' = [mm EXCEPT ![cur] = built[cur]]
  /\ built' = [built EXCEPT ![cur] = Nothing]
  /\ doing' = [doing EXCEPT ![cur] = "swapped"]
  /\ UNCHANGED <<vmas, pages, satp, irq, cur, exited, old_mm, token, kmap_stopped>>

\* sys_execve: the task takes the new address space; the old one, on which the
\* hart still runs, is held until the system call returns.
execve_from_tsk ==
  /\ running /\ is_user(cur) /\ doing[cur] = "loaded"
  /\ old_mm' = mm[cur]
  /\ mm' = [mm EXCEPT ![cur] = built[cur]]
  /\ built' = [built EXCEPT ![cur] = Nothing]
  /\ doing' = [doing EXCEPT ![cur] = "swapped"]
  /\ UNCHANGED <<vmas, pages, satp, irq, cur, exited, token, kmap_stopped>>

\* The end of sys_execve: install_pagetable, and back to the program.
execve_return ==
  /\ running /\ doing[cur] = "swapped"
  /\ satp' = mm[cur]
  /\ old_mm' = Nothing
  /\ irq' = TRUE
  /\ doing' = [doing EXCEPT ![cur] = "run"]
  /\ UNCHANGED <<vmas, pages, cur, mm, exited, built, token, kmap_stopped>>

\* sys_clone: a new task with a copy of the address space.
sys_clone(u) ==
  /\ running /\ is_user(cur) /\ doing[cur] = "syscall"
  /\ mm[u] = Nothing
  /\ \E s \in Space \ live : mm' = [mm EXCEPT ![u] = s]
  /\ irq' = TRUE
  /\ doing' = [doing EXCEPT ![cur] = "run"]
  /\ UNCHANGED <<vmas, pages, satp, cur, exited, built, old_mm, token, kmap_stopped>>

runnable == {t \in Task : t = Boot \/ (mm[t] # Nothing /\ t \notin exited)}

\* Faulty variant: the page table is left as it is.
switch_to_lazily(next) == cur' = next /\ UNCHANGED satp

\* scheduler: a user task gets its page table, a kernel task keeps the last one.
switch_to(next) ==
  /\ cur' = next
  /\ satp' = IF is_user(next) THEN mm[next] ELSE satp

\* A timer interrupt that preempts the current task.
preempt(next) ==
  /\ running /\ irq /\ next \in runnable \ {cur}
  /\ switch_to(next)
  /\ UNCHANGED <<vmas, pages, irq, mm, exited, doing, built, old_mm, token, kmap_stopped>>

\* exit_self: the task stays on exit_list, and its address space with it.
exit_self(next) ==
  /\ running /\ is_user(cur) /\ doing[cur] = "run"
  /\ next \in runnable \ {cur}
  /\ exited' = exited \cup {cur}
  /\ switch_to(next)
  /\ UNCHANGED <<vmas, pages, irq, mm, doing, built, old_mm, token, kmap_stopped>>

\* The current task computes.
idle == UNCHANGED kmapVars

KmapNext ==
  \/ syscall
  \/ \E f \in File : create_user_task(f)
  \/ no_such_file
  \/ token_lives /\ \E k \in 0..token.len-1 : read_elf(token.vaddr + k)
  \/ not_an_elf
  \/ new_from_elf
  \/ \E u \in User : add_user_task(u) \/ sys_clone(u)
  \/ execve_from_tsk
  \/ execve_return
  \/ \E t \in Task : preempt(t) \/ exit_self(t)
  \/ idle

KmapSpec == KmapInit /\ [][KmapNext]_kmapVars

-----------------------------------------------------------------------------
\* The types of the state.
KmapTypeOK ==
  /\ satp \in Space \cup {Kernel}
  /\ irq \in BOOLEAN
  /\ cur \in Task
  /\ mm \in [User -> Space \cup {Nothing}]
  /\ exited \subseteq User
  /\ doing \in [Task -> {"run", "syscall", "loading", "loaded", "swapped"}]
  /\ built \in [Task -> Space \cup {Nothing}]
  /\ old_mm \in Space \cup {Nothing}

\* "kmap occupies the kernel page table: no other may be installed while it is
\* used": while a token lives the kernel's table is installed and no interrupt
\* can come in, so that no other task installs its own.
TokenHoldsTheHart == token_lives => satp = Kernel /\ ~irq

\* A user program runs, and makes its system calls, on its own address space,
\* whoever was loaded, forked, replaced or preempted in between.
UserRunsOnItsSpace ==
  is_user(cur) /\ doing[cur] \in {"run", "syscall", "loaded"} => satp = mm[cur]

\* The installed table, and the one a token will install again, belong to an
\* address space that is still held: a kernel task keeps the table of the last
\* user task, and execve leaves the space it runs on, without its being freed.
InstalledSpaceIsAlive ==
  /\ satp \in live
  /\ token_lives => token.satp_val \in live

\* Files are mapped in the kmap range only.
FilesInRange ==
  /\ DOMAIN vmas \cup DOMAIN pages \subseteq KMAP_START..KMAP_END-1
  /\ \A s \in DOMAIN vmas : vmas[s].end \in s+1..KMAP_END /\ vmas[s].file \in File

\* What the loader reads through the token is its own file, although every
\* token is placed at the same addresses: nothing is left of the last one.
KmapShowsItsFile ==
  \A p \in DOMAIN pages :
    /\ token_lives
    /\ pages[p] = <<vmas[token.vaddr].file, p - token.vaddr>>

\* The token is made, the loader's reads are served and the token is dropped
\* without a panic: the only ones are execve's of a path that names no file, and
\* the loader's of a file that is not an ELF file.
LoaderNeverPanics ==
  /\ kmap_stopped \in {"no", "execve", "not an ELF"}
  /\ kmap_stopped = "not an ELF" => vmas[token.vaddr].file \notin Elf

\* Tokens and locks nest: outside of a token the interrupts are on in the boot
\* task and in user mode, and off in a system call.
InterruptsComeBack ==
  ~token_lives => irq = (cur = Boot \/ doing[cur] = "run")

\* Who is where: a user task that is not running was interrupted in its program,
\* the boot task outside of a token, and only the running task has a token.
PlacesAgree ==
  /\ \A u \in User : u # cur => doing[u] = "run"
  /\ doing[Boot] \in {"run", "loading", "loaded"}
  /\ doing[Boot] = "loading" => cur = Boot
  /\ running /\ doing[cur] = "loading" => token_lives
  /\ token_lives => /\ doing[cur] = "loading" /\ token.vaddr \in DOMAIN vmas
                    /\ token.satp_val \in Space \cup {Kernel}
                    /\ token.irq_level = (cur = Boot)

\* The kernel's table, or that of the address space of some user task.
Anchored(s) == s = Kernel \/ \E u \in User : s = mm[u]

\* Whose table is installed, or will be once the token is dropped.
SpacesAgree ==
  /\ is_user(cur) => mm[cur] \in Space
  /\ \A t \in Task : doing[t] = "loaded" => built[t] \in Space
  /\ IF doing[cur] = "swapped" THEN satp = old_mm ELSE Anchored(satp)
  /\ token_lives => Anchored(token.satp_val) /\ (is_user(cur) => token.satp_val = mm[cur])

\* The state has its types, and tokens and locks nest: no token without the
\* kernel's table and masked interrupts, no interrupt flag left wrong, and the
\* table to go back to is that of the task that took the token.
KmapInv == /\ KmapTypeOK /\ TokenHoldsTheHart /\ InterruptsComeBack
           /\ PlacesAgree /\ SpacesAgree

\* One file is mapped at a time, for as long as the token lives, and the search
\* places it at the start of the range.
OneFileMapped ==
  IF token_lives
  THEN /\ token.vaddr = KMAP_START /\ DOMAIN vmas = {KMAP_START}
       /\ vmas[KMAP_START].end = KMAP_START + token.len
       /\ vmas[KMAP_START].file \in File /\ token.len = FilePages[vmas[KMAP_START].file]
       /\ DOMAIN pages \subseteq KMAP_START..(KMAP_START + token.len - 1)
  ELSE DOMAIN vmas = {} /\ DOMAIN pages = {}

\* Loading a program reads the pages of its own file, in the kmap range, and
\* neither the reads nor the token panic (a path without a file and a file that
\* is not a program do).
LoaderReadsItsFile == FilesInRange /\ KmapShowsItsFile /\ LoaderNeverPanics /\ OneFileMapped
=============================================================================
