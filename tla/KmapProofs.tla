----------------------------- MODULE KmapProofs -----------------------------
(***************************************************************************)
(* Proofs about the installed page table, for any number of user tasks,     *)
(* address spaces and program files, wherever the search for unmapped        *)
(* addresses places a file.                                                 *)
(***************************************************************************)
EXTENDS Kmap, TLAPS

\* The inductive invariant.
KmapIInv == KmapInv /\ UserRunsOnItsSpace

\* What changes when only the mapped pages or the reason to stop do.
sameHart == UNCHANGED <<vmas, satp, irq, cur, mm, doing, built, old_mm, token>>

Place == {"run", "syscall", "loading", "loaded", "swapped"}

LEMMA Parts ==
  ASSUME KmapIInv
  PROVE  /\ satp \in Space \cup {Kernel} /\ irq \in BOOLEAN /\ cur \in Task
         /\ mm \in [User -> Space \cup {Nothing}] /\ exited \subseteq User
         /\ doing \in [Task -> Place] /\ built \in [Task -> Space \cup {Nothing}]
         /\ old_mm \in Space \cup {Nothing}
  BY DEF KmapIInv, KmapInv, KmapTypeOK, Place

LEMMA Tasks ==
  /\ Boot \in Task /\ User \subseteq Task /\ Boot \notin User
  /\ \A t \in Task : t # Boot <=> t \in User
  /\ Nothing \notin Space /\ Nothing # Kernel
  BY SpacesAssumption DEF Task

\* The parts of the next state that an action has to establish.
LEMMA Establish ==
  ASSUME satp' \in Space \cup {Kernel}, irq' \in BOOLEAN, cur' \in Task,
         mm' \in [User -> Space \cup {Nothing}], exited' \subseteq User,
         doing' \in [Task -> Place], built' \in [Task -> Space \cup {Nothing}],
         old_mm' \in Space \cup {Nothing},
         TokenHoldsTheHart', InterruptsComeBack', PlacesAgree', SpacesAgree', UserRunsOnItsSpace'
  PROVE  KmapIInv'
  BY DEF KmapIInv, KmapInv, KmapTypeOK, Place

\* A step that changes the mapped pages at most, or stops the kernel while the
\* loader reads.
LEMMA SameHartInv ==
  ASSUME KmapIInv, sameHart, UNCHANGED exited, running' => running \/ token_lives
  PROVE  KmapIInv'
<1>. USE DEF sameHart
<1>1. TokenHoldsTheHart' /\ InterruptsComeBack' /\ UserRunsOnItsSpace'
  BY DEF KmapIInv, KmapInv, TokenHoldsTheHart, InterruptsComeBack, UserRunsOnItsSpace, token_lives, is_user
<1>2. SpacesAgree'
  BY DEF KmapIInv, KmapInv, SpacesAgree, token_lives, is_user, Anchored
<1>3. PlacesAgree'
  BY DEF KmapIInv, KmapInv, PlacesAgree, token_lives
<1>. QED BY <1>1, <1>2, <1>3, Parts, Establish

\* Outside of loading there is no token.
LEMMA NoToken ==
  ASSUME KmapIInv, doing[cur] # "loading"
  PROVE  ~token_lives
  BY DEF KmapIInv, KmapInv, PlacesAgree

\* The current task goes on to another place.
LEMMA Moved ==
  ASSUME KmapIInv, NEW x \in Place, doing' = [doing EXCEPT ![cur] = x]
  PROVE  /\ doing' \in [Task -> Place] /\ doing'[cur] = x
         /\ \A t \in Task : t # cur => doing'[t] = doing[t]
  BY Parts

LEMMA SyscallInv ==
  ASSUME KmapIInv, syscall
  PROVE  KmapIInv'
<1>1. /\ is_user(cur) /\ doing[cur] = "run" /\ irq' = FALSE /\ doing' = [doing EXCEPT ![cur] = "syscall"]
      /\ UNCHANGED <<vmas, satp, cur, mm, exited, built, old_mm, token, kmap_stopped>>
  BY DEF syscall
<1>2. /\ doing' \in [Task -> Place] /\ doing'[cur] = "syscall"
      /\ \A t \in Task : t # cur => doing'[t] = doing[t]
  BY <1>1, Moved DEF Place
<1>3. ~token_lives /\ ~token_lives' /\ cur # Boot /\ cur \in Task
  BY <1>1, NoToken, Tasks, Parts DEF token_lives, is_user
<1>4. TokenHoldsTheHart' /\ InterruptsComeBack'
  BY <1>1, <1>2, <1>3 DEF TokenHoldsTheHart, InterruptsComeBack
<1>5. PlacesAgree'
  BY <1>1, <1>2, <1>3, Tasks DEF KmapIInv, KmapInv, PlacesAgree
<1>6. SpacesAgree' /\ UserRunsOnItsSpace'
  BY <1>1, <1>2, <1>3 DEF KmapIInv, KmapInv, SpacesAgree, UserRunsOnItsSpace, is_user, Anchored
<1>. QED BY <1>1, <1>2, <1>4, <1>5, <1>6, Parts, Establish

\* The kernel's table is installed, the interrupts are off, and the token
\* remembers the table and the flag it found.
LEMMA CreateInv ==
  ASSUME KmapIInv, NEW f \in File, create_user_task(f)
  PROVE  KmapIInv'
<1>1. /\ running /\ doing[cur] = (IF is_user(cur) THEN "syscall" ELSE "run") /\ new_file(f)
      /\ doing' = [doing EXCEPT ![cur] = "loading"]
      /\ UNCHANGED <<pages, cur, mm, exited, built, old_mm>>
  BY DEF create_user_task
<1>2. /\ doing' \in [Task -> Place] /\ doing'[cur] = "loading"
      /\ \A t \in Task : t # cur => doing'[t] = doing[t]
  BY <1>1, Moved DEF Place
<1>3. ~token_lives /\ cur \in Task
  BY <1>1, NoToken, Parts
<1>4. irq = (cur = Boot)
  BY <1>1, <1>3, Tasks DEF KmapIInv, KmapInv, InterruptsComeBack, is_user
<1>5. Anchored(satp) /\ (is_user(cur) => satp = mm[cur])
  BY <1>1 DEF KmapIInv, KmapInv, SpacesAgree, UserRunsOnItsSpace
<1>7. CASE UNCHANGED <<vmas, token, satp, irq>> /\ kmap_stopped' = "unwrap"
  <2>1. ~token_lives' /\ ~running'
    BY <1>3, <1>7 DEF token_lives, running
  <2>2. TokenHoldsTheHart' /\ InterruptsComeBack'
    BY <1>1, <1>2, <1>4, <1>7, <2>1 DEF TokenHoldsTheHart, InterruptsComeBack
  <2>3. PlacesAgree'
    BY <1>1, <1>2, <1>3, <2>1, Tasks DEF KmapIInv, KmapInv, PlacesAgree
  <2>4. SpacesAgree' /\ UserRunsOnItsSpace'
    BY <1>1, <1>2, <1>3, <1>5, <1>7, <2>1 DEF KmapIInv, KmapInv, SpacesAgree, UserRunsOnItsSpace, is_user, Anchored
  <2>. QED BY <1>1, <1>2, <1>7, <2>2, <2>3, <2>4, Parts, Establish
<1>8. ASSUME NEW s, s \in DOMAIN vmas', satp' = Kernel, irq' = irq_in_token(irq).now, UNCHANGED kmap_stopped,
             token' = [vaddr |-> s, len |-> FilePages[f], satp_val |-> satp,
                       irq_level |-> irq_in_token(irq).level]
      PROVE  KmapIInv'
  <2>1. /\ token_lives' /\ token'.vaddr = s /\ token'.satp_val = satp /\ token'.irq_level = irq
        /\ irq' = FALSE
    BY <1>8, KmapAssumption DEF token_lives, irq_in_token
  <2>2. TokenHoldsTheHart' /\ InterruptsComeBack'
    BY <1>8, <2>1 DEF TokenHoldsTheHart, InterruptsComeBack
  <2>3. PlacesAgree'
    BY <1>1, <1>2, <1>3, <1>4, <1>8, <2>1, Tasks, Parts DEF KmapIInv, KmapInv, PlacesAgree
  <2>4. SpacesAgree'
    BY <1>1, <1>2, <1>5, <1>8, <2>1 DEF KmapIInv, KmapInv, SpacesAgree, is_user, Anchored
  <2>5. UserRunsOnItsSpace'
    BY <1>1, <1>2 DEF UserRunsOnItsSpace
  <2>. QED BY <1>1, <1>2, <1>8, <2>1, <2>2, <2>3, <2>4, <2>5, Parts, Establish
<1>. QED
  <2>. DEFINE s == __alloc_unmapped_core(vmas, None, FilePages[f], TRUE, KMAP_START, KMAP_END)
  <2>1. CASE s = None \/ s \in Panics
    BY <1>1, <1>7, <2>1 DEF new_file
  <2>2. CASE ~(s = None \/ s \in Panics)
    <3>1. /\ vmas' = [a \in DOMAIN vmas \cup {s} |->
                         IF a = s THEN [end |-> s + FilePages[f], file |-> f] ELSE vmas[a]]
          /\ satp' = Kernel /\ irq' = irq_in_token(irq).now /\ UNCHANGED kmap_stopped
          /\ token' = [vaddr |-> s, len |-> FilePages[f], satp_val |-> satp,
                       irq_level |-> irq_in_token(irq).level]
      BY <1>1, <2>2 DEF new_file
    <3>. HIDE DEF s
    <3>2. s \in DOMAIN vmas'
      BY <3>1
    <3>. QED BY <1>8, <3>1, <3>2
  <2>. QED BY <2>1, <2>2

LEMMA ReadElfInv ==
  ASSUME KmapIInv, NEW p, read_elf(p)
  PROVE  KmapIInv'
<1>1. running /\ doing[cur] = "loading" /\ UNCHANGED <<vmas, satp, irq, cur, mm, exited, doing, built, old_mm, token>>
  BY Zenon DEF read_elf
<1>2. sameHart /\ UNCHANGED exited
  BY <1>1 DEF sameHart
<1>3. token_lives
  BY <1>1 DEF KmapIInv, KmapInv, PlacesAgree
<1>. QED BY <1>2, <1>3, SameHartInv

\* The two panics of a path or a file that cannot be loaded.
LEMMA RefusedInv ==
  ASSUME KmapIInv, no_such_file \/ not_an_elf
  PROVE  KmapIInv'
<1>1. running /\ UNCHANGED <<vmas, satp, irq, cur, mm, exited, doing, built, old_mm, token>>
  BY Zenon DEF no_such_file, not_an_elf
<1>. QED BY <1>1, SameHartInv DEF sameHart

\* Dropping the token puts back what it remembers.
LEMMA LoadedInv ==
  ASSUME KmapIInv, new_from_elf
  PROVE  KmapIInv'
<1>1. /\ running /\ doing[cur] = "loading" /\ token_drop
      /\ doing' = [doing EXCEPT ![cur] = "loaded"] /\ UNCHANGED <<cur, mm, exited, old_mm>>
  BY DEF new_from_elf
<1>2. PICK s \in Space \ live : built' = [built EXCEPT ![cur] = s]
  BY DEF new_from_elf
<1>3. /\ doing' \in [Task -> Place] /\ doing'[cur] = "loaded"
      /\ \A t \in Task : t # cur => doing'[t] = doing[t]
  BY <1>1, Moved DEF Place
<1>4. /\ built' \in [Task -> Space \cup {Nothing}] /\ built'[cur] \in Space
      /\ \A t \in Task : t # cur => built'[t] = built[t]
  BY <1>2, Parts
<1>5. token_lives /\ token.vaddr \in DOMAIN vmas /\ token.irq_level = (cur = Boot)
      /\ token.satp_val \in Space \cup {Kernel}
  BY <1>1 DEF KmapIInv, KmapInv, PlacesAgree
<1>6. satp' = token.satp_val /\ irq' = token.irq_level /\ token' = no_token /\ UNCHANGED kmap_stopped
  BY <1>1, <1>5 DEF token_drop
<1>7. ~token_lives' /\ cur \in Task
  BY <1>6, Parts DEF token_lives, no_token
<1>8. TokenHoldsTheHart' /\ InterruptsComeBack'
  BY <1>1, <1>3, <1>5, <1>6, <1>7 DEF TokenHoldsTheHart, InterruptsComeBack
<1>9. PlacesAgree'
  BY <1>1, <1>3, <1>7, Tasks DEF KmapIInv, KmapInv, PlacesAgree
<1>10. SpacesAgree'
  BY <1>1, <1>3, <1>4, <1>5, <1>6, <1>7 DEF KmapIInv, KmapInv, SpacesAgree, is_user, Anchored
<1>11. UserRunsOnItsSpace'
  BY <1>1, <1>5, <1>6 DEF KmapIInv, KmapInv, SpacesAgree, UserRunsOnItsSpace, is_user
<1>12. satp' \in Space \cup {Kernel} /\ irq' \in BOOLEAN
  BY <1>5, <1>6
<1>. QED BY <1>1, <1>3, <1>4, <1>8, <1>9, <1>10, <1>11, <1>12, Parts, Establish

\* A task whose Task.mm was empty gets an address space: the table that is
\* installed was not that.
LEMMA AnchorKept ==
  ASSUME KmapIInv, NEW u \in User, mm[u] = Nothing, NEW s \in Space,
         mm' = [mm EXCEPT ![u] = s]
  PROVE  /\ mm' \in [User -> Space \cup {Nothing}]
         /\ \A v \in User : v # u => mm'[v] = mm[v]
         /\ \A a \in Space \cup {Kernel} : Anchored(a) => a = Kernel \/ \E v \in User : a = mm'[v]
<1>1. mm' \in [User -> Space \cup {Nothing}] /\ \A v \in User : v # u => mm'[v] = mm[v]
  BY Parts
<1>2. ASSUME NEW a \in Space \cup {Kernel}, Anchored(a), a # Kernel PROVE \E v \in User : a = mm'[v]
  <2>1. PICK v \in User : a = mm[v]
    BY <1>2 DEF Anchored
  <2>2. v # u
    BY <2>1, Tasks
  <2>. QED BY <1>1, <2>1, <2>2
<1>. QED BY <1>1, <1>2

LEMMA AddInv ==
  ASSUME KmapIInv, NEW u \in User, add_user_task(u)
  PROVE  KmapIInv'
<1>1. /\ cur = Boot /\ doing[cur] = "loaded" /\ mm[u] = Nothing /\ mm' = [mm EXCEPT ![u] = built[Boot]]
      /\ built' = [built EXCEPT ![Boot] = Nothing] /\ doing' = [doing EXCEPT ![cur] = "run"]
      /\ UNCHANGED <<vmas, satp, irq, cur, exited, old_mm, token, kmap_stopped>>
  BY DEF add_user_task
<1>2. /\ doing' \in [Task -> Place] /\ doing'[cur] = "run"
      /\ \A t \in Task : t # cur => doing'[t] = doing[t]
  BY <1>1, Moved DEF Place
<1>3. ~token_lives /\ ~token_lives'
  BY <1>1, NoToken DEF token_lives
<1>4. built[Boot] \in Space
  BY <1>1, Tasks DEF KmapIInv, KmapInv, SpacesAgree
<1>5. /\ mm' \in [User -> Space \cup {Nothing}]
      /\ \A a \in Space \cup {Kernel} : Anchored(a) => a = Kernel \/ \E v \in User : a = mm'[v]
  BY <1>1, <1>4, AnchorKept
<1>6. /\ built' \in [Task -> Space \cup {Nothing}]
      /\ \A t \in Task : t # Boot => built'[t] = built[t]
  BY <1>1, Parts, Tasks
<1>7. TokenHoldsTheHart' /\ InterruptsComeBack'
  BY <1>1, <1>2, <1>3 DEF KmapIInv, KmapInv, TokenHoldsTheHart, InterruptsComeBack
<1>8. PlacesAgree'
  BY <1>1, <1>2, <1>3, Tasks DEF KmapIInv, KmapInv, PlacesAgree
<1>9. Anchored(satp) /\ satp \in Space \cup {Kernel}
  BY <1>1, Parts DEF KmapIInv, KmapInv, SpacesAgree
<1>10. SpacesAgree'
  BY <1>1, <1>2, <1>3, <1>5, <1>6, <1>9, Tasks DEF KmapIInv, KmapInv, SpacesAgree, is_user, Anchored
<1>11. UserRunsOnItsSpace'
  BY <1>1, Tasks DEF UserRunsOnItsSpace, is_user
<1>. QED BY <1>1, <1>2, <1>5, <1>6, <1>7, <1>8, <1>10, <1>11, Parts, Establish

LEMMA CloneInv ==
  ASSUME KmapIInv, NEW u \in User, sys_clone(u)
  PROVE  KmapIInv'
<1>1. /\ is_user(cur) /\ doing[cur] = "syscall" /\ mm[u] = Nothing
      /\ irq' = TRUE /\ doing' = [doing EXCEPT ![cur] = "run"]
      /\ UNCHANGED <<vmas, satp, cur, exited, built, old_mm, token, kmap_stopped>>
  BY DEF sys_clone
<1>2. PICK s \in Space \ live : mm' = [mm EXCEPT ![u] = s]
  BY DEF sys_clone
<1>3. /\ doing' \in [Task -> Place] /\ doing'[cur] = "run"
      /\ \A t \in Task : t # cur => doing'[t] = doing[t]
  BY <1>1, Moved DEF Place
<1>4. ~token_lives /\ ~token_lives'
  BY <1>1, NoToken DEF token_lives
<1>5. /\ mm' \in [User -> Space \cup {Nothing}]
      /\ \A v \in User : v # u => mm'[v] = mm[v]
      /\ \A a \in Space \cup {Kernel} : Anchored(a) => a = Kernel \/ \E v \in User : a = mm'[v]
  BY <1>1, <1>2, AnchorKept
<1>6. cur \in User /\ cur # u /\ mm'[cur] = mm[cur] /\ mm[cur] \in Space /\ satp = mm[cur]
  BY <1>1, <1>5, Tasks DEF KmapIInv, KmapInv, SpacesAgree, UserRunsOnItsSpace, is_user
<1>7. TokenHoldsTheHart' /\ InterruptsComeBack'
  BY <1>1, <1>3, <1>4 DEF TokenHoldsTheHart, InterruptsComeBack
<1>8. PlacesAgree'
  BY <1>1, <1>3, <1>4, <1>6, Tasks DEF KmapIInv, KmapInv, PlacesAgree
<1>9. Anchored(satp) /\ satp \in Space \cup {Kernel}
  BY <1>1, Parts DEF KmapIInv, KmapInv, SpacesAgree
<1>10. SpacesAgree'
  BY <1>1, <1>3, <1>4, <1>5, <1>6, <1>9, Tasks DEF KmapIInv, KmapInv, SpacesAgree, is_user, Anchored
<1>11. UserRunsOnItsSpace'
  BY <1>1, <1>6 DEF UserRunsOnItsSpace, is_user
<1>. QED BY <1>1, <1>3, <1>5, <1>7, <1>8, <1>10, <1>11, Parts, Establish

\* Between the two halves of execve the hart runs on the space it has left.
LEMMA ExecveInv ==
  ASSUME KmapIInv, execve_from_tsk
  PROVE  KmapIInv'
<1>1. /\ is_user(cur) /\ doing[cur] = "loaded" /\ old_mm' = mm[cur] /\ mm' = [mm EXCEPT ![cur] = built[cur]]
      /\ built' = [built EXCEPT ![cur] = Nothing] /\ doing' = [doing EXCEPT ![cur] = "swapped"]
      /\ UNCHANGED <<vmas, satp, irq, cur, exited, token, kmap_stopped>>
  BY DEF execve_from_tsk
<1>2. /\ doing' \in [Task -> Place] /\ doing'[cur] = "swapped"
      /\ \A t \in Task : t # cur => doing'[t] = doing[t]
  BY <1>1, Moved DEF Place
<1>3. ~token_lives /\ ~token_lives' /\ cur \in User /\ cur \in Task /\ cur # Boot
  BY <1>1, NoToken, Tasks DEF token_lives, is_user
<1>4. built[cur] \in Space /\ mm[cur] \in Space /\ satp = mm[cur]
  BY <1>1, <1>3 DEF KmapIInv, KmapInv, SpacesAgree, UserRunsOnItsSpace
<1>5. mm' \in [User -> Space \cup {Nothing}] /\ mm'[cur] \in Space
  BY <1>1, <1>3, <1>4, Parts
<1>6. /\ built' \in [Task -> Space \cup {Nothing}]
      /\ \A t \in Task : t # cur => built'[t] = built[t]
  BY <1>1, <1>3, Parts
<1>7. TokenHoldsTheHart' /\ InterruptsComeBack'
  BY <1>1, <1>2, <1>3 DEF KmapIInv, KmapInv, TokenHoldsTheHart, InterruptsComeBack
<1>8. PlacesAgree'
  BY <1>1, <1>2, <1>3, Tasks DEF KmapIInv, KmapInv, PlacesAgree
<1>9. SpacesAgree'
  BY <1>1, <1>2, <1>3, <1>4, <1>5, <1>6 DEF KmapIInv, KmapInv, SpacesAgree, is_user
<1>10. UserRunsOnItsSpace'
  BY <1>1, <1>2 DEF UserRunsOnItsSpace
<1>. QED BY <1>1, <1>2, <1>4, <1>5, <1>6, <1>7, <1>8, <1>9, <1>10, Parts, Establish

LEMMA ReturnInv ==
  ASSUME KmapIInv, execve_return
  PROVE  KmapIInv'
<1>1. /\ doing[cur] = "swapped" /\ satp' = mm[cur] /\ old_mm' = Nothing /\ irq' = TRUE
      /\ doing' = [doing EXCEPT ![cur] = "run"]
      /\ UNCHANGED <<vmas, cur, mm, exited, built, token, kmap_stopped>>
  BY DEF execve_return
<1>2. /\ doing' \in [Task -> Place] /\ doing'[cur] = "run"
      /\ \A t \in Task : t # cur => doing'[t] = doing[t]
  BY <1>1, Moved DEF Place
<1>3. ~token_lives /\ ~token_lives' /\ cur \in User /\ cur \in Task
  BY <1>1, NoToken, Tasks, Parts DEF token_lives, KmapIInv, KmapInv, PlacesAgree
<1>4. mm[cur] \in Space
  BY <1>3 DEF KmapIInv, KmapInv, SpacesAgree, is_user
<1>5. TokenHoldsTheHart' /\ InterruptsComeBack'
  BY <1>1, <1>2, <1>3 DEF TokenHoldsTheHart, InterruptsComeBack
<1>6. PlacesAgree'
  BY <1>1, <1>2, <1>3, Tasks DEF KmapIInv, KmapInv, PlacesAgree
<1>7. SpacesAgree' /\ UserRunsOnItsSpace'
  BY <1>1, <1>2, <1>3, <1>4 DEF KmapIInv, KmapInv, SpacesAgree, UserRunsOnItsSpace, is_user, Anchored
<1>. QED BY <1>1, <1>2, <1>4, <1>5, <1>6, <1>7, Parts, Establish

\* A user task gets its own table, a kernel task keeps a table that somebody has.
LEMMA SwitchInv ==
  ASSUME KmapIInv, NEW next \in Task, next \in runnable \ {cur}, switch_to(next),
         irq, doing[cur] \in {"run", "loaded"}, is_user(cur) => doing[cur] = "run", exited' \subseteq User,
         UNCHANGED <<vmas, pages, irq, mm, doing, built, old_mm, token, kmap_stopped>>
  PROVE  KmapIInv'
<1>1. cur' = next /\ satp' = (IF is_user(next) THEN mm[next] ELSE satp) /\ next # cur
  BY DEF switch_to
<1>2. ~token_lives /\ ~token_lives'
  BY NoToken DEF token_lives
<1>3. is_user(next) => next \in User /\ mm[next] \in Space /\ doing[next] = "run"
  <2>1. SUFFICES ASSUME is_user(next) PROVE next \in User /\ mm[next] \in Space /\ doing[next] = "run"
    OBVIOUS
  <2>2. next \in User /\ next # Boot
    BY <2>1, Tasks DEF is_user
  <2>3. mm[next] # Nothing
    BY <2>2 DEF runnable
  <2>. QED BY <1>1, <2>2, <2>3, Parts DEF KmapIInv, KmapInv, PlacesAgree
<1>4. Anchored(satp) /\ satp \in Space \cup {Kernel}
  BY Parts DEF KmapIInv, KmapInv, SpacesAgree
<1>5. doing[next] \in {"run", "loaded"} /\ (~is_user(next) => next = Boot)
  <2>1. CASE is_user(next)
    BY <1>3, <2>1
  <2>2. CASE ~is_user(next)
    BY <1>1, <2>2, Tasks DEF is_user, KmapIInv, KmapInv, PlacesAgree
  <2>. QED BY <2>1, <2>2
<1>6. TokenHoldsTheHart' /\ InterruptsComeBack'
  BY <1>1, <1>2, <1>3, <1>5 DEF TokenHoldsTheHart, InterruptsComeBack
<1>7. PlacesAgree'
  <2>1. ASSUME NEW u \in User, u # next PROVE doing[u] = "run"
    BY <2>1 DEF KmapIInv, KmapInv, PlacesAgree, is_user
  <2>2. doing[Boot] \in {"run", "loading", "loaded"} /\ doing[Boot] # "loading"
    BY DEF KmapIInv, KmapInv, PlacesAgree
  <2>. QED BY <1>1, <1>2, <1>5, <2>1, <2>2 DEF PlacesAgree
<1>8. SpacesAgree'
  <2>1. (is_user(cur) => mm[cur] \in Space)'
    BY <1>1, <1>3 DEF is_user
  <2>2. (\A t \in Task : doing[t] = "loaded" => built[t] \in Space)'
    BY DEF KmapIInv, KmapInv, SpacesAgree
  <2>3. doing'[cur'] # "swapped"
    BY <1>1, <1>5
  <2>4. Anchored(satp)'
    BY <1>1, <1>3, <1>4 DEF Anchored
  <2>. QED BY <1>2, <2>1, <2>2, <2>3, <2>4 DEF SpacesAgree
<1>9. UserRunsOnItsSpace'
  BY <1>1 DEF UserRunsOnItsSpace, is_user
<1>10. satp' \in Space \cup {Kernel}
  BY <1>1, <1>3, <1>4
<1>. QED BY <1>1, <1>6, <1>7, <1>8, <1>9, <1>10, Parts, Establish

LEMMA PreemptInv ==
  ASSUME KmapIInv, NEW next \in Task, preempt(next)
  PROVE  KmapIInv'
<1>1. /\ irq /\ next \in runnable \ {cur} /\ switch_to(next)
      /\ UNCHANGED <<vmas, pages, irq, mm, exited, doing, built, old_mm, token, kmap_stopped>>
  BY DEF preempt
<1>2. ~token_lives
  BY <1>1 DEF KmapIInv, KmapInv, TokenHoldsTheHart
<1>3. cur = Boot \/ doing[cur] = "run"
  BY <1>1, <1>2 DEF KmapIInv, KmapInv, InterruptsComeBack
<1>4. is_user(cur) => doing[cur] = "run"
  BY <1>3, Tasks DEF is_user
<1>5. doing[cur] \in {"run", "loaded"}
  BY <1>2, <1>3, Parts DEF preempt, KmapIInv, KmapInv, PlacesAgree
<1>. QED BY <1>1, <1>4, <1>5, Parts, SwitchInv

LEMMA ExitSelfInv ==
  ASSUME KmapIInv, NEW next \in Task, exit_self(next)
  PROVE  KmapIInv'
<1>1. /\ is_user(cur) /\ doing[cur] = "run" /\ next \in runnable \ {cur} /\ switch_to(next)
      /\ exited' = exited \cup {cur}
      /\ UNCHANGED <<vmas, pages, irq, mm, doing, built, old_mm, token, kmap_stopped>>
  BY DEF exit_self
<1>2. irq
  BY <1>1, NoToken DEF KmapIInv, KmapInv, InterruptsComeBack
<1>3. exited' \subseteq User
  BY <1>1, Parts DEF is_user
<1>. QED BY <1>1, <1>2, <1>3, SwitchInv

LEMMA KmapInitInv == KmapInit => KmapIInv
<1>. SUFFICES ASSUME KmapInit PROVE KmapIInv
  OBVIOUS
<1>1. /\ satp = Kernel /\ irq = TRUE /\ cur = Boot /\ mm = [u \in User |-> Nothing] /\ exited = {}
      /\ doing = [t \in Task |-> "run"] /\ built = [t \in Task |-> Nothing] /\ old_mm = Nothing
      /\ token = no_token
  BY DEF KmapInit
<1>2. ~token_lives
  BY <1>1 DEF token_lives, no_token
<1>3. KmapTypeOK
  BY <1>1, Tasks DEF KmapTypeOK
<1>4. TokenHoldsTheHart /\ InterruptsComeBack /\ UserRunsOnItsSpace
  BY <1>1, <1>2, Tasks DEF TokenHoldsTheHart, InterruptsComeBack, UserRunsOnItsSpace, is_user
<1>5. PlacesAgree /\ SpacesAgree
  BY <1>1, <1>2, Tasks DEF PlacesAgree, SpacesAgree, is_user, Anchored
<1>. QED BY <1>3, <1>4, <1>5 DEF KmapIInv, KmapInv

LEMMA KmapStepInv ==
  ASSUME KmapIInv, [KmapNext]_kmapVars
  PROVE  KmapIInv'
<1>1. CASE UNCHANGED kmapVars
  BY <1>1, SameHartInv DEF kmapVars, sameHart, running
<1>2. CASE idle
  BY <1>1, <1>2 DEF idle
<1>3. ASSUME NEW p, read_elf(p) PROVE KmapIInv'
  BY <1>3, ReadElfInv
<1>4. ASSUME NEW t \in Task, preempt(t) \/ exit_self(t) PROVE KmapIInv'
  BY <1>4, PreemptInv, ExitSelfInv
<1>5. ASSUME NEW u \in User, add_user_task(u) \/ sys_clone(u) PROVE KmapIInv'
  BY <1>5, AddInv, CloneInv
<1>6. ASSUME NEW f \in File, create_user_task(f) PROVE KmapIInv'
  BY <1>6, CreateInv
<1>7. ASSUME syscall \/ new_from_elf \/ execve_from_tsk \/ execve_return PROVE KmapIInv'
  BY <1>7, SyscallInv, LoadedInv, ExecveInv, ReturnInv
<1>8. ASSUME no_such_file \/ not_an_elf PROVE KmapIInv'
  BY <1>8, RefusedInv
<1>. QED BY <1>1, <1>2, <1>3, <1>4, <1>5, <1>6, <1>7, <1>8 DEF KmapNext

\* Loading, forking, replacing and preempting programs in any order keep tokens
\* and interrupt masking nested, and remember the right table to go back to.
THEOREM KmapInvariant == KmapSpec => []KmapInv
<1>1. KmapIInv => KmapInv
  BY DEF KmapIInv
<1>. QED BY <1>1, KmapInitInv, KmapStepInv, PTL DEF KmapSpec

\* A user program runs, and makes its system calls, on its own address space.
THEOREM UserSpaceIsInstalled == KmapSpec => []UserRunsOnItsSpace
<1>1. KmapIInv => UserRunsOnItsSpace
  BY DEF KmapIInv
<1>. QED BY <1>1, KmapInitInv, KmapStepInv, PTL DEF KmapSpec

\* The installed table, and the one a token will install again, are never those of
\* an address space that was freed.
THEOREM InstalledIsAlive == KmapSpec => []InstalledSpaceIsAlive
<1>1. KmapIInv => InstalledSpaceIsAlive
  BY DEF KmapIInv, KmapInv, SpacesAgree, InstalledSpaceIsAlive, live, Anchored
<1>. QED BY <1>1, KmapInitInv, KmapStepInv, PTL DEF KmapSpec
=============================================================================
