--------------------------- MODULE FdTableProofs ----------------------------
(***************************************************************************)
(* Proofs about the descriptor tables, for any number of tasks, pipes and  *)
(* descriptors: a pipe's writer count is right in every reachable state,   *)
(* and a call that fails leaves nothing behind.                            *)
(***************************************************************************)
EXTENDS FdTable, FiniteSetTheorems, WellFoundedInduction, TLAPS

Tables == [Task -> [Fd -> DFile]]

\* Some descriptor of some task is open on the writing end of pipe k.
HasWriter(tables, k) == \E t \in Task, fd \in Fd : tables[t][fd] = write_end(k)

\* The kinds of open files, and what tells them apart.
LEMMA Ends ==
  /\ None \in DFile /\ Other \in DFile /\ None.pipe = 0 /\ Other.pipe = 0
  /\ None.class # "pipe" /\ Other.class # "pipe" /\ Other # None
  /\ \A k \in Pipe : /\ read_end(k) \in DFile /\ write_end(k) \in DFile
                     /\ read_end(k).pipe = k /\ write_end(k).pipe = k
                     /\ read_end(k) # None /\ write_end(k) # None
                     /\ Other # write_end(k)
  /\ \A j, k \in Pipe : /\ read_end(j) # write_end(k)
                        /\ write_end(j) = write_end(k) => j = k
  BY DEF DFile, None, Other, read_end, write_end, Pipe

LEMMA PipeEnds ==
  ASSUME NEW f \in DFile, f.class = "pipe"
  PROVE  f.pipe \in Pipe /\ f # None
  BY DEF DFile, None, Other, read_end, write_end

\* One descriptor of one task changes.
Put(tab, t, fd, x) == [tab EXCEPT ![t][fd] = x]

LEMMA OneSet ==
  ASSUME NEW tab \in Tables, NEW t \in Task, NEW fd \in Fd, NEW x \in DFile
  PROVE  /\ Put(tab, t, fd, x) \in Tables
         /\ \A u \in Task, n \in Fd :
              Put(tab, t, fd, x)[u][n] = IF u = t /\ n = fd THEN x ELSE tab[u][n]
         /\ \A u \in Task : u # t => Put(tab, t, fd, x)[u] = tab[u]
<1>. DEFINE g == [tab[t] EXCEPT ![fd] = x]
<1>1. g \in [Fd -> DFile] /\ \A n \in Fd : g[n] = IF n = fd THEN x ELSE tab[t][n]
  BY DEF Tables
<1>2. Put(tab, t, fd, x) = [tab EXCEPT ![t] = g]
  BY DEF Tables, Put
<1>. HIDE DEF g
<1>3. /\ [tab EXCEPT ![t] = g] \in Tables
      /\ \A u \in Task : [tab EXCEPT ![t] = g][u] = IF u = t THEN g ELSE tab[u]
  BY <1>1 DEF Tables
<1>. QED BY <1>1, <1>2, <1>3

\* alloc_opened finds a descriptor that is free, or none.
LEMMA AllocIsFree ==
  ASSUME NEW table \in [Fd -> DFile], NEW start, NEW new, new = alloc_opened(table, start), new # -1
  PROVE  new \in Fd /\ table[new] = None
<1>. DEFINE S == free_from(table, start)
<1>1. S # {} /\ new = Min(S) /\ S \subseteq Nat
  BY FdAssumption DEF alloc_opened, free_from, Fd
<1>2. \E x \in S : \A y \in S : ~ (<<y, x>> \in OpToRel(<, Nat))
  BY <1>1, NatLessThanWellFounded, WFMin
<1>. HIDE DEF S
<1>3. PICK x \in S : \A y \in S : ~ (<<y, x>> \in OpToRel(<, Nat))
  BY <1>2
<1>4. \A y \in S : x <= y
  <2>1. \A y \in S : ~ (<<y, x>> \in {ss \in Nat \X Nat : ss[1] < ss[2]})
    BY <1>3, Zenon DEF OpToRel
  <2>2. ASSUME NEW y \in S PROVE ~(y < x)
    BY <1>1, <2>1
  <2>. QED BY <1>1, <2>2
<1>5. Min(S) \in S
  BY <1>4 DEF Min
<1>. QED BY <1>1, <1>5 DEF S, free_from

LEMMA LiveWriter ==
  ASSUME NEW tab, NEW k \in Pipe
  PROVE  write_end(k) \in live(tab) <=> HasWriter(tab, k)
  BY Ends DEF live, HasWriter

\* The writer count in terms of descriptors.
LEMMA CountMeans ==
  ASSUME NEW tab, NEW k \in Pipe
  PROVE  Cardinality(live(tab) \cap {write_end(k)}) = IF HasWriter(tab, k) THEN 1 ELSE 0
<1>1. CASE HasWriter(tab, k)
  <2>1. live(tab) \cap {write_end(k)} = {write_end(k)}
    BY <1>1, LiveWriter
  <2>. QED BY <1>1, <2>1, FS_Singleton
<1>2. CASE ~HasWriter(tab, k)
  <2>1. live(tab) \cap {write_end(k)} = {}
    BY <1>2, LiveWriter
  <2>. QED BY <1>2, <2>1, FS_EmptySet
<1>. QED BY <1>1, <1>2

\* The inductive invariant.
FdIInv == FdInv /\ WriteCntIsLiveWriters

Counted(cnt, tab) == \A k \in Pipe : cnt[k] = IF HasWriter(tab, k) THEN 1 ELSE 0

LEMMA CountedNow ==
  /\ WriteCntIsLiveWriters <=> Counted(write_cnt, opened)
  /\ WriteCntIsLiveWriters' <=> Counted(write_cnt', opened')
  BY CountMeans DEF WriteCntIsLiveWriters, Counted

\* The drops keep the count right when no writing descriptor is added.
LEMMA SetTablesCounts ==
  ASSUME Counted(write_cnt, opened), NEW tab, set_tables(tab),
         \A k \in Pipe : HasWriter(tab, k) => HasWriter(opened, k)
  PROVE  Counted(write_cnt', opened') /\ write_cnt' \in [Pipe -> Int]
<1>1. opened' = tab /\ write_cnt' = dec_write(write_cnt, opened, tab)
  BY DEF set_tables
<1>2. ASSUME NEW k \in Pipe
      PROVE  write_cnt'[k] = IF HasWriter(opened, k) /\ ~HasWriter(tab, k) THEN write_cnt[k] - 1 ELSE write_cnt[k]
  BY <1>1, LiveWriter DEF dec_write
<1>3. ASSUME NEW k \in Pipe PROVE write_cnt[k] = IF HasWriter(opened, k) THEN 1 ELSE 0
  BY DEF Counted
<1>4. ASSUME NEW k \in Pipe PROVE write_cnt'[k] = IF HasWriter(tab, k) THEN 1 ELSE 0
  BY <1>2, <1>3
<1>5. write_cnt' \in [Pipe -> Int]
  BY <1>1, <1>4 DEF dec_write
<1>. QED BY <1>1, <1>4, <1>5 DEF Counted

-----------------------------------------------------------------------------
TaskState == {"new", "running", "sleeping", "exited"}

LEMMA Types ==
  ASSUME FdIInv
  PROVE  /\ opened \in Tables /\ state \in [Task -> TaskState] /\ pipes \in 0..PIPES
         /\ write_cnt \in [Pipe -> Int] /\ held \in [Pipe -> 0..RING_BUFFER_SIZE]
         /\ wait_write \in [Task -> DFile] /\ Counted(write_cnt, opened)
         /\ stopped \in {"no", "Dead Lock!", "execve"}
  BY CountedNow DEF FdIInv, FdInv, FdTypeOK, Tables, TaskState

LEMMA PipesRange ==
  ASSUME FdIInv
  PROVE  0 <= pipes
<1>1. pipes \in 0..PIPES
  BY Types
<1>. QED BY <1>1, FdAssumption

\* What is left to show of a step that leaves the buffers and the sleepers.
LEMMA QuietInv ==
  ASSUME FdIInv, UNCHANGED <<held, wait_write, stopped>>,
         opened' \in Tables, state' \in [Task -> TaskState], pipes' \in 0..PIPES,
         write_cnt' \in [Pipe -> Int], TablesAreBacked', Counted(write_cnt', opened')
  PROVE  FdIInv'
<1>1. FdTypeOK'
  BY Types DEF FdTypeOK, Tables, TaskState
<1>2. OneSleeperPerFile'
  BY DEF FdIInv, FdInv, OneSleeperPerFile
<1>. QED BY <1>1, <1>2, CountedNow DEF FdIInv, FdInv

LEMMA ReturnsInv ==
  ASSUME FdIInv, NEW fn, NEW ret, returns(fn, ret),
         opened' \in Tables, state' \in [Task -> TaskState], pipes' \in 0..PIPES,
         write_cnt' \in [Pipe -> Int], TablesAreBacked', Counted(write_cnt', opened')
  PROVE  FdIInv'
<1>1. UNCHANGED <<held, wait_write, stopped>>
  BY DEF returns
<1>. QED BY <1>1, QuietInv

\* The running caller's table changes, to files of pipes that were made.
LEMMA CallerBacked ==
  ASSUME FdIInv, NEW t \in Task, state[t] = "running", UNCHANGED <<state, pipes>>,
         \A u \in Task : u # t => opened'[u] = opened[u],
         \A fd \in Fd : opened'[t][fd].pipe <= pipes
  PROVE  TablesAreBacked'
  BY DEF FdIInv, FdInv, TablesAreBacked

\* A call that only returns.
LEMMA SameTablesInv ==
  ASSUME FdIInv, NEW fn, NEW ret, returns(fn, ret), UNCHANGED fileVars
  PROVE  FdIInv'
<1>1. UNCHANGED <<opened, state, pipes, write_cnt>>
  BY DEF fileVars
<1>2. TablesAreBacked'
  BY <1>1 DEF FdIInv, FdInv, TablesAreBacked
<1>. QED BY <1>1, <1>2, Types, ReturnsInv

LEMMA PanicInv ==
  ASSUME FdIInv, NEW why \in {"Dead Lock!", "execve"}, panic(why)
  PROVE  FdIInv'
<1>1. UNCHANGED <<opened, state, pipes, write_cnt, held, wait_write>> /\ stopped' = why
  BY DEF panic, fileVars
<1>2. FdTypeOK'
  BY <1>1, Types DEF FdTypeOK, Tables, TaskState
<1>3. TablesAreBacked' /\ OneSleeperPerFile'
  BY <1>1 DEF FdIInv, FdInv, TablesAreBacked, OneSleeperPerFile
<1>. QED BY <1>1, <1>2, <1>3, Types, CountedNow DEF FdIInv, FdInv

LEMMA CloseInv ==
  ASSUME FdIInv, NEW t \in Task, NEW fd \in Fd, sys_close(t, fd)
  PROVE  FdIInv'
<1>. DEFINE tab == [opened EXCEPT ![t][fd] = None]
            ret == IF opened[t][fd] = None THEN -1 ELSE 0
<1>1. set_tables(tab) /\ returns("other", ret) /\ UNCHANGED <<state, pipes>> /\ state[t] = "running"
      /\ opened' = tab
  BY DEF sys_close, set_tables, can_call
<1>2. /\ tab \in Tables /\ None.pipe = 0
      /\ \A u \in Task, n \in Fd : tab[u][n] = IF u = t /\ n = fd THEN None ELSE opened[u][n]
      /\ \A u \in Task : u # t => tab[u] = opened[u]
  <2>1. opened \in Tables /\ None \in DFile /\ None.pipe = 0
    BY Types, Ends
  <2>2. tab = Put(opened, t, fd, None)
    BY DEF Put
  <2>. HIDE DEF tab
  <2>. QED BY <2>1, <2>2, OneSet
<1>. HIDE DEF tab, ret
<1>3. \A k \in Pipe : HasWriter(tab, k) => HasWriter(opened, k)
  BY <1>2, Ends DEF HasWriter
<1>4. Counted(write_cnt', opened') /\ write_cnt' \in [Pipe -> Int]
  BY <1>1, <1>3, Types, SetTablesCounts
<1>5. ASSUME NEW n \in Fd PROVE opened'[t][n].pipe <= pipes
  <2>1. 0 <= pipes
    BY PipesRange
  <2>2. opened'[t][n] = None \/ opened'[t][n] = opened[t][n]
    BY <1>1, <1>2
  <2>. QED BY <1>2, <2>1, <2>2 DEF FdIInv, FdInv, TablesAreBacked
<1>6. TablesAreBacked'
  BY <1>1, <1>2, <1>5, CallerBacked
<1>. QED BY <1>1, <1>2, <1>4, <1>6, Types, ReturnsInv

LEMMA Dup3Inv ==
  ASSUME FdIInv, NEW t \in Task, NEW fd \in Fd, NEW new \in Number, dup3(t, fd, new)
  PROVE  FdIInv'
<1>. DEFINE tab == [opened EXCEPT ![t][new] = opened[t][fd]]
<1>1. CASE opened[t][fd] # None /\ new \in Fd
  <2>1. set_tables(tab) /\ returns("other", 0) /\ UNCHANGED <<state, pipes>> /\ state[t] = "running"
        /\ opened' = tab
    BY <1>1 DEF dup3, set_tables, can_call
  <2>2. opened[t][fd] \in DFile
    BY Types DEF Tables
  <2>3. /\ tab \in Tables
        /\ \A u \in Task, n \in Fd : tab[u][n] = IF u = t /\ n = new THEN opened[t][fd] ELSE opened[u][n]
        /\ \A u \in Task : u # t => tab[u] = opened[u]
    <3>1. opened \in Tables
      BY Types
    <3>2. tab = Put(opened, t, new, opened[t][fd])
      BY DEF Put
    <3>. HIDE DEF tab
    <3>. QED BY <1>1, <2>2, <3>1, <3>2, OneSet
  <2>. HIDE DEF tab
  <2>4. \A k \in Pipe : HasWriter(tab, k) => HasWriter(opened, k)
    BY <2>3 DEF HasWriter
  <2>5. Counted(write_cnt', opened') /\ write_cnt' \in [Pipe -> Int]
    BY <2>1, <2>4, Types, SetTablesCounts
  <2>6. \A n \in Fd : opened'[t][n].pipe <= pipes
    BY <2>1, <2>3 DEF FdIInv, FdInv, TablesAreBacked
  <2>7. TablesAreBacked'
    BY <2>1, <2>3, <2>6, CallerBacked
  <2>. QED BY <2>1, <2>3, <2>5, <2>7, Types, ReturnsInv
<1>2. CASE ~(opened[t][fd] # None /\ new \in Fd)
  BY <1>2, SameTablesInv DEF dup3, fileVars
<1>. QED BY <1>1, <1>2

\* A free descriptor is opened on a file that has a writer already, or is none.
LEMMA FreeSlotInv ==
  ASSUME FdIInv, NEW t \in Task, state[t] = "running", NEW new \in Fd, opened[t][new] = None,
         NEW x \in DFile, x.pipe <= pipes,
         \A k \in Pipe : x = write_end(k) => HasWriter(opened, k),
         opened' = Put(opened, t, new, x), UNCHANGED <<state, pipes, write_cnt>>,
         NEW fn, NEW ret, returns(fn, ret)
  PROVE  FdIInv'
<1>1. /\ opened' \in Tables
      /\ \A u \in Task, n \in Fd : opened'[u][n] = IF u = t /\ n = new THEN x ELSE opened[u][n]
      /\ \A u \in Task : u # t => opened'[u] = opened[u]
  <2>1. opened \in Tables
    BY Types
  <2>. QED BY <2>1, OneSet
<1>2. ASSUME NEW k \in Pipe PROVE HasWriter(opened', k) <=> HasWriter(opened, k)
  BY <1>1, Ends DEF HasWriter
<1>3. Counted(write_cnt', opened')
  BY <1>2, Types DEF Counted
<1>4. \A n \in Fd : opened'[t][n].pipe <= pipes
  BY <1>1 DEF FdIInv, FdInv, TablesAreBacked
<1>5. TablesAreBacked'
  BY <1>1, <1>4, CallerBacked
<1>. QED BY <1>1, <1>3, <1>5, Types, ReturnsInv

LEMMA DupInv ==
  ASSUME FdIInv, NEW t \in Task, NEW fd \in Fd, NEW start \in Number, NEW cloexec \in BOOLEAN,
         dup_from(t, fd, start, cloexec)
  PROVE  FdIInv'
<1>. DEFINE new == alloc_opened(opened[t], start)
            ok == opened[t][fd] # None /\ new # -1
<1>1. CASE ok /\ cloexec /\ locked(opened[t][fd])
  BY <1>1, PanicInv DEF dup_from
<1>2. CASE ok /\ ~(cloexec /\ locked(opened[t][fd]))
  <2>1. /\ opened' = Put(opened, t, new, opened[t][fd]) /\ returns("other", 0)
        /\ UNCHANGED <<state, pipes, write_cnt>> /\ state[t] = "running"
    BY <1>2 DEF dup_from, can_call, Put
  <2>2. opened[t] \in [Fd -> DFile] /\ opened[t][fd] \in DFile
    BY Types DEF Tables
  <2>3. new \in Fd /\ opened[t][new] = None
    BY <1>2, <2>2, AllocIsFree
  <2>4. opened[t][fd].pipe <= pipes
    BY DEF FdIInv, FdInv, TablesAreBacked
  <2>5. \A k \in Pipe : opened[t][fd] = write_end(k) => HasWriter(opened, k)
    BY DEF HasWriter
  <2>. HIDE DEF new
  <2>. QED BY <2>1, <2>2, <2>3, <2>4, <2>5, FreeSlotInv
<1>3. CASE ~ok
  BY <1>3, SameTablesInv DEF dup_from, fileVars
<1>. QED BY <1>1, <1>2, <1>3

LEMMA OpenInv ==
  ASSUME FdIInv, NEW t \in Task, NEW dirfd \in Fd \cup {AT_FDCWD}, NEW found \in BOOLEAN,
         sys_openat(t, dirfd, found)
  PROVE  FdIInv'
<1>. DEFINE new == alloc_opened(opened[t], 0)
            dir == IF dirfd = AT_FDCWD THEN Other ELSE opened[t][dirfd]
            ok == dir = Other /\ found /\ new # -1
            stuck == dir # None /\ locked(dir)
<1>0. CASE stuck
  BY <1>0, PanicInv DEF sys_openat
<1>1. CASE ~stuck /\ ok
  <2>1. /\ opened' = Put(opened, t, new, Other) /\ returns("other", 0)
        /\ UNCHANGED <<state, pipes, write_cnt>> /\ state[t] = "running"
    BY <1>1 DEF sys_openat, can_call, Put
  <2>2. opened[t] \in [Fd -> DFile]
    BY Types DEF Tables
  <2>20. 0 \in Fd
    BY FdAssumption DEF Fd
  <2>3. new \in Fd /\ opened[t][new] = None
    BY <1>1, <2>2, <2>20, AllocIsFree
  <2>40. 0 <= pipes
    BY PipesRange
  <2>4. Other \in DFile /\ Other.pipe <= pipes /\ \A k \in Pipe : Other # write_end(k)
    BY <2>40, Ends
  <2>. HIDE DEF new
  <2>. QED BY <2>1, <2>3, <2>4, FreeSlotInv
<1>2. CASE ~stuck /\ ~ok
  BY <1>2, SameTablesInv DEF sys_openat, fileVars
<1>. QED BY <1>0, <1>1, <1>2

\* The call makes pipe pipes + 1, of which no table has a descriptor yet.
LEMMA NewPipe ==
  ASSUME FdIInv, pipes < PIPES
  PROVE  /\ pipes + 1 \in Pipe /\ pipes + 1 \in 0..PIPES /\ pipes <= pipes + 1
         /\ ~HasWriter(opened, pipes + 1)
<1>1. pipes \in 0..PIPES
  BY Types
<1>2. /\ pipes + 1 \in Pipe /\ pipes + 1 \in 0..PIPES /\ pipes <= pipes + 1
      /\ ~(pipes + 1 <= pipes)
  BY <1>1, FdAssumption DEF Pipe
<1>3. write_end(pipes + 1).pipe = pipes + 1
  BY <1>2, Ends
<1>4. ~HasWriter(opened, pipes + 1)
  BY <1>2, <1>3 DEF HasWriter, FdIInv, FdInv, TablesAreBacked
<1>. QED BY <1>2, <1>4

\* The caller's table gets the two ends in two free places.
LEMMA TwoEnds ==
  ASSUME NEW tab \in [Fd -> DFile], NEW k \in Pipe,
         NEW readfd \in Fd, tab[readfd] = None,
         NEW with_read, with_read = [tab EXCEPT ![readfd] = read_end(k)],
         NEW writefd \in Fd, with_read[writefd] = None,
         NEW new, new = [with_read EXCEPT ![writefd] = write_end(k)]
  PROVE  /\ new \in [Fd -> DFile] /\ new[writefd] = write_end(k)
         /\ \A j \in Pipe : j # k =>
              \A n \in Fd : new[n] = write_end(j) <=> tab[n] = write_end(j)
         /\ \A n \in Fd : new[n] = tab[n] \/ new[n].pipe = k
<1>1. /\ read_end(k) \in DFile /\ write_end(k) \in DFile /\ read_end(k) # None
      /\ read_end(k).pipe = k /\ write_end(k).pipe = k
      /\ \A j \in Pipe : /\ write_end(j) # None /\ read_end(k) # write_end(j)
                         /\ write_end(j) = write_end(k) => j = k
  BY Ends
<1>2. with_read \in [Fd -> DFile]
      /\ \A n \in Fd : with_read[n] = IF n = readfd THEN read_end(k) ELSE tab[n]
  BY <1>1
<1>3. new \in [Fd -> DFile]
      /\ \A n \in Fd : new[n] = IF n = writefd THEN write_end(k) ELSE with_read[n]
  BY <1>1, <1>2
<1>4. writefd # readfd /\ tab[writefd] = None
  BY <1>1, <1>2
<1>. QED BY <1>1, <1>2, <1>3, <1>4

LEMMA PipeCallInv ==
  ASSUME FdIInv, NEW t \in Task, sys_pipe(t)
  PROVE  FdIInv'
<1>. DEFINE k == pipes + 1
            readfd == alloc_opened(opened[t], 0)
            with_read == [opened[t] EXCEPT ![readfd] = read_end(k)]
            writefd == alloc_opened(with_read, 0)
            new == [with_read EXCEPT ![writefd] = write_end(k)]
            ok == readfd # -1 /\ writefd # -1
<1>1. /\ state[t] = "running" /\ pipes < PIPES /\ pipes' = k
      /\ UNCHANGED <<state, held, wait_write, stopped>>
  BY DEF sys_pipe, can_call
<1>2. /\ k \in Pipe /\ k \in 0..PIPES /\ pipes <= k /\ ~HasWriter(opened, k)
      /\ k \in Nat /\ pipes \in Nat
  <2>1. pipes \in 0..PIPES
    BY Types
  <2>2. pipes \in Nat /\ k \in Nat
    BY <2>1, FdAssumption
  <2>. QED BY <1>1, <2>2, NewPipe
<1>3. /\ opened' = IF ok THEN [opened EXCEPT ![t] = new] ELSE opened
      /\ write_cnt' = [write_cnt EXCEPT ![k] = IF ok THEN 1 ELSE 0]
  BY DEF sys_pipe
<1>. HIDE DEF k
<1>4. write_cnt' \in [Pipe -> Int]
      /\ \A j \in Pipe : write_cnt'[j] = IF j = k THEN (IF ok THEN 1 ELSE 0) ELSE write_cnt[j]
  <2>1. write_cnt \in [Pipe -> Int]
    BY Types
  <2>. HIDE DEF ok
  <2>. QED BY <1>2, <1>3, <2>1
<1>5. opened[t] \in [Fd -> DFile] /\ 0 \in Fd /\ opened \in Tables
  <2>1. 0 \in Fd
    BY FdAssumption DEF Fd
  <2>. QED BY <2>1, Types DEF Tables
<1>6. CASE ok
  <2>1. readfd \in Fd /\ opened[t][readfd] = None
    BY <1>5, <1>6, AllocIsFree
  <2>2. with_read \in [Fd -> DFile]
    <3>1. read_end(k) \in DFile
      BY <1>2, Ends
    <3>. HIDE DEF readfd
    <3>. QED BY <1>5, <2>1, <3>1
  <2>3. writefd \in Fd /\ with_read[writefd] = None
    <3>. HIDE DEF with_read
    <3>. QED BY <1>5, <1>6, <2>2, AllocIsFree
  <2>4. /\ new \in [Fd -> DFile] /\ new[writefd] = write_end(k)
        /\ \A j \in Pipe : j # k =>
             \A n \in Fd : new[n] = write_end(j) <=> opened[t][n] = write_end(j)
        /\ \A n \in Fd : new[n] = opened[t][n] \/ new[n].pipe = k
    <3>1. with_read = [opened[t] EXCEPT ![readfd] = read_end(k)]
      OBVIOUS
    <3>2. new = [with_read EXCEPT ![writefd] = write_end(k)]
      OBVIOUS
    <3>. HIDE DEF readfd, with_read, writefd, new
    <3>. QED BY <1>2, <1>5, <2>1, <2>3, <3>1, <3>2, TwoEnds
  <2>. opened' = [opened EXCEPT ![t] = new]
    BY <1>3, <1>6
  <2>. HIDE DEF readfd, with_read, writefd, new
  <2>5. opened' \in Tables /\ \A u \in Task : opened'[u] = IF u = t THEN new ELSE opened[u]
    BY <1>5, <2>4 DEF Tables
  <2>6. HasWriter(opened', k)
    BY <2>3, <2>4, <2>5 DEF HasWriter
  <2>7. ASSUME NEW j \in Pipe, j # k PROVE HasWriter(opened', j) <=> HasWriter(opened, j)
    BY <2>4, <2>5, <2>7 DEF HasWriter
  <2>8. Counted(write_cnt', opened')
    BY <1>4, <1>6, <2>6, <2>7, Types DEF Counted
  <2>9. ASSUME NEW u \in Task, NEW n \in Fd PROVE opened'[u][n].pipe <= pipes'
    <3>1. opened[u][n].pipe <= pipes
      BY DEF FdIInv, FdInv, TablesAreBacked
    <3>2. opened'[u][n] = opened[u][n] \/ opened'[u][n].pipe = k
      BY <2>4, <2>5
    <3>3. opened[u][n].pipe \in Int
      <4>1. opened[u][n] \in DFile
        BY <1>5 DEF Tables
      <4>. QED BY <4>1 DEF DFile, None, Other, read_end, write_end, Pipe
    <3>. QED BY <1>1, <1>2, <3>1, <3>2, <3>3
  <2>10. ASSUME NEW u \in Task, state'[u] = "new" PROVE opened'[u] = empty_table
    BY <1>1, <2>5, <2>10 DEF FdIInv, FdInv, TablesAreBacked
  <2>11. TablesAreBacked'
    BY <2>9, <2>10 DEF TablesAreBacked, empty_table
  <2>. QED BY <1>1, <1>2, <1>4, <2>5, <2>8, <2>11, Types, QuietInv
<1>7. CASE ~ok
  <2>1. opened' = opened
    BY <1>3, <1>7
  <2>. HIDE DEF ok
  <2>2. Counted(write_cnt', opened')
    BY <1>2, <1>4, <1>7, <2>1, Types DEF Counted
  <2>3. ASSUME NEW u \in Task, NEW n \in Fd PROVE opened'[u][n].pipe <= pipes'
    <3>1. opened[u][n].pipe <= pipes
      BY DEF FdIInv, FdInv, TablesAreBacked
    <3>3. opened[u][n].pipe \in Int
      <4>1. opened[u][n] \in DFile
        BY <1>5 DEF Tables
      <4>. QED BY <4>1 DEF DFile, None, Other, read_end, write_end, Pipe
    <3>. QED BY <1>1, <1>2, <2>1, <3>1, <3>3
  <2>4. TablesAreBacked'
    BY <1>1, <2>1, <2>3 DEF FdIInv, FdInv, TablesAreBacked, empty_table
  <2>. QED BY <1>1, <1>2, <1>4, <1>5, <2>1, <2>2, <2>4, Types, QuietInv
<1>. QED BY <1>6, <1>7

\* fork gives the tables of tasks that exist a copy, and execve replaces the
\* caller's by the terminals.
LEMMA ForkInv ==
  ASSUME FdIInv, NEW t \in Task, NEW c \in Task, do_fork(t, c)
  PROVE  FdIInv'
<1>1. /\ state[t] = "running" /\ state[c] = "new" /\ UNCHANGED <<pipes, write_cnt>>
      /\ opened' = [opened EXCEPT ![c] = opened[t]] /\ returns("other", 0)
      /\ state' = [state EXCEPT ![c] = "running"]
  BY DEF do_fork, can_call
<1>2. opened \in Tables /\ opened[t] \in [Fd -> DFile] /\ state \in [Task -> TaskState]
      /\ "running" \in TaskState
  BY Types DEF Tables, TaskState
<1>3. /\ opened' \in Tables
      /\ \A u \in Task : opened'[u] = IF u = c THEN opened[t] ELSE opened[u]
  BY <1>1, <1>2 DEF Tables
<1>4. /\ state' \in [Task -> TaskState]
      /\ \A u \in Task : state'[u] = IF u = c THEN "running" ELSE state[u]
  BY <1>1, <1>2
<1>5. opened[c] = empty_table /\ \A n \in Fd : opened[c][n] = None
  BY <1>1 DEF FdIInv, FdInv, TablesAreBacked, empty_table
<1>6. ASSUME NEW k \in Pipe PROVE HasWriter(opened', k) <=> HasWriter(opened, k)
  BY <1>3, <1>5, Ends DEF HasWriter
<1>7. Counted(write_cnt', opened')
  BY <1>1, <1>6, Types DEF Counted
<1>8. TablesAreBacked'
  BY <1>1, <1>3, <1>4 DEF FdIInv, FdInv, TablesAreBacked, empty_table
<1>. QED BY <1>1, <1>3, <1>4, <1>7, <1>8, Types, ReturnsInv

LEMMA ExecveInv ==
  ASSUME FdIInv, NEW t \in Task, NEW found \in BOOLEAN, sys_execve(t, found)
  PROVE  FdIInv'
<1>1. CASE found
  <2>. DEFINE tab == [opened EXCEPT ![t] = stdio]
  <2>1. /\ set_tables(tab) /\ returns("execve", 0) /\ UNCHANGED <<state, pipes>>
        /\ state[t] = "running" /\ opened' = tab
    BY <1>1 DEF sys_execve, can_call, set_tables
  <2>2. stdio \in [Fd -> DFile] /\ \A n \in Fd : stdio[n] = None \/ stdio[n] = Other
    BY Ends DEF stdio
  <2>3. opened \in Tables
    BY Types
  <2>4. tab \in Tables /\ \A u \in Task : tab[u] = IF u = t THEN stdio ELSE opened[u]
    BY <2>2, <2>3 DEF Tables
  <2>. HIDE DEF tab
  <2>5. \A k \in Pipe : HasWriter(tab, k) => HasWriter(opened, k)
    BY <2>2, <2>4, Ends DEF HasWriter
  <2>6. Counted(write_cnt', opened') /\ write_cnt' \in [Pipe -> Int]
    BY <2>1, <2>5, Types, SetTablesCounts
  <2>7. \A n \in Fd : opened'[t][n].pipe <= pipes
    BY <2>1, <2>2, <2>4, Ends, PipesRange
  <2>8. TablesAreBacked'
    BY <2>1, <2>4, <2>7, CallerBacked
  <2>. QED BY <2>1, <2>4, <2>6, <2>8, Types, ReturnsInv
<1>2. CASE ~found
  BY <1>2, PanicInv DEF sys_execve
<1>. QED BY <1>1, <1>2

\* Only the state of a task that exists changes, to one of a task that exists.
LEMMA StateInv ==
  ASSUME FdIInv, UNCHANGED <<opened, pipes, write_cnt>>,
         NEW t \in Task, state[t] = "running",
         NEW s \in {"sleeping", "exited"}, state' = [state EXCEPT ![t] = s]
  PROVE  /\ state' \in [Task -> TaskState] /\ TablesAreBacked'
         /\ \A u \in Task : state'[u] = IF u = t THEN s ELSE state[u]
<1>1. state \in [Task -> TaskState] /\ s \in TaskState
  BY Types DEF TaskState
<1>2. /\ state' \in [Task -> TaskState]
      /\ \A u \in Task : state'[u] = IF u = t THEN s ELSE state[u]
  BY <1>1
<1>3. TablesAreBacked'
  BY <1>2 DEF FdIInv, FdInv, TablesAreBacked, empty_table
<1>. QED BY <1>2, <1>3

LEMMA ExitInv ==
  ASSUME FdIInv, NEW t \in Task, exit_self(t)
  PROVE  FdIInv'
<1>1. /\ state' = [state EXCEPT ![t] = "exited"] /\ returns("other", 0) /\ state[t] = "running"
      /\ UNCHANGED <<opened, pipes, write_cnt>>
  BY DEF exit_self, can_call
<1>2. state' \in [Task -> TaskState] /\ TablesAreBacked'
  BY <1>1, StateInv
<1>. QED BY <1>1, <1>2, Types, ReturnsInv

LEMMA FlagInv ==
  ASSUME FdIInv, NEW t \in Task, NEW fd \in Fd, fcntl_flag(t, fd)
  PROVE  FdIInv'
  BY PanicInv, SameTablesInv DEF fcntl_flag

-----------------------------------------------------------------------------
\* Reading, writing and sleeping leave the tables alone.
LEMMA BufferInv ==
  ASSUME FdIInv, UNCHANGED <<opened, pipes, write_cnt, stopped>>,
         held' \in [Pipe -> 0..RING_BUFFER_SIZE], wait_write' \in [Task -> DFile],
         state' \in [Task -> TaskState], TablesAreBacked', OneSleeperPerFile'
  PROVE  FdIInv'
<1>1. FdTypeOK'
  BY Types DEF FdTypeOK, Tables, TaskState
<1>. QED BY <1>1, Types, CountedNow DEF FdIInv, FdInv

LEMMA RefusedInv ==
  ASSUME FdIInv, NEW ret, refused(ret)
  PROVE  FdIInv'
  BY SameTablesInv DEF refused

\* A byte goes in where there is room, or out where there is one.
LEMMA HeldStays ==
  ASSUME FdIInv, NEW k \in Pipe, NEW n \in {-1, 1}, held' = [held EXCEPT ![k] = @ + n],
         n = 1 => held[k] < RING_BUFFER_SIZE, n = -1 => held[k] > 0
  PROVE  held' \in [Pipe -> 0..RING_BUFFER_SIZE]
<1>1. held \in [Pipe -> 0..RING_BUFFER_SIZE] /\ RING_BUFFER_SIZE \in Nat
  BY Types, FdAssumption
<1>2. held[k] + n \in 0..RING_BUFFER_SIZE
  BY <1>1
<1>. QED BY <1>1, <1>2

LEMMA PipeOf ==
  ASSUME FdIInv, NEW t \in Task, NEW fd \in Fd, opened[t][fd].class = "pipe"
  PROVE  opened[t][fd] \in DFile /\ opened[t][fd].pipe \in Pipe /\ opened[t][fd] # None
<1>1. opened[t][fd] \in DFile
  BY Types DEF Tables
<1>. QED BY <1>1, PipeEnds

LEMMA TransferInv ==
  ASSUME FdIInv, NEW k \in Pipe, NEW n \in {-1, 1}, transfers(k, n),
         n = 1 => held[k] < RING_BUFFER_SIZE, n = -1 => held[k] > 0,
         state' \in [Task -> TaskState], \A u \in Task : state'[u] = "new" => state[u] = "new"
  PROVE  FdIInv'
<1>1. /\ held' = [held EXCEPT ![k] = @ + n]
      /\ UNCHANGED <<opened, pipes, write_cnt, wait_write, stopped>>
  BY DEF transfers
<1>2. held' \in [Pipe -> 0..RING_BUFFER_SIZE]
  BY <1>1, HeldStays
<1>3. TablesAreBacked' /\ OneSleeperPerFile'
  BY <1>1 DEF FdIInv, FdInv, TablesAreBacked, OneSleeperPerFile, empty_table
<1>. QED BY <1>1, <1>2, <1>3, Types, BufferInv

LEMMA ReadInv ==
  ASSUME FdIInv, NEW t \in Task, NEW fd \in Fd, sys_read(t, fd)
  PROVE  FdIInv'
<1>. DEFINE f == opened[t][fd]
            k == f.pipe
<1>1. f.class = "pipe" /\ f \in DFile /\ k \in Pipe
  BY PipeOf DEF sys_read
<1>2. CASE refused(-1) \/ refused(0) \/ panic("Dead Lock!")
  BY <1>2, RefusedInv, PanicInv
<1>3. CASE held[k] > 0 /\ transfers(k, -1) /\ wake_up_write(k)
  <2>1. state' \in [Task -> TaskState] /\ \A u \in Task : state'[u] = "new" => state[u] = "new"
    BY <1>3, Types DEF wake_up_write, TaskState
  <2>. HIDE DEF k
  <2>. QED BY <1>1, <1>3, <2>1, TransferInv
<1>4. \/ refused(-1) \/ refused(0) \/ panic("Dead Lock!")
      \/ held[k] > 0 /\ transfers(k, -1) /\ wake_up_write(k)
  BY DEF sys_read
<1>. QED BY <1>2, <1>3, <1>4

LEMMA WriteInv ==
  ASSUME FdIInv, NEW t \in Task, NEW fd \in Fd, sys_write(t, fd)
  PROVE  FdIInv'
<1>. DEFINE f == opened[t][fd]
            k == f.pipe
<1>1. f.class = "pipe" /\ f \in DFile /\ k \in Pipe
  BY PipeOf DEF sys_write
<1>2. CASE refused(-1) \/ panic("Dead Lock!")
  BY <1>2, RefusedInv, PanicInv
<1>3. CASE held[k] < RING_BUFFER_SIZE /\ transfers(k, 1) /\ UNCHANGED state
  <2>1. state' \in [Task -> TaskState] /\ \A u \in Task : state'[u] = "new" => state[u] = "new"
    BY <1>3, Types
  <2>2. 1 \in {-1, 1} /\ 1 # -1
    OBVIOUS
  <2>. HIDE DEF k
  <2>. QED BY <1>1, <1>3, <2>1, <2>2, TransferInv
<1>4. \/ refused(-1) \/ panic("Dead Lock!")
      \/ held[k] < RING_BUFFER_SIZE /\ transfers(k, 1) /\ UNCHANGED state
  BY DEF sys_write
<1>. QED BY <1>2, <1>3, <1>4

LEMMA WritevInv ==
  ASSUME FdIInv, NEW t \in Task, NEW fd \in Fd, sys_writev(t, fd)
  PROVE  FdIInv'
<1>. DEFINE f == opened[t][fd]
            k == f.pipe
            sleeps == /\ wait_write' = [wait_write EXCEPT ![t] = f]
                      /\ state' = [state EXCEPT ![t] = "sleeping"]
                      /\ UNCHANGED <<opened, pipes, write_cnt, held, stopped>>
<1>1. f.class = "pipe" /\ f \in DFile /\ k \in Pipe /\ f # None /\ state[t] = "running"
  BY PipeOf DEF sys_writev, can_call
<1>2. CASE refused(-1) \/ panic("Dead Lock!")
  BY <1>2, RefusedInv, PanicInv
<1>3. CASE held[k] < RING_BUFFER_SIZE /\ transfers(k, 1) /\ UNCHANGED state
  <2>1. state' \in [Task -> TaskState] /\ \A u \in Task : state'[u] = "new" => state[u] = "new"
    BY <1>3, Types
  <2>2. 1 \in {-1, 1} /\ 1 # -1
    OBVIOUS
  <2>. HIDE DEF k
  <2>. QED BY <1>1, <1>3, <2>1, <2>2, TransferInv
<1>4. CASE ~locked(f) /\ sleeps
  <2>1. state' \in [Task -> TaskState] /\ TablesAreBacked'
    BY <1>1, <1>4, StateInv
  <2>2. /\ wait_write' \in [Task -> DFile]
        /\ \A u \in Task : wait_write'[u] = IF u = t THEN f ELSE wait_write[u]
    BY <1>1, <1>4, Types
  <2>3. \A u \in Task : wait_write[u] # f
    BY <1>4 DEF locked
  <2>4. OneSleeperPerFile'
    BY <1>1, <2>2, <2>3 DEF FdIInv, FdInv, OneSleeperPerFile
  <2>. QED BY <1>4, <2>1, <2>2, <2>4, Types, BufferInv
<1>5. \/ refused(-1) \/ panic("Dead Lock!")
      \/ ~locked(f) /\ sleeps
      \/ held[k] < RING_BUFFER_SIZE /\ transfers(k, 1) /\ UNCHANGED state
  BY Zenon DEF sys_writev
<1>. QED BY <1>2, <1>3, <1>4, <1>5

LEMMA ResumeInv ==
  ASSUME FdIInv, NEW t \in Task, resume_writev(t)
  PROVE  FdIInv'
<1>. DEFINE k == wait_write[t].pipe
<1>1. state[t] = "running" /\ UNCHANGED <<opened, pipes, write_cnt, stopped>>
  BY DEF resume_writev, can_call, fileVars
<1>2. CASE held[k] < RING_BUFFER_SIZE
  <2>1. /\ held' = [held EXCEPT ![k] = @ + 1] /\ wait_write' = [wait_write EXCEPT ![t] = None]
        /\ UNCHANGED <<state, stopped>>
    BY <1>2 DEF resume_writev, fileVars
  <2>2. held' \in [Pipe -> 0..RING_BUFFER_SIZE]
    <3>1. CASE k \in Pipe
      <4>1. 1 \in {-1, 1} /\ 1 # -1
        OBVIOUS
      <4>. HIDE DEF k
      <4>. QED BY <1>2, <2>1, <3>1, <4>1, HeldStays
    <3>2. CASE k \notin Pipe
      BY <2>1, <3>2, Types
    <3>. QED BY <3>1, <3>2
  <2>3. /\ wait_write' \in [Task -> DFile]
        /\ \A u \in Task : wait_write'[u] = IF u = t THEN None ELSE wait_write[u]
    BY <2>1, Types, Ends
  <2>4. OneSleeperPerFile'
    BY <2>3 DEF FdIInv, FdInv, OneSleeperPerFile
  <2>5. TablesAreBacked'
    BY <1>1, <2>1 DEF FdIInv, FdInv, TablesAreBacked
  <2>. QED BY <1>1, <2>1, <2>2, <2>3, <2>4, <2>5, Types, BufferInv
<1>3. CASE ~(held[k] < RING_BUFFER_SIZE)
  <2>1. state' = [state EXCEPT ![t] = "sleeping"] /\ UNCHANGED <<held, wait_write>>
    BY <1>3 DEF resume_writev
  <2>2. state' \in [Task -> TaskState] /\ TablesAreBacked'
    BY <1>1, <2>1, StateInv
  <2>3. OneSleeperPerFile'
    BY <2>1 DEF FdIInv, FdInv, OneSleeperPerFile
  <2>. QED BY <1>1, <2>1, <2>2, <2>3, Types, BufferInv
<1>. QED BY <1>2, <1>3

-----------------------------------------------------------------------------
LEMMA FdInitInv == FdInit => FdIInv
<1>. SUFFICES ASSUME FdInit PROVE FdIInv
  OBVIOUS
<1>1. None \in DFile /\ Other \in DFile /\ None.pipe = 0 /\ Other.pipe = 0
  BY Ends
<1>2. /\ opened \in Tables
      /\ \A t \in Task, fd \in Fd : opened[t][fd] = None \/ opened[t][fd] = Other
      /\ \A t \in Task : state[t] = "new" => opened[t] = empty_table
  BY <1>1 DEF FdInit, Tables, stdio, empty_table
<1>3. \A k \in Pipe : ~HasWriter(opened, k)
  BY <1>2, Ends DEF HasWriter
<1>4. WriteCntIsLiveWriters
  BY <1>3, CountedNow DEF FdInit, Counted
<1>5. FdTypeOK
  BY <1>1, <1>2, FdAssumption DEF FdInit, FdTypeOK, Tables
<1>6. TablesAreBacked
  BY <1>1, <1>2 DEF FdInit, TablesAreBacked
<1>7. OneSleeperPerFile
  BY DEF FdInit, OneSleeperPerFile
<1>. QED BY <1>4, <1>5, <1>6, <1>7 DEF FdIInv, FdInv

LEMMA FdStepInv ==
  ASSUME FdIInv, [FdNext]_vars
  PROVE  FdIInv'
<1>1. CASE UNCHANGED vars \/ shut_down
  <2>1. UNCHANGED <<opened, state, pipes, write_cnt, held, wait_write, stopped>>
    BY <1>1 DEF vars, shut_down
  <2>2. TablesAreBacked' /\ OneSleeperPerFile'
    BY <2>1 DEF FdIInv, FdInv, TablesAreBacked, OneSleeperPerFile
  <2>. QED BY <2>1, <2>2, Types, BufferInv
<1>2. ASSUME NEW t \in Task, sys_pipe(t) \/ exit_self(t) PROVE FdIInv'
  BY <1>2, PipeCallInv, ExitInv
<1>3. ASSUME NEW t \in Task, NEW found \in BOOLEAN,
             (\E dirfd \in Fd \cup {AT_FDCWD} : sys_openat(t, dirfd, found)) \/ sys_execve(t, found)
      PROVE  FdIInv'
  BY <1>3, OpenInv, ExecveInv
<1>4. ASSUME NEW t \in Task, NEW c \in Task, do_fork(t, c) PROVE FdIInv'
  BY <1>4, ForkInv
<1>5. ASSUME NEW t \in Task, NEW fd \in Fd,
             \/ sys_close(t, fd) \/ fcntl_flag(t, fd)
             \/ sys_read(t, fd) \/ sys_write(t, fd) \/ sys_writev(t, fd)
      PROVE  FdIInv'
  BY <1>5, CloseInv, FlagInv, ReadInv, WriteInv, WritevInv
<1>6. ASSUME NEW t \in Task, NEW fd \in Fd, NEW new \in Number,
             (\E cloexec \in BOOLEAN : dup_from(t, fd, new, cloexec)) \/ dup3(t, fd, new)
      PROVE  FdIInv'
  BY <1>6, DupInv, Dup3Inv
<1>7. ASSUME NEW t \in Task, resume_writev(t) PROVE FdIInv'
  BY <1>7, ResumeInv
<1>. QED BY <1>1, <1>2, <1>3, <1>4, <1>5, <1>6, <1>7 DEF FdNext

\* Descriptors refer to what there is, and one task at a time sleeps with the lock
\* of a pipe's file, for any number of tasks, descriptors and pipes.
THEOREM FdInvariant == FdSpec => []FdInv
<1>1. FdIInv => FdInv
  BY DEF FdIInv
<1>. QED BY <1>1, FdInitInv, FdStepInv, PTL DEF FdSpec

\* The writer count of a pipe that decides between waiting and the end of the
\* data is the number of its writing files, after any sequence of calls.
THEOREM WriterCountIsRight == FdSpec => []WriteCntIsLiveWriters
<1>1. FdIInv => WriteCntIsLiveWriters
  BY DEF FdIInv
<1>. QED BY <1>1, FdInitInv, FdStepInv, PTL DEF FdSpec

-----------------------------------------------------------------------------
Failed == call'.ret = -1

SameFiles == UNCHANGED <<opened, write_cnt, held>>

\* Steps that return something else, or return it and change nothing.
LEMMA ReturnsFailed ==
  ASSUME NEW fn, NEW ret, returns(fn, ret)
  PROVE  UNCHANGED held /\ (Failed <=> ret = -1)
  BY DEF returns, Failed

LEMMA NoCallSucceeds == call' = no_call => ~Failed
  BY DEF no_call, Failed

\* Closing what is not open writes the same table back.
LEMMA CloseFailed ==
  ASSUME FdIInv, NEW t \in Task, NEW fd \in Fd, sys_close(t, fd), Failed
  PROVE  SameFiles
<1>. DEFINE tab == [opened EXCEPT ![t][fd] = None]
            ret == IF opened[t][fd] = None THEN -1 ELSE 0
<1>1. returns("other", ret) /\ opened' = tab /\ write_cnt' = dec_write(write_cnt, opened, tab)
  BY DEF sys_close, set_tables
<1>2. opened[t][fd] = None /\ UNCHANGED held
  BY <1>1, ReturnsFailed
<1>3. tab = opened
  <2>1. opened \in Tables /\ None \in DFile
    BY Types, Ends
  <2>2. tab = Put(opened, t, fd, None)
    BY DEF Put
  <2>. HIDE DEF tab
  <2>3. tab \in Tables /\ \A u \in Task, n \in Fd : tab[u][n] = opened[u][n]
    BY <1>2, <2>1, <2>2, OneSet
  <2>4. ASSUME NEW u \in Task PROVE tab[u] = opened[u]
    <3>1. tab[u] \in [Fd -> DFile] /\ opened[u] \in [Fd -> DFile]
      BY <2>1, <2>3 DEF Tables
    <3>. QED BY <2>3, <3>1
  <2>. QED BY <2>1, <2>3, <2>4 DEF Tables
<1>. HIDE DEF tab
<1>4. dec_write(write_cnt, opened, opened) = write_cnt
  BY Types DEF dec_write
<1>. QED BY <1>1, <1>2, <1>3, <1>4 DEF SameFiles

\* A pipe for which there is no room has no writer, before or after.
LEMMA PipeFailed ==
  ASSUME FdIInv, NEW t \in Task, sys_pipe(t), Failed
  PROVE  SameFiles
<1>. DEFINE k == pipes + 1
            readfd == alloc_opened(opened[t], 0)
            with_read == [opened[t] EXCEPT ![readfd] = read_end(k)]
            writefd == alloc_opened(with_read, 0)
            ok == readfd # -1 /\ writefd # -1
<1>1. ~ok
  <2>. SUFFICES ASSUME ok PROVE FALSE
    OBVIOUS
  <2>1. call' = [fn |-> "pipe", ret |-> 0, task |-> t, out |-> <<readfd, readfd>>]
    BY DEF sys_pipe
  <2>. QED BY <2>1 DEF Failed
<1>2. /\ opened' = opened /\ UNCHANGED held /\ pipes < PIPES
      /\ write_cnt' = [write_cnt EXCEPT ![k] = 0]
  BY <1>1 DEF sys_pipe
<1>3. k \in Pipe /\ ~HasWriter(opened, k)
  BY <1>2, NewPipe
<1>. HIDE DEF k
<1>4. write_cnt[k] = 0 /\ write_cnt \in [Pipe -> Int]
  BY <1>3, Types DEF Counted
<1>5. write_cnt' = write_cnt
  BY <1>2, <1>3, <1>4
<1>. QED BY <1>2, <1>5 DEF SameFiles

LEMMA FailedLeavesNothing ==
  ASSUME FdIInv, FdNext, Failed
  PROVE  SameFiles
<1>1. ASSUME NEW t \in Task, exit_self(t) PROVE SameFiles
  BY <1>1, ReturnsFailed DEF exit_self
<1>2. ASSUME NEW t \in Task, NEW dirfd \in Fd \cup {AT_FDCWD}, NEW found \in BOOLEAN,
             sys_openat(t, dirfd, found)
      PROVE  SameFiles
  <2>. DEFINE dir == IF dirfd = AT_FDCWD THEN Other ELSE opened[t][dirfd]
              ok == dir = Other /\ found /\ alloc_opened(opened[t], 0) # -1
              stuck == dir # None /\ locked(dir)
  <2>1. CASE stuck
    BY <1>2, <2>1, NoCallSucceeds DEF sys_openat, panic
  <2>2. CASE ~stuck /\ ok
    <3>1. returns("other", 0)
      BY <1>2, <2>2 DEF sys_openat
    <3>. QED BY <3>1, ReturnsFailed
  <2>3. CASE ~stuck /\ ~ok
    BY <1>2, <2>3, ReturnsFailed DEF sys_openat, SameFiles
  <2>. QED BY <2>1, <2>2, <2>3
<1>3. ASSUME NEW t \in Task, NEW found \in BOOLEAN, sys_execve(t, found) PROVE SameFiles
  BY <1>3, ReturnsFailed, NoCallSucceeds DEF sys_execve, panic
<1>4. ASSUME NEW t \in Task, NEW c \in Task, do_fork(t, c) PROVE SameFiles
  BY <1>4, ReturnsFailed DEF do_fork
<1>5. ASSUME NEW t \in Task, NEW fd \in Fd, fcntl_flag(t, fd) PROVE SameFiles
  BY <1>5, ReturnsFailed, NoCallSucceeds DEF fcntl_flag, panic, SameFiles, fileVars
<1>6. ASSUME NEW t \in Task, NEW fd \in Fd, sys_read(t, fd) \/ sys_write(t, fd) \/ sys_writev(t, fd)
      PROVE  SameFiles
  <2>1. \/ call' = no_call
        \/ \E ret : refused(ret)
    BY <1>6 DEF sys_read, sys_write, sys_writev, transfers, panic
  <2>. QED BY <2>1, NoCallSucceeds, ReturnsFailed DEF refused, SameFiles, fileVars
<1>7. ASSUME NEW t \in Task, NEW fd \in Fd, NEW start \in Number, NEW cloexec \in BOOLEAN,
             dup_from(t, fd, start, cloexec)
      PROVE  SameFiles
  <2>. DEFINE ok == opened[t][fd] # None /\ alloc_opened(opened[t], start) # -1
  <2>1. CASE ok /\ cloexec /\ locked(opened[t][fd])
    BY <1>7, <2>1, NoCallSucceeds DEF dup_from, panic
  <2>2. CASE ok /\ ~(cloexec /\ locked(opened[t][fd]))
    <3>1. returns("other", 0)
      BY <1>7, <2>2 DEF dup_from
    <3>. QED BY <3>1, ReturnsFailed
  <2>3. CASE ~ok
    BY <1>7, <2>3, ReturnsFailed DEF dup_from, SameFiles
  <2>. QED BY <2>1, <2>2, <2>3
<1>8. ASSUME NEW t \in Task, NEW fd \in Fd, NEW new \in Number, dup3(t, fd, new) PROVE SameFiles
  <2>1. ~(opened[t][fd] # None /\ new \in Fd) /\ UNCHANGED held
    BY <1>8, ReturnsFailed DEF dup3
  <2>. QED BY <1>8, <2>1 DEF dup3, SameFiles
<1>9. ASSUME NEW t \in Task, resume_writev(t) PROVE SameFiles
  BY <1>9, NoCallSucceeds DEF resume_writev
<1>10. CASE shut_down
  BY <1>10 DEF shut_down, vars, SameFiles
<1>. QED BY <1>1, <1>2, <1>3, <1>4, <1>5, <1>6, <1>7, <1>8, <1>9, <1>10, PipeFailed, CloseFailed DEF FdNext

\* A call that returns an error leaves every table, count and buffer as it was:
\* above all a pipe call that finds room for one of the two ends only.
THEOREM FailedCallsLeaveNothing == FdSpec => FailureLeavesNothing
<1>1. ASSUME FdIInv, [FdNext]_vars
      PROVE  [call'.ret = -1 => UNCHANGED <<opened, write_cnt, held>>]_vars
  BY <1>1, FailedLeavesNothing DEF Failed, SameFiles
<1>. QED BY <1>1, FdInitInv, FdStepInv, PTL DEF FdSpec, FailureLeavesNothing
=============================================================================
