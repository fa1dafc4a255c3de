--------------------------- MODULE SchedulerProofs --------------------------
(***************************************************************************)
(* Proofs about the scheduler of kernel/src/task/mod.rs: the invariants that *)
(* module Scheduler states, for every set of tasks and of wait lists.        *)
(***************************************************************************)
EXTENDS Scheduler, Integers, TLAPS

\* The type of the variable list.
Lists == [ListName -> Seq(Task)]

\* OnOneListOnly of any lists ls.
OneList(ls) ==
  \A l1, l2 \in ListName :
    \A i \in 1..Len(ls[l1]) : \A j \in 1..Len(ls[l2]) :
      ls[l1][i] = ls[l2][j] => l1 = l2 /\ i = j

\* What re-queueing the current task does to each list: running_list loses its
\* front, the destination list gains the current task at its back.
LEMMA RequeuedShape ==
  ASSUME NEW ls \in Lists, NEW st, NEW assign \in ListName, RUNNING \in Task,
         Len(ls["running_list"]) > 1,
         NEW d, d = destination(st, assign),
         NEW new, new = requeued(ls, st, assign)
  PROVE  /\ d \in ListName
         /\ new \in Lists
         /\ \A l \in ListName : l # d /\ l # "running_list" => new[l] = ls[l]
         /\ d # "running_list" => /\ new["running_list"] = Tail(ls["running_list"])
                                  /\ new[d] = Append(ls[d], RUNNING)
         /\ d = "running_list" =>
              new["running_list"] = Append(Tail(ls["running_list"]), RUNNING)
<1>1. "running_list" \in ListName /\ "exit_list" \in ListName
  BY DEF ListName, StaticList
<1>2. d \in ListName
  BY <1>1 DEF destination
<1>3. ls["running_list"] \in Seq(Task) /\ ls["running_list"] # <<>>
  BY <1>1 DEF Lists
<1>4. Tail(ls["running_list"]) \in Seq(Task)
  BY <1>3
<1>. DEFINE popped == [ls EXCEPT !["running_list"] = Tail(@)]
<1>5. popped \in Lists
  BY <1>1, <1>4 DEF Lists
<1>6. new = [popped EXCEPT ![d] = Append(@, RUNNING)]
  BY DEF requeued
<1>7. popped[d] \in Seq(Task)
  BY <1>2, <1>5 DEF Lists
<1>8. Append(popped[d], RUNNING) \in Seq(Task)
  BY <1>7
<1>9. new \in Lists
  BY <1>2, <1>5, <1>6, <1>8 DEF Lists
<1>. QED BY <1>1, <1>2, <1>5, <1>6, <1>9 DEF Lists

\* A runnable task is pushed to the back of running_list itself.
LEMMA RequeuedRunning ==
  ASSUME NEW ls \in Lists, NEW st, NEW assign \in ListName,
         destination(st, assign) = "running_list"
  PROVE  requeued(ls, st, assign)["running_list"] = Append(Tail(ls["running_list"]), RUNNING)
  BY DEF requeued, Lists, ListName, StaticList

\* Where each element of the lists after the switch stood before it.
LEMMA RequeuedAt ==
  ASSUME NEW ls \in Lists, NEW st, NEW assign \in ListName, RUNNING \in Task,
         Len(ls["running_list"]) > 1, RUNNING = ls["running_list"][1],
         NEW d, d = destination(st, assign),
         NEW new, new = requeued(ls, st, assign),
         NEW l \in ListName, NEW i \in 1..Len(new[l])
  PROVE  /\ l = d /\ i = Len(new[l]) => new[l][i] = ls["running_list"][1]
         /\ ~(l = d /\ i = Len(new[l])) /\ l = "running_list" =>
              i + 1 \in 2..Len(ls[l]) /\ new[l][i] = ls[l][i + 1]
         /\ ~(l = d /\ i = Len(new[l])) /\ l # "running_list" =>
              i \in 1..Len(ls[l]) /\ new[l][i] = ls[l][i]
<1>1. "running_list" \in ListName
  BY DEF ListName, StaticList
<1>. DEFINE r == ls["running_list"]
<1>2. r \in Seq(Task) /\ ls[l] \in Seq(Task) /\ Len(r) > 1 /\ RUNNING = r[1]
  BY <1>1 DEF Lists
<1>3. Tail(r) \in Seq(Task) /\ Len(Tail(r)) = Len(r) - 1
      /\ \A k \in 1..Len(Tail(r)) : Tail(r)[k] = r[k + 1]
  BY <1>2
<1>4. CASE l = d /\ d # "running_list"
  <2>1. new[l] = Append(ls[l], RUNNING)
    BY <1>4, RequeuedShape
  <2>. QED BY <2>1, <1>2, <1>4
<1>5. CASE l = d /\ d = "running_list"
  <2>0. d = "running_list" => new["running_list"] = Append(Tail(ls["running_list"]), RUNNING)
    BY RequeuedRunning
  <2>1. new[l] = Append(Tail(r), RUNNING)
    BY <1>5, <2>0
  <2>2. Len(new[l]) = Len(Tail(r)) + 1
    BY <2>1, <1>3, <1>2
  <2>3. i \in 1..Len(Tail(r)) => new[l][i] = Tail(r)[i]
    BY <2>1, <1>3, <1>2
  <2>4. i = Len(Tail(r)) + 1 => new[l][i] = RUNNING
    BY <2>1, <1>3, <1>2
  <2>. QED BY <2>2, <2>3, <2>4, <1>2, <1>3, <1>5
<1>6. CASE l # d /\ l = "running_list"
  <2>1. new[l] = Tail(r)
    BY <1>6, RequeuedShape
  <2>. QED BY <2>1, <1>2, <1>3, <1>6
<1>7. CASE l # d /\ l # "running_list"
  <2>1. new[l] = ls[l]
    BY <1>7, RequeuedShape
  <2>. QED BY <2>1, <1>7
<1>. QED BY <1>4, <1>5, <1>6, <1>7

\* What OneList says of two positions that hold the same task.
LEMMA OneListUse ==
  ASSUME NEW ls, OneList(ls), NEW l1 \in ListName, NEW l2 \in ListName,
         NEW i \in 1..Len(ls[l1]), NEW j \in 1..Len(ls[l2]), ls[l1][i] = ls[l2][j]
  PROVE  l1 = l2 /\ i = j
  BY DEF OneList

\* Popping the front of running_list and pushing the current task elsewhere
\* duplicates nothing, provided the two are the same task.
LEMMA RequeuedOneList ==
  ASSUME NEW ls \in Lists, NEW st, NEW assign \in ListName, RUNNING \in Task,
         Len(ls["running_list"]) > 1, RUNNING = ls["running_list"][1],
         OneList(ls)
  PROVE  OneList(requeued(ls, st, assign))
<1>. DEFINE new == requeued(ls, st, assign)
            d == destination(st, assign)
            last(l, i) == l = d /\ i = Len(new[l])
            from_l(l, i) == IF last(l, i) THEN "running_list" ELSE l
            from_i(l, i) == IF last(l, i) THEN 1
                            ELSE IF l = "running_list" THEN i + 1 ELSE i
<1>1. "running_list" \in ListName /\ ls["running_list"] \in Seq(Task)
  BY DEF ListName, StaticList, Lists
<1>2. ASSUME NEW l \in ListName, NEW i \in 1..Len(new[l])
      PROVE  /\ from_l(l, i) \in ListName /\ from_i(l, i) \in 1..Len(ls[from_l(l, i)])
             /\ new[l][i] = ls[from_l(l, i)][from_i(l, i)]
  <2>1. CASE last(l, i)
    <3>1. new[l][i] = ls["running_list"][1]
      BY <2>1, RequeuedAt
    <3>2. 1 \in 1..Len(ls["running_list"])
      BY <1>1
    <3>. QED BY <1>1, <2>1, <3>1, <3>2
  <2>2. CASE ~last(l, i) /\ l = "running_list"
    <3>1. i + 1 \in 2..Len(ls[l]) /\ new[l][i] = ls[l][i + 1]
      BY <2>2, RequeuedAt
    <3>2. i + 1 \in 1..Len(ls[l])
      BY <3>1, <1>1, <2>2
    <3>. QED BY <2>2, <3>1, <3>2
  <2>3. CASE ~last(l, i) /\ l # "running_list"
    <3>1. i \in 1..Len(ls[l]) /\ new[l][i] = ls[l][i]
      BY <2>3, RequeuedAt
    <3>. QED BY <2>3, <3>1
  <2>. QED BY <2>1, <2>2, <2>3
<1>3. ASSUME NEW l1 \in ListName, NEW l2 \in ListName,
             NEW i \in 1..Len(new[l1]), NEW j \in 1..Len(new[l2]),
             from_l(l1, i) = from_l(l2, j), from_i(l1, i) = from_i(l2, j)
      PROVE  l1 = l2 /\ i = j
  <2>1. i \in Int /\ j \in Int /\ i >= 1 /\ j >= 1
    <3>1. new \in Lists
      BY RequeuedShape
    <3>. HIDE DEF new
    <3>2. Len(new[l1]) \in Nat /\ Len(new[l2]) \in Nat
      BY <3>1 DEF Lists
    <3>. QED BY <3>2
  <2>. HIDE DEF new, d
  <2>. QED BY <1>3, <2>1
<1>4. SUFFICES ASSUME NEW l1 \in ListName, NEW l2 \in ListName,
                      NEW i \in 1..Len(new[l1]), NEW j \in 1..Len(new[l2]),
                      new[l1][i] = new[l2][j]
               PROVE  l1 = l2 /\ i = j
  BY DEF OneList
<1>5. from_l(l1, i) = from_l(l2, j) /\ from_i(l1, i) = from_i(l2, j)
  <2>. HIDE DEF new, d, last, from_l, from_i
  <2>1. /\ from_l(l1, i) \in ListName /\ from_i(l1, i) \in 1..Len(ls[from_l(l1, i)])
        /\ new[l1][i] = ls[from_l(l1, i)][from_i(l1, i)]
    BY <1>2
  <2>2. /\ from_l(l2, j) \in ListName /\ from_i(l2, j) \in 1..Len(ls[from_l(l2, j)])
        /\ new[l2][j] = ls[from_l(l2, j)][from_i(l2, j)]
    BY <1>2
  <2>3. ls[from_l(l1, i)][from_i(l1, i)] = ls[from_l(l2, j)][from_i(l2, j)]
    BY <1>4, <2>1, <2>2
  <2>. QED BY <2>1, <2>2, <2>3, OneListUse
<1>. HIDE DEF new, from_l, from_i
<1>. QED BY <1>3, <1>5

\* The switch neither loses a task nor invents one.
LEMMA RequeuedMembers ==
  ASSUME NEW ls \in Lists, NEW st, NEW assign \in ListName, RUNNING \in Task,
         Len(ls["running_list"]) > 1, RUNNING = ls["running_list"][1],
         NEW t
  PROVE  On(requeued(ls, st, assign), t) <=> On(ls, t)
<1>. DEFINE new == requeued(ls, st, assign)
            d == destination(st, assign)
            r == ls["running_list"]
<1>1. "running_list" \in ListName /\ r \in Seq(Task) /\ Len(r) > 1 /\ d \in ListName /\ new \in Lists
  BY RequeuedShape DEF ListName, StaticList, Lists
<1>2. ASSUME On(new, t) PROVE On(ls, t)
  <2>1. PICK l \in ListName : \E i \in 1..Len(new[l]) : new[l][i] = t
    BY <1>2 DEF On
  <2>2. PICK i \in 1..Len(new[l]) : new[l][i] = t
    BY <2>1
  <2>3. CASE l = d /\ i = Len(new[l])
    <3>1. new[l][i] = r[1]
      BY <2>3, RequeuedAt
    <3>. QED BY <1>1, <2>2, <3>1 DEF On
  <2>4. CASE ~(l = d /\ i = Len(new[l])) /\ l = "running_list"
    <3>1. i + 1 \in 2..Len(ls[l]) /\ new[l][i] = ls[l][i + 1]
      BY <2>4, RequeuedAt
    <3>2. i + 1 \in 1..Len(ls[l])
      BY <1>1, <2>4, <3>1
    <3>. QED BY <2>2, <3>1, <3>2 DEF On
  <2>5. CASE ~(l = d /\ i = Len(new[l])) /\ l # "running_list"
    <3>1. i \in 1..Len(ls[l]) /\ new[l][i] = ls[l][i]
      BY <2>5, RequeuedAt
    <3>. QED BY <2>2, <3>1 DEF On
  <2>. QED BY <2>3, <2>4, <2>5
<1>3. ASSUME On(ls, t) PROVE On(new, t)
  <2>1. PICK l \in ListName : \E i \in 1..Len(ls[l]) : ls[l][i] = t
    BY <1>3 DEF On
  <2>2. PICK i \in 1..Len(ls[l]) : ls[l][i] = t
    BY <2>1
  <2>3. Tail(r) \in Seq(Task) /\ Len(Tail(r)) = Len(r) - 1
        /\ \A k \in 1..Len(Tail(r)) : Tail(r)[k] = r[k + 1]
    BY <1>1
  <2>4. CASE l = "running_list" /\ i = 1
    <3>1. t = RUNNING
      BY <2>2, <2>4
    <3>2. CASE d = "running_list"
      <4>1. new[d] = Append(Tail(r), RUNNING)
        BY <3>2, RequeuedRunning
      <4>2. Len(new[d]) = Len(r) /\ new[d][Len(r)] = RUNNING
        BY <4>1, <2>3, <1>1
      <4>3. Len(r) \in 1..Len(new[d])
        BY <4>2, <1>1
      <4>. QED BY <3>1, <4>2, <4>3, <1>1 DEF On
    <3>3. CASE d # "running_list"
      <4>0. ls[d] \in Seq(Task)
        BY <1>1 DEF Lists
      <4>1. new[d] = Append(ls[d], RUNNING)
        BY <3>3, RequeuedShape
      <4>2. Len(new[d]) = Len(ls[d]) + 1 /\ new[d][Len(ls[d]) + 1] = RUNNING
            /\ Len(ls[d]) + 1 \in 1..Len(new[d])
        BY <4>0, <4>1
      <4>. QED BY <3>1, <4>2, <1>1 DEF On
    <3>. QED BY <3>2, <3>3
  <2>5. CASE l = "running_list" /\ i # 1
    <3>1. i - 1 \in 1..Len(Tail(r)) /\ Tail(r)[i - 1] = t
      BY <1>1, <2>2, <2>3, <2>5
    <3>2. CASE d = "running_list"
      <4>1. new[d] = Append(Tail(r), RUNNING)
        BY <3>2, RequeuedRunning
      <4>2. i - 1 \in 1..Len(new[d]) /\ new[d][i - 1] = t
        BY <4>1, <3>1, <2>3, <1>1
      <4>. QED BY <4>2, <1>1 DEF On
    <3>3. CASE d # "running_list"
      <4>1. new["running_list"] = Tail(r)
        BY <3>3, RequeuedShape
      <4>. QED BY <4>1, <3>1, <1>1 DEF On
    <3>. QED BY <3>2, <3>3
  <2>6. CASE l # "running_list"
    <3>1. ls[l] \in Seq(Task)
      BY DEF Lists
    <3>2. new[l] = ls[l] \/ new[l] = Append(ls[l], RUNNING)
      BY <2>6, RequeuedShape
    <3>3. i \in 1..Len(new[l]) /\ new[l][i] = t
      BY <3>1, <3>2, <2>2
    <3>. QED BY <3>3 DEF On
  <2>. QED BY <2>4, <2>5, <2>6
<1>. QED BY <1>2, <1>3

\* The vocabulary of the moves between lists: no repetition in a sequence,
\* nothing in common, everything of s is in u.
Inj(s) == \A i, j \in 1..Len(s) : s[i] = s[j] => i = j

Disj(s, u) == \A i \in 1..Len(s) : \A j \in 1..Len(u) : s[i] # u[j]

Within(s, u) == \A i \in 1..Len(s) : \E j \in 1..Len(u) : s[i] = u[j]

\* A task is on one list only: no list repeats it and no two lists share it.
LEMMA OneListParts ==
  ASSUME NEW ls
  PROVE  OneList(ls) <=> /\ \A l \in ListName : Inj(ls[l])
                         /\ \A l1, l2 \in ListName : l1 # l2 => Disj(ls[l1], ls[l2])
<1>1. OneList(ls) => /\ \A l \in ListName : Inj(ls[l])
                     /\ \A l1, l2 \in ListName : l1 # l2 => Disj(ls[l1], ls[l2])
  BY Zenon DEF OneList, Inj, Disj
<1>2. ASSUME \A l \in ListName : Inj(ls[l]),
             \A l1, l2 \in ListName : l1 # l2 => Disj(ls[l1], ls[l2]),
             NEW l1 \in ListName, NEW l2 \in ListName,
             NEW i \in 1..Len(ls[l1]), NEW j \in 1..Len(ls[l2]), ls[l1][i] = ls[l2][j]
      PROVE  l1 = l2 /\ i = j
  <2>1. l1 = l2
    BY <1>2 DEF Disj
  <2>. QED BY <1>2, <2>1 DEF Inj
<1>. QED BY <1>1, <1>2 DEF OneList

\* A part of a list shares nothing with what the list shares nothing with.
LEMMA WithinDisj ==
  ASSUME NEW s, NEW u, NEW v, Within(s, u), Disj(u, v)
  PROVE  Disj(s, v) /\ Disj(v, s)
  BY Zenon DEF Within, Disj

\* What is appended does not move what was there.
LEMMA ConcatKeeps ==
  ASSUME NEW s \in Seq(Task), NEW u \in Seq(Task)
  PROVE  \A i \in 1..Len(s) : i \in 1..Len(s \o u) /\ (s \o u)[i] = s[i]
<1>1. Len(s \o u) = Len(s) + Len(u) /\ Len(s) \in Nat /\ Len(u) \in Nat
  OBVIOUS
<1>2. ASSUME NEW i \in 1..Len(s)
      PROVE  i \in 1..Len(s \o u) /\ (s \o u)[i] = s[i]
  <2>1. i \in 1..(Len(s) + Len(u))
    BY <1>1
  <2>. QED BY <1>1, <2>1
<1>. QED BY <1>2

\* Every element of a concatenation comes from one of its two halves.
LEMMA ConcatAt ==
  ASSUME NEW s \in Seq(Task), NEW u \in Seq(Task)
  PROVE  /\ s \o u \in Seq(Task) /\ Len(s \o u) = Len(s) + Len(u)
         /\ \A i \in 1..Len(s \o u) :
              \/ i \in 1..Len(s) /\ (s \o u)[i] = s[i]
              \/ i - Len(s) \in 1..Len(u) /\ (s \o u)[i] = u[i - Len(s)]
<1>1. s \o u \in Seq(Task) /\ Len(s \o u) = Len(s) + Len(u) /\ Len(s) \in Nat /\ Len(u) \in Nat
  OBVIOUS
<1>2. ASSUME NEW i \in 1..Len(s \o u)
      PROVE  \/ i \in 1..Len(s) /\ (s \o u)[i] = s[i]
             \/ i - Len(s) \in 1..Len(u) /\ (s \o u)[i] = u[i - Len(s)]
  <2>1. CASE i <= Len(s)
    BY <1>1, <2>1
  <2>2. CASE ~(i <= Len(s))
    <3>1. i - Len(s) \in 1..Len(u)
      BY <1>1, <2>2
    <3>2. (s \o u)[i] = u[i - Len(s)]
      BY <1>1, <2>2
    <3>. QED BY <3>1, <3>2
  <2>. QED BY <2>1, <2>2
<1>. QED BY <1>1, <1>2

\* Two sequences without repetition and with nothing in common concatenate to
\* one without repetition.
LEMMA ConcatInj ==
  ASSUME NEW s \in Seq(Task), NEW u \in Seq(Task), Inj(s), Inj(u), Disj(s, u)
  PROVE  Inj(s \o u)
<1>. SUFFICES ASSUME NEW i \in 1..Len(s \o u), NEW j \in 1..Len(s \o u),
                     (s \o u)[i] = (s \o u)[j]
              PROVE  i = j
  BY DEF Inj
<1>. DEFINE c == s \o u
<1>1. i \in Int /\ j \in Int /\ Len(s) \in Int
  BY ConcatAt
<1>2. \/ i \in 1..Len(s) /\ c[i] = s[i]
      \/ i - Len(s) \in 1..Len(u) /\ c[i] = u[i - Len(s)]
  BY ConcatAt
<1>3. \/ j \in 1..Len(s) /\ c[j] = s[j]
      \/ j - Len(s) \in 1..Len(u) /\ c[j] = u[j - Len(s)]
  BY ConcatAt
<1>4. c[i] = c[j]
  OBVIOUS
<1>. HIDE DEF c
<1>5. CASE i \in 1..Len(s) /\ c[i] = s[i] /\ j \in 1..Len(s) /\ c[j] = s[j]
  BY <1>4, <1>5 DEF Inj
<1>6. CASE i - Len(s) \in 1..Len(u) /\ c[i] = u[i - Len(s)]
           /\ j - Len(s) \in 1..Len(u) /\ c[j] = u[j - Len(s)]
  <2>1. i - Len(s) = j - Len(s)
    BY <1>4, <1>6 DEF Inj
  <2>. QED BY <1>1, <2>1
<1>7. CASE i \in 1..Len(s) /\ c[i] = s[i]
           /\ j - Len(s) \in 1..Len(u) /\ c[j] = u[j - Len(s)]
  BY <1>4, <1>7 DEF Disj
<1>8. CASE i - Len(s) \in 1..Len(u) /\ c[i] = u[i - Len(s)]
           /\ j \in 1..Len(s) /\ c[j] = s[j]
  BY <1>4, <1>8 DEF Disj
<1>. QED BY <1>2, <1>3, <1>5, <1>6, <1>7, <1>8

\* A concatenation shares nothing with what its halves share nothing with.
LEMMA ConcatDisj ==
  ASSUME NEW s \in Seq(Task), NEW u \in Seq(Task), NEW v, Disj(s, v), Disj(u, v)
  PROVE  Disj(s \o u, v) /\ Disj(v, s \o u)
<1>. SUFFICES ASSUME NEW i \in 1..Len(s \o u), NEW j \in 1..Len(v)
              PROVE  (s \o u)[i] # v[j]
  BY DEF Disj
<1>. DEFINE c == s \o u
<1>1. \/ i \in 1..Len(s) /\ c[i] = s[i]
      \/ i - Len(s) \in 1..Len(u) /\ c[i] = u[i - Len(s)]
  BY ConcatAt
<1>. HIDE DEF c
<1>2. c[i] # v[j]
  BY <1>1 DEF Disj
<1>. QED BY <1>2 DEF c

\* A wake-up moves tasks of one list to the back of running_list: nothing is
\* duplicated when what it takes and what it leaves are apart.
LEMMA MovedOneList ==
  ASSUME NEW ls \in Lists, OneList(ls),
         NEW w \in ListName \ {"running_list"},
         NEW taken \in Seq(Task), NEW rest \in Seq(Task),
         NEW new \in Lists,
         new["running_list"] = ls["running_list"] \o taken, new[w] = rest,
         \A l \in ListName \ {"running_list", w} : new[l] = ls[l],
         Within(taken, ls[w]), Within(rest, ls[w]),
         Inj(taken), Inj(rest), Disj(taken, rest)
  PROVE  OneList(new)
<1>. DEFINE r == ls["running_list"]
<1>1. "running_list" \in ListName /\ r \in Seq(Task)
  BY DEF ListName, StaticList, Lists
<1>2. /\ \A l \in ListName : Inj(ls[l])
      /\ \A l1, l2 \in ListName : l1 # l2 => Disj(ls[l1], ls[l2])
  BY OneListParts
<1>3. ASSUME NEW l \in ListName \ {w} PROVE Disj(taken, ls[l]) /\ Disj(ls[l], taken)
                                            /\ Disj(rest, ls[l]) /\ Disj(ls[l], rest)
  BY <1>2, WithinDisj
<1>4. Inj(r \o taken)
  BY <1>1, <1>2, <1>3, ConcatInj
<1>5. ASSUME NEW l \in ListName \ {"running_list", w}
      PROVE  Disj(r \o taken, ls[l]) /\ Disj(ls[l], r \o taken)
  BY <1>1, <1>2, <1>3, ConcatDisj
<1>6. Disj(r \o taken, rest) /\ Disj(rest, r \o taken)
  BY <1>1, <1>3, ConcatDisj
<1>7. ASSUME NEW l \in ListName PROVE Inj(new[l])
  <2>1. CASE l = "running_list"
    BY <2>1, <1>4
  <2>2. CASE l = w
    BY <2>2
  <2>3. CASE l \notin {"running_list", w}
    BY <2>3, <1>2
  <2>. QED BY <2>1, <2>2, <2>3
<1>8. ASSUME NEW l1 \in ListName, NEW l2 \in ListName, l1 # l2 PROVE Disj(new[l1], new[l2])
  <2>1. CASE l1 = "running_list" /\ l2 = w
    BY <2>1, <1>6
  <2>2. CASE l1 = w /\ l2 = "running_list"
    BY <2>2, <1>6
  <2>3. CASE l1 = "running_list" /\ l2 \notin {"running_list", w}
    BY <2>3, <1>5
  <2>4. CASE l2 = "running_list" /\ l1 \notin {"running_list", w}
    BY <2>4, <1>5
  <2>5. CASE l1 = w /\ l2 \notin {"running_list", w}
    BY <2>5, <1>3
  <2>6. CASE l2 = w /\ l1 \notin {"running_list", w}
    BY <2>6, <1>3
  <2>7. CASE l1 \notin {"running_list", w} /\ l2 \notin {"running_list", w}
    BY <2>7, <1>2, <1>8
  <2>. QED BY <2>1, <2>2, <2>3, <2>4, <2>5, <2>6, <2>7, <1>8
<1>. QED BY <1>7, <1>8, OneListParts

\* wake_up_all_sleeping pops from the back: the same tasks, each once.
LEMMA ReversedFacts ==
  ASSUME NEW s \in Seq(Task), Inj(s)
  PROVE  /\ reversed(s) \in Seq(Task) /\ Inj(reversed(s))
         /\ Within(reversed(s), s) /\ Within(s, reversed(s))
<1>1. Len(s) \in Nat /\ \A k \in 1..Len(s) : Len(s) + 1 - k \in 1..Len(s) /\ s[k] \in Task
  OBVIOUS
<1>2. reversed(s) \in [1..Len(s) -> Task]
  BY <1>1 DEF reversed
<1>3. reversed(s) \in Seq(Task) /\ Len(reversed(s)) = Len(s)
  BY <1>1, <1>2
<1>4. \A k \in 1..Len(s) : reversed(s)[k] = s[Len(s) + 1 - k]
  BY DEF reversed
<1>. DEFINE rev == reversed(s)
<1>. HIDE DEF rev
<1>5. Len(rev) = Len(s) /\ \A k \in 1..Len(s) : rev[k] = s[Len(s) + 1 - k]
  BY <1>3, <1>4 DEF rev
<1>6. Inj(rev)
  <2>. SUFFICES ASSUME NEW i \in 1..Len(s), NEW j \in 1..Len(s), rev[i] = rev[j]
                PROVE  i = j
    BY <1>5 DEF Inj
  <2>1. Len(s) + 1 - i = Len(s) + 1 - j
    BY <1>1, <1>5 DEF Inj
  <2>. QED BY <1>1, <2>1
<1>7. Within(rev, s)
  BY <1>1, <1>5 DEF Within
<1>8. Within(s, rev)
  <2>. SUFFICES ASSUME NEW i \in 1..Len(s)
                PROVE  \E j \in 1..Len(rev) : s[i] = rev[j]
    BY DEF Within
  <2>1. Len(s) + 1 - i \in 1..Len(s) /\ Len(s) + 1 - (Len(s) + 1 - i) = i
    BY <1>1
  <2>. QED BY <1>5, <2>1
<1>. QED BY <1>3, <1>6, <1>7, <1>8 DEF rev

\* wake_up_read and wake_up_write pop the first n tasks: taken and left tasks
\* together are the list, with no task in both.
LEMMA SplitFacts ==
  ASSUME NEW s \in Seq(Task), Inj(s), NEW n \in 1..Len(s)
  PROVE  LET a == SubSeq(s, 1, n)
             b == SubSeq(s, n + 1, Len(s))
         IN  /\ a \in Seq(Task) /\ b \in Seq(Task)
             /\ Inj(a) /\ Inj(b) /\ Disj(a, b)
             /\ Within(a, s) /\ Within(b, s)
             /\ \A i \in 1..Len(s) : \/ \E j \in 1..Len(a) : a[j] = s[i]
                                     \/ \E j \in 1..Len(b) : b[j] = s[i]
<1>. DEFINE a == SubSeq(s, 1, n)
            b == SubSeq(s, n + 1, Len(s))
            m == Len(s)
<1>1. m \in Nat /\ n \in Nat /\ n <= m /\ n >= 1
  OBVIOUS
<1>2. a \in Seq(Task) /\ Len(a) = n /\ \A i \in 1..n : a[i] = s[i]
  BY <1>1
<1>3. b \in Seq(Task) /\ Len(b) = m - n
  BY <1>1
<1>4. \A i \in 1..(m - n) : b[i] = s[n + i]
  BY <1>1, <1>3
<1>5. \A i \in 1..(m - n) : n + i \in 1..m /\ n + i > n
  BY <1>1
<1>6. \A i \in 1..n : i \in 1..m /\ i <= n
  BY <1>1
<1>. HIDE DEF a, b
<1>7. Inj(a)
  BY <1>2, <1>6 DEF Inj
<1>8. Inj(b)
  <2>. SUFFICES ASSUME NEW i \in 1..(m - n), NEW j \in 1..(m - n), b[i] = b[j] PROVE i = j
    BY <1>3 DEF Inj
  <2>1. n + i = n + j
    BY <1>4, <1>5 DEF Inj
  <2>. QED BY <1>1, <2>1
<1>9. Disj(a, b)
  <2>. SUFFICES ASSUME NEW i \in 1..n, NEW j \in 1..(m - n), a[i] = b[j] PROVE FALSE
    BY <1>2, <1>3 DEF Disj
  <2>1. s[i] = s[n + j] /\ i \in 1..Len(s) /\ n + j \in 1..Len(s)
    BY <1>2, <1>4, <1>5, <1>6
  <2>2. i = n + j
    BY <2>1, Zenon DEF Inj
  <2>. QED BY <1>1, <2>2
<1>10. Within(a, s) /\ Within(b, s)
  BY <1>2, <1>3, <1>4, <1>5, <1>6 DEF Within
<1>11. ASSUME NEW i \in 1..m PROVE \/ \E j \in 1..Len(a) : a[j] = s[i]
                                   \/ \E j \in 1..Len(b) : b[j] = s[i]
  <2>1. CASE i <= n
    <3>1. i \in 1..Len(a) /\ a[i] = s[i]
      BY <1>1, <1>2, <2>1
    <3>. QED BY <3>1
  <2>2. CASE ~(i <= n)
    <3>1. i - n \in 1..(m - n) /\ n + (i - n) = i
      BY <1>1, <2>2
    <3>2. b[i - n] = s[i]
      BY <3>1, <1>4
    <3>. QED BY <1>3, <3>1, <3>2
  <2>. QED BY <2>1, <2>2
<1>. QED BY <1>2, <1>3, <1>7, <1>8, <1>9, <1>10, <1>11 DEF a, b

\* A wake-up neither loses a task nor invents one.
LEMMA MovedMembers ==
  ASSUME NEW ls \in Lists,
         NEW w \in ListName \ {"running_list"},
         NEW taken \in Seq(Task), NEW rest \in Seq(Task),
         NEW new \in Lists,
         new["running_list"] = ls["running_list"] \o taken, new[w] = rest,
         \A l \in ListName \ {"running_list", w} : new[l] = ls[l],
         Within(taken, ls[w]), Within(rest, ls[w]),
         \A i \in 1..Len(ls[w]) : \/ \E j \in 1..Len(taken) : taken[j] = ls[w][i]
                                  \/ \E j \in 1..Len(rest) : rest[j] = ls[w][i],
         NEW t
  PROVE  On(new, t) <=> On(ls, t)
<1>. DEFINE r == ls["running_list"]
            c == r \o taken
<1>1. "running_list" \in ListName /\ r \in Seq(Task) /\ w \in ListName
  BY DEF ListName, StaticList, Lists
<1>2. \A i \in 1..Len(c) : \/ i \in 1..Len(r) /\ c[i] = r[i]
                           \/ i - Len(r) \in 1..Len(taken) /\ c[i] = taken[i - Len(r)]
  BY <1>1, ConcatAt
<1>3. /\ \A i \in 1..Len(r) : i \in 1..Len(c) /\ c[i] = r[i]
      /\ \A i \in 1..Len(taken) : Len(r) + i \in 1..Len(c) /\ c[Len(r) + i] = taken[i]
  BY <1>1
<1>4. new["running_list"] = c
  OBVIOUS
<1>. HIDE DEF c, r
<1>5. ASSUME On(new, t) PROVE On(ls, t)
  <2>1. PICK l \in ListName : \E i \in 1..Len(new[l]) : new[l][i] = t
    BY <1>5 DEF On
  <2>2. PICK i \in 1..Len(new[l]) : new[l][i] = t
    BY <2>1
  <2>3. CASE l = "running_list"
    <3>1. \/ i \in 1..Len(r) /\ c[i] = r[i]
          \/ i - Len(r) \in 1..Len(taken) /\ c[i] = taken[i - Len(r)]
      BY <2>3, <1>2, <1>4
    <3>2. CASE i \in 1..Len(r) /\ c[i] = r[i]
      BY <3>2, <2>2, <2>3, <1>1, <1>4 DEF On, r
    <3>3. CASE i - Len(r) \in 1..Len(taken) /\ c[i] = taken[i - Len(r)]
      <4>1. t = taken[i - Len(r)]
        BY <3>3, <2>2, <2>3, <1>4
      <4>2. \E j \in 1..Len(ls[w]) : taken[i - Len(r)] = ls[w][j]
        BY <3>3 DEF Within
      <4>. QED BY <4>1, <4>2, <1>1 DEF On
    <3>. QED BY <3>1, <3>2, <3>3
  <2>4. CASE l = w
    <3>1. \E j \in 1..Len(ls[w]) : t = ls[w][j]
      BY <2>4, <2>2 DEF Within
    <3>. QED BY <3>1, <1>1 DEF On
  <2>5. CASE l \notin {"running_list", w}
    BY <2>5, <2>2 DEF On
  <2>. QED BY <2>3, <2>4, <2>5
<1>6. ASSUME On(ls, t) PROVE On(new, t)
  <2>1. PICK l \in ListName : \E i \in 1..Len(ls[l]) : ls[l][i] = t
    BY <1>6 DEF On
  <2>2. PICK i \in 1..Len(ls[l]) : ls[l][i] = t
    BY <2>1
  <2>3. CASE l = "running_list"
    <3>1. i \in 1..Len(c) /\ c[i] = t
      BY <2>2, <2>3, <1>3 DEF r
    <3>. QED BY <3>1, <1>1, <1>4 DEF On
  <2>4. CASE l = w
    <3>1. \/ \E j \in 1..Len(taken) : taken[j] = t
          \/ \E j \in 1..Len(rest) : rest[j] = t
      BY <2>2, <2>4
    <3>2. CASE \E j \in 1..Len(taken) : taken[j] = t
      <4>1. PICK j \in 1..Len(taken) : taken[j] = t
        BY <3>2
      <4>2. Len(r) + j \in 1..Len(c) /\ c[Len(r) + j] = t
        BY <4>1, <1>3
      <4>. QED BY <4>2, <1>1, <1>4 DEF On
    <3>3. CASE \E j \in 1..Len(rest) : rest[j] = t
      BY <3>3, <1>1 DEF On
    <3>. QED BY <3>1, <3>2, <3>3
  <2>5. CASE l \notin {"running_list", w}
    BY <2>5, <2>2 DEF On
  <2>. QED BY <2>3, <2>4, <2>5
<1>. QED BY <1>5, <1>6

-----------------------------------------------------------------------------
\* The names of the lists the proofs tell apart.
LEMMA Names == /\ {"running_list", "sleep_list", "exit_list"} \subseteq ListName
               /\ WaitList \subseteq ListName /\ "exit_list" \notin WaitList
               /\ "running_list" \notin WaitList
               /\ "running_list" # "exit_list" /\ "running_list" # "sleep_list"
               /\ "sleep_list" # "exit_list"
  BY WaitListAssumption DEF ListName, StaticList

\* What scheduler() may be called with: lists and statuses that satisfy the
\* invariant, except that the current task may already be a zombie while it
\* is still at the front of running_list.
Ready(ls, st) ==
  /\ ls \in Lists /\ st \in [Task -> TaskStatus] /\ RUNNING \in Task /\ panic = "none"
  /\ OneList(ls)
  /\ Len(ls["running_list"]) > 0 /\ ls["running_list"][1] = RUNNING
  /\ st[Boot] = "TaskRunning" /\ At(ls, "running_list", Boot)
  /\ \A t \in Task : On(ls, t) <=> st[t] # "none"
  /\ \A t \in Task : st[t] = "TaskZombie" => t = RUNNING \/ At(ls, "exit_list", t)

\* The case distinction of scheduler() on the length of running_list.
LEMMA AboutOne == \A n \in Nat : (n > 1 => n # 0 /\ n # 1) /\ (n > 0 /\ ~(n > 1) => n = 1)
  OBVIOUS

\* scheduler(), called on lists and statuses that are Ready, re-establishes the
\* invariant: in particular its idle branch and its assertion are not reached,
\* because with a single runnable task that task is the boot task.
LEMMA SchedulerStep ==
  ASSUME NEW ls, NEW st, NEW assign \in {"sleep_list"} \cup WaitList,
         Ready(ls, st), scheduler(ls, st, assign)
  PROVE  /\ list' \in Lists /\ status' \in [Task -> TaskStatus] /\ RUNNING' \in Task
         /\ RunningIsFront' /\ OnOneListOnly' /\ IdleNeverReached'
         /\ BootRunnable' /\ ListedAreCreated' /\ ZombiesOnExitList'
<1>. DEFINE r == ls["running_list"]
            new == requeued(ls, st, assign)
            d == destination(st, assign)
<1>1. /\ ls \in Lists /\ st \in [Task -> TaskStatus] /\ RUNNING \in Task /\ panic = "none"
      /\ OneList(ls) /\ Len(r) > 0 /\ r[1] = RUNNING
      /\ st[Boot] = "TaskRunning" /\ At(ls, "running_list", Boot)
  BY DEF Ready
<1>2. r \in Seq(Task) /\ assign \in ListName
  BY <1>1, Names DEF Lists
<1>20. Len(r) \in Nat
  BY <1>2
<1>3. status' = st
  BY DEF scheduler
<1>4. CASE Len(r) > 1
  <2>1. list' = new /\ RUNNING' = Head(list'["running_list"]) /\ panic' = panic
    <3>1. Len(r) # 0 /\ Len(r) # 1
      BY <1>4, <1>20, AboutOne, Zenon
    <3>. QED BY <1>4, <3>1, Zenon DEF scheduler
  <2>2. new \in Lists
    BY <1>1, <1>2, <1>4, RequeuedShape
  <2>3. OneList(new)
    BY <1>1, <1>2, <1>4, RequeuedOneList
  <2>4. \A t \in Task : On(new, t) <=> On(ls, t)
    BY <1>1, <1>2, <1>4, RequeuedMembers
  <2>5. /\ Tail(r) \in Seq(Task) /\ Len(Tail(r)) = Len(r) - 1
        /\ \A k \in 1..Len(Tail(r)) : Tail(r)[k] = r[k + 1]
    BY <1>2, <1>4
  <2>6. \/ d # "running_list" /\ new["running_list"] = Tail(r) /\ new[d] = Append(ls[d], RUNNING)
        \/ d = "running_list" /\ new["running_list"] = Append(Tail(r), RUNNING)
    BY <1>1, <1>2, <1>4, RequeuedShape, RequeuedRunning
  <2>7. /\ \A k \in 1..Len(Tail(r)) : /\ k \in 1..Len(new["running_list"])
                                      /\ new["running_list"][k] = Tail(r)[k]
        /\ d = "running_list" => /\ Len(r) \in 1..Len(new["running_list"])
                                 /\ new["running_list"][Len(r)] = RUNNING
    <3>1. CASE d # "running_list"
      BY <3>1, <2>6
    <3>2. CASE d = "running_list"
      <4>1. new["running_list"] = Append(Tail(r), RUNNING)
        BY <3>2, <2>6
      <4>. QED BY <1>1, <1>2, <2>5, <4>1
    <3>. QED BY <3>1, <3>2
  <2>8. \A l \in ListName : l # d /\ l # "running_list" => new[l] = ls[l]
    BY <1>1, <1>2, <1>4, RequeuedShape
  <2>9. d \in ListName /\ ls[d] \in Seq(Task)
    BY <1>1, <1>2, <1>4, RequeuedShape DEF Lists
  <2>10. RUNNING' \in Task /\ RunningIsFront'
    <3>1. 1 \in 1..Len(new["running_list"])
      BY <1>4, <1>2, <2>5, <2>7
    <3>2. new["running_list"] \in Seq(Task)
      BY <2>2, Names DEF Lists
    <3>. HIDE DEF new
    <3>3. Len(new["running_list"]) > 0 /\ Head(new["running_list"]) \in Task
      BY <3>1, <3>2
    <3>. QED BY <2>1, <3>3 DEF RunningIsFront
  <2>11. BootRunnable'
    <3>1. st[RUNNING] = "TaskRunning" => d = "running_list"
      BY DEF destination
    <3>2. PICK i \in 1..Len(r) : r[i] = Boot
      BY <1>1 DEF At
    <3>3. CASE i = 1
      <4>1. d = "running_list" /\ RUNNING = Boot
        BY <1>1, <3>1, <3>2, <3>3
      <4>. QED BY <4>1, <2>1, <2>7, <1>1, <1>3 DEF BootRunnable, At
    <3>4. CASE i # 1
      <4>1. i - 1 \in 1..Len(Tail(r)) /\ Tail(r)[i - 1] = Boot
        BY <1>2, <2>5, <3>2, <3>4
      <4>. QED BY <4>1, <2>1, <2>7, <1>1, <1>3 DEF BootRunnable, At
    <3>. QED BY <3>3, <3>4
  <2>12. ListedAreCreated'
    BY <1>3, <2>1, <2>4 DEF ListedAreCreated, Ready, On
  <2>13. ZombiesOnExitList'
    <3>. SUFFICES ASSUME NEW t \in Task, st[t] = "TaskZombie" PROVE At(new, "exit_list", t)
      BY <1>3, <2>1 DEF ZombiesOnExitList, At
    <3>1. ls["exit_list"] \in Seq(Task)
      BY <1>1, Names DEF Lists
    <3>2. CASE t = RUNNING
      <4>1. d = "exit_list"
        BY <3>2 DEF destination
      <4>2. new["exit_list"] = Append(ls["exit_list"], RUNNING)
        BY <4>1, <2>6, Names
      <4>3. Len(ls["exit_list"]) + 1 \in 1..Len(new["exit_list"])
            /\ new["exit_list"][Len(ls["exit_list"]) + 1] = RUNNING
        BY <4>2, <3>1, <1>1
      <4>. QED BY <3>2, <4>3 DEF At
    <3>3. CASE t # RUNNING
      <4>1. PICK i \in 1..Len(ls["exit_list"]) : ls["exit_list"][i] = t
        BY <3>3 DEF Ready, At
      <4>2. \/ new["exit_list"] = ls["exit_list"]
            \/ new["exit_list"] = Append(ls["exit_list"], RUNNING)
        BY <2>6, <2>8, Names
      <4>. HIDE DEF new
      <4>3. i \in 1..Len(new["exit_list"]) /\ new["exit_list"][i] = t
        BY <4>1, <4>2, <3>1, <1>1
      <4>. QED BY <4>3 DEF At
    <3>. QED BY <3>2, <3>3
  <2>. QED BY <1>1, <1>3, <2>1, <2>2, <2>3, <2>10, <2>11, <2>12, <2>13
            DEF OnOneListOnly, OneList, IdleNeverReached
<1>5. CASE ~(Len(r) > 1)
  <2>1. Len(r) = 1
    <3>1. Len(r) > 0
      BY <1>1
    <3>. QED BY <1>20, <1>5, <3>1, AboutOne, Zenon
  <2>2. RUNNING = Boot
    BY <1>1, <2>1 DEF At
  <2>3. list' = ls /\ RUNNING' = RUNNING /\ panic' = panic
    BY <1>1, <2>1, <2>2 DEF scheduler
  <2>4. RunningIsFront'
    BY <1>1, <1>2, <2>1, <2>3 DEF RunningIsFront
  <2>5. ZombiesOnExitList'
    BY <1>1, <1>3, <2>2, <2>3 DEF ZombiesOnExitList, Ready, At
  <2>. QED BY <1>1, <1>3, <2>3, <2>4, <2>5
            DEF OnOneListOnly, OneList, IdleNeverReached, BootRunnable, ListedAreCreated, Ready, On, At
<1>. QED BY <1>4, <1>5

\* Under the invariant scheduler() may be called as things stand.
LEMMA ReadyNow ==
  ASSUME SchedInv
  PROVE  Ready(list, status)
<1>1. list["running_list"] \in Seq(Task) /\ Len(list["running_list"]) > 0
      /\ RUNNING = Head(list["running_list"])
  BY Names DEF SchedInv, SchedTypeOK, RunningIsFront
<1>2. list["running_list"][1] = RUNNING
  BY <1>1
<1>. QED BY <1>1, <1>2
     DEF SchedInv, SchedTypeOK, OnOneListOnly, OneList, Lists, IdleNeverReached,
         BootRunnable, ListedAreCreated, ZombiesOnExitList, Ready

\* The invariant holds when the boot task alone runs.
LEMMA InitInv ==
  ASSUME SchedInit
  PROVE  SchedInv
<1>1. list \in [ListName -> Seq(Task)]
  BY BootAssumption DEF SchedInit
<1>2. /\ list["running_list"] = <<Boot>>
      /\ \A l \in ListName : l # "running_list" => list[l] = <<>>
  BY Names DEF SchedInit
<1>3. ASSUME NEW l \in ListName, NEW i \in 1..Len(list[l])
      PROVE  l = "running_list" /\ i = 1 /\ list[l][i] = Boot
  <2>1. CASE l = "running_list"
    <3>1. list[l] = <<Boot>>
      BY <1>2, <2>1
    <3>2. Len(<<Boot>>) = 1 /\ <<Boot>>[1] = Boot
      OBVIOUS
    <3>3. i = 1
      BY <3>1, <3>2
    <3>. QED BY <2>1, <3>1, <3>2, <3>3
  <2>2. CASE l # "running_list"
    BY <1>2, <2>2
  <2>. QED BY <2>1, <2>2
<1>4. 1 \in 1..Len(list["running_list"]) /\ list["running_list"][1] = Boot
  BY <1>2
<1>5. SchedTypeOK
  <2>1. status \in [Task -> TaskStatus] /\ RUNNING \in Task
    BY BootAssumption DEF SchedInit, TaskStatus
  <2>2. tic_counter \in 0..TIC_MAX
    BY TicAssumption DEF SchedInit
  <2>3. panic \in {"none", "assert_ne rs.len()", "todo idle"}
    BY DEF SchedInit
  <2>. QED BY <1>1, <2>1, <2>2, <2>3 DEF SchedTypeOK
<1>6. RunningIsFront
  BY <1>2 DEF SchedInit, RunningIsFront
<1>7. OnOneListOnly
  BY <1>3 DEF OnOneListOnly
<1>8. BootRunnable
  BY <1>4, BootAssumption DEF SchedInit, BootRunnable, At
<1>9. ListedAreCreated
  <2>1. ASSUME NEW t \in Task PROVE On(list, t) => t = Boot
    BY <1>3 DEF On
  <2>2. On(list, Boot)
    BY <1>4, Names DEF On
  <2>3. \A t \in Task : status[t] # "none" <=> t = Boot
    BY DEF SchedInit
  <2>. QED BY <2>1, <2>2, <2>3 DEF ListedAreCreated
<1>10. ZombiesOnExitList
  BY DEF SchedInit, ZombiesOnExitList
<1>. QED BY <1>5, <1>6, <1>7, <1>8, <1>9, <1>10 DEF SchedInit, SchedInv, IdleNeverReached

\* The timer handler preserves the invariant.
LEMMA TimerInv ==
  ASSUME SchedInv, timer_entry
  PROVE  SchedInv'
<1>1. CASE tic_counter = TIC_MAX
  <2>1. scheduler(list, status, "sleep_list") /\ tic_counter' = 0
    BY <1>1 DEF timer_entry
  <2>2. tic_counter' \in 0..TIC_MAX
    BY <2>1, TicAssumption
  <2>. QED BY <2>1, <2>2, ReadyNow, SchedulerStep
           DEF SchedInv, SchedTypeOK, Lists, IdleNeverReached
<1>2. CASE tic_counter # TIC_MAX
  <2>1. tic_counter' = tic_counter + 1 /\ UNCHANGED <<list, status, RUNNING, panic>>
    BY <1>2 DEF timer_entry
  <2>2. tic_counter' \in 0..TIC_MAX
    <3>1. tic_counter \in 0..TIC_MAX
      BY DEF SchedInv, SchedTypeOK
    <3>. QED BY <1>2, <2>1, <3>1, TicAssumption
  <2>. QED BY <2>1, <2>2 DEF SchedInv, SchedTypeOK, RunningIsFront, OnOneListOnly, IdleNeverReached,
                             BootRunnable, ListedAreCreated, ZombiesOnExitList, On, At
<1>. QED BY <1>1, <1>2

\* The call of scheduler() that ends an interruptible sleep preserves it.
LEMMA CallSchedulerInv ==
  ASSUME SchedInv, NEW a \in {"sleep_list"} \cup WaitList, call_scheduler(a)
  PROVE  SchedInv'
<1>1. scheduler(list, status, a) /\ tic_counter' = tic_counter
  BY DEF call_scheduler
<1>. QED BY <1>1, ReadyNow, SchedulerStep
         DEF SchedInv, SchedTypeOK, Lists, IdleNeverReached

\* Going to sleep in a system call preserves it.
LEMMA SleepInv ==
  ASSUME SchedInv, NEW a \in {"sleep_list"} \cup WaitList, sleep_on(a)
  PROVE  SchedInv'
<1>. DEFINE st == [status EXCEPT ![RUNNING] = "TaskSleeping"]
<1>1. scheduler(list, st, a) /\ tic_counter' = tic_counter /\ RUNNING # Boot
  BY DEF sleep_on
<1>2. Ready(list, status)
  BY ReadyNow
<1>3. st \in [Task -> TaskStatus] /\ st[RUNNING] = "TaskSleeping"
      /\ \A t \in Task : t # RUNNING => st[t] = status[t]
  BY DEF SchedInv, SchedTypeOK, TaskStatus
<1>4. On(list, RUNNING)
  <2>1. 1 \in 1..Len(list["running_list"])
    BY <1>2, Names DEF Ready, Lists
  <2>. QED BY <1>2, <2>1, Names DEF Ready, On
<1>. HIDE DEF st
<1>5. Ready(list, st)
  BY <1>1, <1>2, <1>3, <1>4, BootAssumption DEF Ready
<1>. QED BY <1>1, <1>5, SchedulerStep DEF SchedInv, SchedTypeOK, Lists, IdleNeverReached

\* Setting TaskSleeping before the call of scheduler() preserves it.
LEMMA MarkSleepingInv ==
  ASSUME SchedInv, mark_sleeping
  PROVE  SchedInv'
<1>1. /\ status' = [status EXCEPT ![RUNNING] = "TaskSleeping"] /\ RUNNING # Boot
      /\ UNCHANGED <<list, RUNNING, tic_counter, panic>>
  BY DEF mark_sleeping
<1>2. status' \in [Task -> TaskStatus] /\ status'[RUNNING] = "TaskSleeping"
      /\ \A t \in Task : t # RUNNING => status'[t] = status[t]
  BY <1>1 DEF SchedInv, SchedTypeOK, TaskStatus
<1>3. On(list, RUNNING)
  <2>1. 1 \in 1..Len(list["running_list"]) /\ list["running_list"][1] = RUNNING
    BY ReadyNow, Names DEF Ready, Lists
  <2>. QED BY <2>1, Names DEF On
<1>4. SchedTypeOK' /\ RunningIsFront' /\ OnOneListOnly' /\ IdleNeverReached'
  BY <1>1, <1>2 DEF SchedInv, SchedTypeOK, RunningIsFront, OnOneListOnly, IdleNeverReached
<1>5. BootRunnable' /\ ZombiesOnExitList'
  BY <1>1, <1>2, BootAssumption DEF SchedInv, BootRunnable, ZombiesOnExitList, At
<1>6. ListedAreCreated'
  BY <1>1, <1>2, <1>3 DEF SchedInv, ListedAreCreated, On
<1>. QED BY <1>4, <1>5, <1>6 DEF SchedInv

\* Adding a new task preserves it.
LEMMA AddTaskInv ==
  ASSUME SchedInv, NEW t \in Task, add_task(t)
  PROVE  SchedInv'
<1>. DEFINE r == list["running_list"]
<1>1. /\ status[t] = "none" /\ status' = [status EXCEPT ![t] = "TaskRunning"]
      /\ list' = [list EXCEPT !["running_list"] = Append(@, t)]
      /\ UNCHANGED <<RUNNING, tic_counter, panic>>
  BY DEF add_task
<1>2. r \in Seq(Task) /\ Len(r) > 0 /\ r[1] = RUNNING /\ list \in Lists /\ ~On(list, t)
  BY <1>1, ReadyNow, Names DEF Ready, Lists
<1>3. /\ list' \in Lists /\ list'["running_list"] = Append(r, t)
      /\ \A l \in ListName : l # "running_list" => list'[l] = list[l]
  BY <1>1, <1>2, Names DEF Lists
<1>4. /\ Append(r, t) \in Seq(Task) /\ Len(Append(r, t)) = Len(r) + 1
      /\ \A i \in 1..Len(r) : i \in 1..Len(Append(r, t)) /\ Append(r, t)[i] = r[i]
      /\ Append(r, t)[Len(r) + 1] = t /\ Len(r) + 1 \in 1..Len(Append(r, t))
      /\ \A i \in 1..Len(Append(r, t)) : i = Len(r) + 1 \/ i \in 1..Len(r)
  BY <1>2
<1>5. status' \in [Task -> TaskStatus] /\ status'[t] = "TaskRunning"
      /\ \A u \in Task : u # t => status'[u] = status[u]
  BY <1>1 DEF SchedInv, SchedTypeOK, TaskStatus
<1>6. SchedTypeOK' /\ IdleNeverReached'
  BY <1>1, <1>3, <1>5 DEF SchedInv, SchedTypeOK, Lists, IdleNeverReached
<1>7. RunningIsFront'
  <2>1. Len(Append(r, t)) > 0 /\ Head(Append(r, t)) = RUNNING
    BY <1>2
  <2>. QED BY <1>1, <1>3, <2>1 DEF RunningIsFront
<1>8. \A l \in ListName : \A i \in 1..Len(list'[l]) :
        \/ i \in 1..Len(list[l]) /\ list'[l][i] = list[l][i]
        \/ l = "running_list" /\ i = Len(r) + 1 /\ list'[l][i] = t
  BY <1>3, <1>4
<1>9. OnOneListOnly'
  <2>. SUFFICES ASSUME NEW l1 \in ListName, NEW l2 \in ListName,
                       NEW i \in 1..Len(list'[l1]), NEW j \in 1..Len(list'[l2]),
                       list'[l1][i] = list'[l2][j]
                PROVE  l1 = l2 /\ i = j
    BY DEF OnOneListOnly
  <2>1. CASE i \in 1..Len(list[l1]) /\ list'[l1][i] = list[l1][i]
             /\ j \in 1..Len(list[l2]) /\ list'[l2][j] = list[l2][j]
    <3>1. list[l1][i] = list[l2][j]
      BY <2>1
    <3>2. OnOneListOnly
      BY DEF SchedInv
    <3>3. i \in 1..Len(list[l1]) /\ j \in 1..Len(list[l2])
      BY <2>1
    <3>. QED BY <3>1, <3>2, <3>3 DEF OnOneListOnly
  <2>2. CASE l1 = "running_list" /\ i = Len(r) + 1 /\ list'[l1][i] = t
             /\ l2 = "running_list" /\ j = Len(r) + 1
    BY <2>2
  <2>3. CASE list'[l1][i] = t /\ j \in 1..Len(list[l2]) /\ list'[l2][j] = list[l2][j]
    BY <2>3, <1>2 DEF On
  <2>4. CASE list'[l2][j] = t /\ i \in 1..Len(list[l1]) /\ list'[l1][i] = list[l1][i]
    BY <2>4, <1>2 DEF On
  <2>. QED BY <1>8, <2>1, <2>2, <2>3, <2>4
<1>10. \A l \in ListName : \A i \in 1..Len(list[l]) : i \in 1..Len(list'[l]) /\ list'[l][i] = list[l][i]
  BY <1>3, <1>4
<1>11. BootRunnable'
  BY <1>1, <1>5, <1>10, Names, BootAssumption DEF SchedInv, BootRunnable, At
<1>12. ListedAreCreated'
  <2>. SUFFICES ASSUME NEW u \in Task PROVE On(list', u) <=> status'[u] # "none"
    BY DEF ListedAreCreated, On
  <2>1. CASE u = t
    BY <2>1, <1>3, <1>4, <1>5, Names DEF On
  <2>2. CASE u # t
    <3>1. On(list', u) <=> On(list, u)
      BY <2>2, <1>8, <1>10 DEF On
    <3>. QED BY <2>2, <3>1, <1>5 DEF SchedInv, ListedAreCreated
  <2>. QED BY <2>1, <2>2
<1>13. ZombiesOnExitList'
  BY <1>5, <1>10, Names DEF SchedInv, ZombiesOnExitList, At
<1>. QED BY <1>6, <1>7, <1>9, <1>11, <1>12, <1>13 DEF SchedInv

\* Waking the first n waiters of a pipe preserves it.
LEMMA WakeUpInv ==
  ASSUME SchedInv, NEW w \in WaitList, NEW n \in 1..Len(list[w]), wake_up(w, n)
  PROVE  SchedInv'
<1>. DEFINE r == list["running_list"]
            a == SubSeq(list[w], 1, n)
            b == SubSeq(list[w], n + 1, Len(list[w]))
<1>1. list' = some_woken(w, n) /\ UNCHANGED <<status, RUNNING, tic_counter, panic>>
  BY DEF wake_up
<1>2. /\ w \in ListName \ {"running_list"} /\ w # "exit_list" /\ list \in Lists
      /\ list[w] \in Seq(Task) /\ r \in Seq(Task) /\ OneList(list)
      /\ Len(r) > 0 /\ r[1] = RUNNING
  BY ReadyNow, Names DEF Ready, Lists
<1>3. Inj(list[w])
  BY <1>2, OneListParts
<1>4. /\ a \in Seq(Task) /\ b \in Seq(Task)
      /\ Inj(a) /\ Inj(b) /\ Disj(a, b)
      /\ Within(a, list[w]) /\ Within(b, list[w])
      /\ \A i \in 1..Len(list[w]) : \/ \E j \in 1..Len(a) : a[j] = list[w][i]
                                    \/ \E j \in 1..Len(b) : b[j] = list[w][i]
  BY <1>2, <1>3, SplitFacts
<1>5. list' = [list EXCEPT !["running_list"] = r \o a, ![w] = b]
  BY <1>1, <1>2, Names DEF some_woken, Lists
<1>. HIDE DEF a, b
<1>6. r \o a \in Seq(Task)
  BY <1>2, <1>4
<1>7. /\ list' \in Lists
      /\ list'["running_list"] = list["running_list"] \o a /\ list'[w] = b
      /\ \A l \in ListName \ {"running_list", w} : list'[l] = list[l]
  BY <1>2, <1>4, <1>5, <1>6, Names DEF Lists
<1>8. OneList(list')
  BY <1>2, <1>4, <1>7, MovedOneList
<1>9. ASSUME NEW t \in Task PROVE On(list', t) <=> On(list, t)
  <2>. DEFINE new == list'
  <2>1. /\ new \in Lists /\ new["running_list"] = list["running_list"] \o a /\ new[w] = b
        /\ \A l \in ListName \ {"running_list", w} : new[l] = list[l]
    BY <1>7
  <2>. HIDE DEF new
  <2>2. /\ list \in Lists /\ w \in ListName \ {"running_list"}
        /\ a \in Seq(Task) /\ b \in Seq(Task) /\ Within(a, list[w]) /\ Within(b, list[w])
    BY <1>2, <1>4
  <2>3. \A i \in 1..Len(list[w]) : \/ \E j \in 1..Len(a) : a[j] = list[w][i]
                                   \/ \E j \in 1..Len(b) : b[j] = list[w][i]
    BY <1>4
  <2>4. On(new, t) <=> On(list, t)
    BY <2>1, <2>2, <2>3, MovedMembers, Zenon
  <2>. QED BY <2>4 DEF new
<1>10. \A i \in 1..Len(r) : i \in 1..Len(list'["running_list"]) /\ list'["running_list"][i] = r[i]
  <2>1. \A i \in 1..Len(r) : i \in 1..Len(r \o a) /\ (r \o a)[i] = r[i]
    BY <1>2, <1>4, ConcatKeeps
  <2>. QED BY <2>1, <1>7
<1>11. RunningIsFront'
  <2>1. list'["running_list"] \in Seq(Task)
    BY <1>7, Names DEF Lists
  <2>2. 1 \in 1..Len(r)
    BY <1>2
  <2>3. 1 \in 1..Len(list'["running_list"]) /\ list'["running_list"][1] = RUNNING
    BY <2>2, <1>2, <1>10
  <2>4. Len(list'["running_list"]) > 0 /\ Head(list'["running_list"]) = RUNNING
    BY <2>1, <2>3
  <2>. QED BY <1>1, <2>4 DEF RunningIsFront
<1>12. SchedTypeOK' /\ IdleNeverReached'
  BY <1>1, <1>7 DEF SchedInv, SchedTypeOK, Lists, IdleNeverReached
<1>13. OnOneListOnly'
  BY <1>8 DEF OneList, OnOneListOnly
<1>14. BootRunnable'
  BY <1>1, <1>10 DEF SchedInv, BootRunnable, At
<1>15. ListedAreCreated'
  BY <1>1, <1>9 DEF SchedInv, ListedAreCreated, On
<1>16. ZombiesOnExitList'
  <2>1. list'["exit_list"] = list["exit_list"]
    BY <1>2, <1>7, Names
  <2>. QED BY <1>1, <2>1 DEF SchedInv, ZombiesOnExitList, At
<1>. QED BY <1>11, <1>12, <1>13, <1>14, <1>15, <1>16 DEF SchedInv

\* What exit_self hands to scheduler(): every sleeping task is now runnable and
\* on running_list, the current one a zombie at its front.
LEMMA ExitReady ==
  ASSUME SchedInv, RUNNING # Boot,
         NEW st, st = all_woken_status([status EXCEPT ![RUNNING] = "TaskZombie"]),
         NEW ls, ls = all_woken
  PROVE  /\ Ready(ls, st)
         /\ \A t \in Task : st[t] = IF At(list, "sleep_list", t) THEN "TaskRunning"
                                    ELSE IF t = RUNNING THEN "TaskZombie" ELSE status[t]
         /\ ls["sleep_list"] = <<>>
         /\ \A l \in ListName \ {"running_list", "sleep_list"} : ls[l] = list[l]
         /\ \A i \in 1..Len(ls["running_list"]) :
              At(list, "running_list", ls["running_list"][i]) \/ At(list, "sleep_list", ls["running_list"][i])
<1>. DEFINE r == list["running_list"]
            s == list["sleep_list"]
            rev == reversed(s)
<1>2. /\ list \in Lists /\ s \in Seq(Task) /\ r \in Seq(Task) /\ OneList(list)
      /\ Len(r) > 0 /\ r[1] = RUNNING /\ RUNNING \in Task /\ panic = "none"
      /\ status \in [Task -> TaskStatus]
  BY ReadyNow, Names DEF Ready, Lists
<1>3. Inj(s)
  BY <1>2, OneListParts, Names
<1>4. rev \in Seq(Task) /\ Inj(rev) /\ Within(rev, s) /\ Within(s, rev)
  BY <1>2, <1>3, ReversedFacts
<1>5. ls = [list EXCEPT !["running_list"] = r \o rev, !["sleep_list"] = <<>>]
  BY <1>2, Names DEF all_woken, Lists
<1>. HIDE DEF rev
<1>6. r \o rev \in Seq(Task) /\ <<>> \in Seq(Task)
  BY <1>2, <1>4
<1>7. /\ ls \in Lists
      /\ ls["running_list"] = list["running_list"] \o rev /\ ls["sleep_list"] = <<>>
      /\ \A l \in ListName \ {"running_list", "sleep_list"} : ls[l] = list[l]
  BY <1>2, <1>5, <1>6, Names DEF Lists
<1>8. Within(<<>>, s) /\ Inj(<<>>) /\ Disj(rev, <<>>)
  BY DEF Within, Inj, Disj
<1>9. OneList(ls)
  BY <1>2, <1>4, <1>6, <1>7, <1>8, Names, MovedOneList
<1>10. \A i \in 1..Len(s) : \E j \in 1..Len(rev) : rev[j] = s[i]
  BY <1>4 DEF Within
<1>11. \A t \in Task : On(ls, t) <=> On(list, t)
  BY <1>2, <1>4, <1>6, <1>7, <1>8, <1>10, Names, MovedMembers
<1>12. \A i \in 1..Len(r) : i \in 1..Len(ls["running_list"]) /\ ls["running_list"][i] = r[i]
  <2>1. \A i \in 1..Len(r) : i \in 1..Len(r \o rev) /\ (r \o rev)[i] = r[i]
    BY <1>2, <1>4, ConcatKeeps
  <2>. QED BY <2>1, <1>7
<1>13. Len(ls["running_list"]) > 0 /\ ls["running_list"][1] = RUNNING
  <2>1. 1 \in 1..Len(r)
    BY <1>2
  <2>2. ls["running_list"] \in Seq(Task)
    BY <1>7, Names DEF Lists
  <2>. QED BY <1>2, <1>12, <2>1, <2>2
<1>14. \A t \in Task : st[t] = IF At(list, "sleep_list", t) THEN "TaskRunning"
                               ELSE IF t = RUNNING THEN "TaskZombie" ELSE status[t]
  BY <1>2 DEF all_woken_status, At
<1>15. st \in [Task -> TaskStatus]
  <2>1. [status EXCEPT ![RUNNING] = "TaskZombie"] \in [Task -> TaskStatus]
    BY <1>2 DEF TaskStatus
  <2>. QED BY <2>1 DEF all_woken_status, TaskStatus
<1>16. \A t \in Task : At(list, "sleep_list", t) => On(list, t)
  BY Names DEF At, On
<1>17. On(list, RUNNING)
  <2>1. 1 \in 1..Len(r)
    BY <1>2
  <2>. QED BY <2>1, <1>2, Names DEF On
<1>18. \A t \in Task : On(ls, t) <=> st[t] # "none"
  BY <1>11, <1>14, <1>16, <1>17 DEF SchedInv, ListedAreCreated
<1>19. st[Boot] = "TaskRunning" /\ At(ls, "running_list", Boot)
  BY <1>12, <1>14, BootAssumption DEF SchedInv, BootRunnable, At
<1>20. \A t \in Task : st[t] = "TaskZombie" => t = RUNNING \/ At(ls, "exit_list", t)
  <2>1. ls["exit_list"] = list["exit_list"]
    BY <1>7, Names
  <2>2. \A t \in Task : status[t] = "TaskZombie" => At(list, "exit_list", t)
    BY DEF SchedInv, ZombiesOnExitList
  <2>3. \A t \in Task : At(list, "exit_list", t) => At(ls, "exit_list", t)
    BY <2>1 DEF At
  <2>. QED BY <1>14, <2>2, <2>3
<1>21. Ready(ls, st)
  BY <1>2, <1>7, <1>9, <1>13, <1>15, <1>18, <1>19, <1>20 DEF Ready
<1>22. \A i \in 1..Len(ls["running_list"]) :
          At(list, "running_list", ls["running_list"][i]) \/ At(list, "sleep_list", ls["running_list"][i])
  <2>1. ASSUME NEW i \in 1..Len(r \o rev)
        PROVE  At(list, "running_list", (r \o rev)[i]) \/ At(list, "sleep_list", (r \o rev)[i])
    <3>1. \/ i \in 1..Len(r) /\ (r \o rev)[i] = r[i]
          \/ i - Len(r) \in 1..Len(rev) /\ (r \o rev)[i] = rev[i - Len(r)]
      BY <1>2, <1>4, ConcatAt
    <3>2. CASE i \in 1..Len(r) /\ (r \o rev)[i] = r[i]
      BY <3>2 DEF At
    <3>3. CASE i - Len(r) \in 1..Len(rev) /\ (r \o rev)[i] = rev[i - Len(r)]
      <4>1. \E j \in 1..Len(s) : rev[i - Len(r)] = s[j]
        BY <3>3, <1>4 DEF Within
      <4>. QED BY <3>3, <4>1 DEF At
    <3>. QED BY <3>1, <3>2, <3>3
  <2>. QED BY <2>1, <1>7
<1>. QED BY <1>7, <1>14, <1>21, <1>22

\* Exiting, with the wake-up of every sleeping task, preserves it.
LEMMA ExitInv ==
  ASSUME SchedInv, exit_self
  PROVE  SchedInv'
<1>. DEFINE st == all_woken_status([status EXCEPT ![RUNNING] = "TaskZombie"])
<1>1. scheduler(all_woken, st, "sleep_list") /\ tic_counter' = tic_counter /\ RUNNING # Boot
  BY DEF exit_self
<1>2. Ready(all_woken, st)
  BY <1>1, ExitReady
<1>. QED BY <1>1, <1>2, SchedulerStep DEF SchedInv, SchedTypeOK, Lists, IdleNeverReached

\* Every step preserves the invariant.
LEMMA NextInv ==
  ASSUME SchedInv, [SchedNext]_schedVars
  PROVE  SchedInv'
<1>1. CASE UNCHANGED schedVars
  BY <1>1 DEF schedVars, SchedInv, SchedTypeOK, RunningIsFront, OnOneListOnly, IdleNeverReached,
              BootRunnable, ListedAreCreated, ZombiesOnExitList, On, At
<1>2. ASSUME NEW t \in Task, add_task(t) PROVE SchedInv'
  BY <1>2, AddTaskInv
<1>3. ASSUME NEW a \in {"sleep_list"} \cup WaitList, sleep_on(a) PROVE SchedInv'
  BY <1>3, SleepInv
<1>4. ASSUME NEW a \in {"sleep_list"} \cup WaitList, call_scheduler(a) PROVE SchedInv'
  BY <1>4, CallSchedulerInv
<1>5. ASSUME NEW w \in WaitList, NEW n \in 1..Len(list[w]), wake_up(w, n) PROVE SchedInv'
  BY <1>5, WakeUpInv
<1>. QED BY <1>1, <1>2, <1>3, <1>4, <1>5, TimerInv, ExitInv, MarkSleepingInv DEF SchedNext

\* The invariant of the scheduler, for any set of tasks, any wait lists and any
\* TIC_MAX.
THEOREM SchedulerInvariant == SchedSpec => []SchedInv
<1>. QED BY InitInv, NextInv, PTL DEF SchedSpec

\* The statics and the fields of Task keep their types.
THEOREM SchedulerTypeCorrect == SchedSpec => []SchedTypeOK
<1>1. SchedInv => SchedTypeOK
  BY DEF SchedInv
<1>. QED BY <1>1, SchedulerInvariant, PTL

\* scheduler() always pops the task it re-queues: RUNNING is the front of
\* running_list.
THEOREM SchedulerRunsTheFront == SchedSpec => []RunningIsFront
<1>1. SchedInv => RunningIsFront
  BY DEF SchedInv
<1>. QED BY <1>1, SchedulerInvariant, PTL

\* No switch, wake-up or exit ever puts a task on two lists or twice on one.
THEOREM SchedulerKeepsListsApart == SchedSpec => []OnOneListOnly
<1>1. SchedInv => OnOneListOnly
  BY DEF SchedInv
<1>. QED BY <1>1, SchedulerInvariant, PTL

\* No created task is ever off every list.
THEOREM SchedulerLosesNobody == SchedSpec => []NeverLost
<1>1. SchedInv => NeverLost
  BY DEF SchedInv, ListedAreCreated, NeverLost, On
<1>. QED BY <1>1, SchedulerInvariant, PTL

\* The unimplemented idle branch and the assertion of scheduler() are never
\* reached.
THEOREM SchedulerNeverIdles == SchedSpec => []IdleNeverReached
<1>1. SchedInv => IdleNeverReached
  BY DEF SchedInv
<1>. QED BY <1>1, SchedulerInvariant, PTL

\* A step leaves an exited task an exited task, and does not run it.
LEMMA ZombieStep ==
  ASSUME SchedInv, SchedInv', SchedNext, NEW t \in Task, status[t] = "TaskZombie"
  PROVE  status'[t] = "TaskZombie" /\ RUNNING' # t
<1>1. PICK i \in 1..Len(list["exit_list"]) : list["exit_list"][i] = t
  BY DEF SchedInv, ZombiesOnExitList, At
<1>2. /\ status \in [Task -> TaskStatus] /\ RUNNING \in Task
      /\ 1 \in 1..Len(list["running_list"]) /\ list["running_list"][1] = RUNNING
  BY ReadyNow, Names DEF Ready, Lists
<1>3. RUNNING # t
  BY <1>1, <1>2, Names DEF SchedInv, OnOneListOnly
<1>4. ~At(list, "sleep_list", t)
  BY <1>1, Names DEF SchedInv, OnOneListOnly, At
<1>5. status'[t] = "TaskZombie"
  <2>1. ASSUME NEW u \in Task, add_task(u) PROVE status'[t] = "TaskZombie"
    BY <2>1, <1>2 DEF add_task
  <2>2. CASE timer_entry
    BY <2>2 DEF timer_entry, scheduler
  <2>3. CASE exit_self
    <3>1. status' = all_woken_status([status EXCEPT ![RUNNING] = "TaskZombie"])
      BY <2>3 DEF exit_self, scheduler
    <3>2. status'[t] = [status EXCEPT ![RUNNING] = "TaskZombie"][t]
      BY <3>1, <1>4 DEF all_woken_status, At
    <3>. QED BY <3>2, <1>2, <1>3
  <2>4. ASSUME NEW a, sleep_on(a) PROVE status'[t] = "TaskZombie"
    BY <2>4, <1>2, <1>3 DEF sleep_on, scheduler
  <2>5. CASE mark_sleeping
    BY <2>5, <1>2, <1>3 DEF mark_sleeping
  <2>6. ASSUME NEW a, call_scheduler(a) PROVE status'[t] = "TaskZombie"
    BY <2>6 DEF call_scheduler, scheduler
  <2>7. ASSUME NEW w, NEW n, wake_up(w, n) PROVE status'[t] = "TaskZombie"
    BY <2>7 DEF wake_up
  <2>. QED BY <2>1, <2>2, <2>3, <2>4, <2>5, <2>6, <2>7 DEF SchedNext
<1>6. RUNNING' # t
  <2>1. PICK j \in 1..Len(list'["exit_list"]) : list'["exit_list"][j] = t
    BY <1>5 DEF SchedInv, ZombiesOnExitList, At
  <2>2. list'["running_list"] \in Seq(Task) /\ Len(list'["running_list"]) > 0
        /\ RUNNING' = Head(list'["running_list"])
    BY Names DEF SchedInv, SchedTypeOK, RunningIsFront
  <2>3. 1 \in 1..Len(list'["running_list"]) /\ list'["running_list"][1] = RUNNING'
    BY <2>2
  <2>. QED BY <2>1, <2>3, Names DEF SchedInv, OnOneListOnly
<1>. QED BY <1>5, <1>6

\* exit_self() never returns: an exited task never becomes current again.
THEOREM SchedulerBuriesZombies == SchedSpec => ZombieStaysDead
<1>1. SchedInv /\ SchedInv' /\ [SchedNext]_schedVars =>
        [\A t \in Task : status[t] = "TaskZombie" =>
           status'[t] = "TaskZombie" /\ RUNNING' # t]_schedVars
  BY ZombieStep
<1>. QED BY <1>1, SchedulerInvariant, PTL DEF SchedSpec, ZombieStaysDead
=============================================================================
