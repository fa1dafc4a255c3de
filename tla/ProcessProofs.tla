---------------------------- MODULE ProcessProofs ---------------------------
(***************************************************************************)
(* Proofs about the process system calls: they use the task lists only as    *)
(* Scheduler's most general client does, and a task's status, its list and   *)
(* its exit code agree, for every number of tasks and every exit code.        *)
(***************************************************************************)
EXTENDS Process, SchedulerProofs

\* Every step of the process layer is a step of the scheduler, or none.
LEMMA ProcStepIsSchedStep ==
  ASSUME [ProcNext]_procVars
  PROVE  [SchedNext]_schedVars
<1>2. ASSUME panic = "none", create_user_task_and_run PROVE [SchedNext]_schedVars
  BY <1>2 DEF create_user_task_and_run, SchedNext
<1>3. ASSUME panic = "none", irq_handler PROVE [SchedNext]_schedVars
  BY <1>3 DEF irq_handler, SchedNext
<1>4. ASSUME panic = "none", NEW b \in BOOLEAN, sys_clone(b) PROVE [SchedNext]_schedVars
  BY <1>4 DEF sys_clone, stop, SchedNext
<1>5. ASSUME NEW b \in BOOLEAN, sys_execve(b) PROVE UNCHANGED schedVars
  BY <1>5 DEF sys_execve, stop
<1>6. ASSUME panic = "none", NEW c \in ExitCode, sys_exit(c) PROVE [SchedNext]_schedVars
  BY <1>6 DEF sys_exit, SchedNext
<1>7. ASSUME NEW p, NEW o, sys_wait4(p, o) PROVE UNCHANGED schedVars
  BY <1>7 DEF sys_wait4, stop
<1>8. ASSUME panic = "none", NEW w, wait_iteration(w) PROVE [SchedNext]_schedVars
  BY <1>8 DEF wait_iteration, SchedNext
<1>9. ASSUME panic = "none", ppoll_loop PROVE [SchedNext]_schedVars
  BY <1>9 DEF ppoll_loop, SchedNext
<1>10. ASSUME ppoll PROVE UNCHANGED schedVars
  BY <1>10 DEF ppoll
<1>11. CASE UNCHANGED procVars \/ shut_down
  BY <1>11 DEF procVars, shut_down
<1>12. ASSUME panic = "none", in_kernel PROVE [SchedNext]_schedVars
  BY <1>8, <1>9, <1>12 DEF in_kernel, wait_children, wait_for
<1>13. CASE alive /\ ProcStep
  BY <1>13, <1>2, <1>3, <1>4, <1>5, <1>6, <1>7, <1>10, <1>12 DEF alive, ProcStep
<1>. QED BY <1>11, <1>13 DEF ProcNext

\* The process layer implements the scheduler's specification: what is proved of
\* Scheduler holds of clone, execve, exit, wait4 and ppoll.
THEOREM ProcessImplementsScheduler == ProcSpec => ProcessUsesScheduler
<1>1. ProcInit => SchedInit
  BY DEF ProcInit
<1>2. [ProcNext]_procVars => [SchedNext]_schedVars
  BY ProcStepIsSchedStep
<1>. QED BY <1>1, <1>2, PTL DEF ProcSpec, ProcessUsesScheduler, SchedSpec

-----------------------------------------------------------------------------
\* Statuses and lists agree, except for the current task, whose status says
\* where scheduler() is to put it.
MatchButCurrent(ls, st) ==
  \A l \in ListName : \A i \in 1..Len(ls[l]) :
    ls[l][i] # RUNNING => st[ls[l][i]] = status_on(l)

\* scheduler() puts the current task on the list its status names, and so makes
\* statuses and lists agree.
LEMMA SchedulerMatches ==
  ASSUME NEW ls, NEW st, Ready(ls, st), MatchButCurrent(ls, st),
         scheduler(ls, st, "sleep_list")
  PROVE  StatusMatchesList'
<1>. DEFINE r == ls["running_list"]
            new == requeued(ls, st, "sleep_list")
            d == destination(st, "sleep_list")
<1>1. /\ ls \in Lists /\ st \in [Task -> TaskStatus] /\ RUNNING \in Task /\ panic = "none"
      /\ OneList(ls) /\ Len(r) > 0 /\ r[1] = RUNNING
      /\ st[Boot] = "TaskRunning" /\ At(ls, "running_list", Boot)
      /\ \A t \in Task : On(ls, t) <=> st[t] # "none"
  BY DEF Ready
<1>2. r \in Seq(Task) /\ Len(r) \in Nat /\ "sleep_list" \in ListName /\ "running_list" \in ListName
  BY <1>1, Names DEF Lists
<1>3. status' = st
  BY DEF scheduler
<1>4. st[RUNNING] = status_on(d)
  <2>1. On(ls, RUNNING)
    BY <1>1, <1>2 DEF On
  <2>2. st[RUNNING] \in {"TaskRunning", "TaskSleeping", "TaskZombie"}
    BY <1>1, <2>1 DEF TaskStatus
  <2>. QED BY <2>2 DEF destination, status_on
<1>5. CASE Len(r) > 1
  <2>1. list' = new
    BY <1>5 DEF scheduler
  <2>2. ASSUME NEW l \in ListName, NEW i \in 1..Len(new[l])
        PROVE  st[new[l][i]] = status_on(l)
    <3>1. CASE l = d /\ i = Len(new[l])
      <4>1. new[l][i] = r[1]
        BY <1>1, <1>2, <1>5, <3>1, RequeuedAt
      <4>. QED BY <1>1, <1>4, <3>1, <4>1
    <3>2. ASSUME NEW j \in 1..Len(ls[l]), ~(l = "running_list" /\ j = 1), new[l][i] = ls[l][j]
          PROVE  st[new[l][i]] = status_on(l)
      <4>1. ls[l][j] # RUNNING
        <5>1. 1 \in 1..Len(ls["running_list"])
          BY <1>1, <1>2
        <5>2. ls[l][j] = ls["running_list"][1] => l = "running_list" /\ j = 1
          BY <1>1, <1>2, <5>1, OneListUse
        <5>. QED BY <5>2, <3>2, <1>1
      <4>. QED BY <3>2, <4>1 DEF MatchButCurrent
    <3>3. CASE ~(l = d /\ i = Len(new[l])) /\ l = "running_list"
      <4>1. i + 1 \in 2..Len(ls[l]) /\ new[l][i] = ls[l][i + 1]
        BY <1>1, <1>2, <1>5, <3>3, RequeuedAt
      <4>2. i + 1 \in 1..Len(ls[l]) /\ i + 1 # 1
        BY <4>1, <1>2, <3>3
      <4>. QED BY <4>1, <4>2, <3>2
    <3>4. CASE ~(l = d /\ i = Len(new[l])) /\ l # "running_list"
      <4>1. i \in 1..Len(ls[l]) /\ new[l][i] = ls[l][i]
        BY <1>1, <1>2, <1>5, <3>4, RequeuedAt
      <4>. QED BY <4>1, <3>4, <3>2
    <3>. QED BY <3>1, <3>3, <3>4
  <2>. QED BY <1>3, <2>1, <2>2 DEF StatusMatchesList
<1>6. CASE ~(Len(r) > 1)
  <2>1. list' = ls
    BY <1>6 DEF scheduler
  <2>2. Len(r) = 1
    BY <1>1, <1>2, <1>6, AboutOne, Zenon
  <2>3. RUNNING = Boot
    BY <1>1, <2>2 DEF At
  <2>4. ASSUME NEW l \in ListName, NEW i \in 1..Len(ls[l]), ls[l][i] = RUNNING
        PROVE  l = "running_list"
    <3>1. 1 \in 1..Len(ls["running_list"])
      BY <2>2
    <3>. QED BY <3>1, <1>1, <1>2, <2>4, OneListUse
  <2>. QED BY <1>1, <1>3, <2>1, <2>3, <2>4 DEF StatusMatchesList, MatchButCurrent, status_on
<1>. QED BY <1>5, <1>6

\* The current task is on running_list, and on no other list.
LEMMA MatchNow ==
  ASSUME SchedInv, StatusMatchesList, NEW st,
         \A t \in Task : t # RUNNING => st[t] = status[t]
  PROVE  MatchButCurrent(list, st)
<1>1. ASSUME NEW l \in ListName, NEW i \in 1..Len(list[l]) PROVE list[l][i] \in Task
  <2>1. list[l] \in Seq(Task)
    BY DEF SchedInv, SchedTypeOK
  <2>. QED BY <2>1
<1>. QED BY <1>1, Zenon DEF StatusMatchesList, MatchButCurrent

\* Every step of the scheduler that the process layer takes keeps statuses and
\* lists in agreement.
LEMMA TimerMatches ==
  ASSUME SchedInv, StatusMatchesList, timer_entry
  PROVE  StatusMatchesList'
<1>1. CASE tic_counter = TIC_MAX
  <2>1. scheduler(list, status, "sleep_list")
    BY <1>1 DEF timer_entry
  <2>. QED BY <2>1, ReadyNow, MatchNow, SchedulerMatches
<1>2. CASE tic_counter # TIC_MAX
  BY <1>2 DEF timer_entry, StatusMatchesList
<1>. QED BY <1>1, <1>2

LEMMA SleepMatches ==
  ASSUME SchedInv, StatusMatchesList, sleep_on("sleep_list")
  PROVE  StatusMatchesList'
<1>. DEFINE st == [status EXCEPT ![RUNNING] = "TaskSleeping"]
<1>1. scheduler(list, st, "sleep_list") /\ RUNNING # Boot
  BY DEF sleep_on
<1>2. Ready(list, status)
  BY ReadyNow
<1>3. st \in [Task -> TaskStatus] /\ st[RUNNING] = "TaskSleeping"
      /\ \A t \in Task : t # RUNNING => st[t] = status[t]
  BY <1>2 DEF Ready, TaskStatus
<1>. HIDE DEF st
<1>4. Ready(list, st)
  <2>1. On(list, RUNNING)
    BY <1>2, Names DEF Ready, On, Lists
  <2>. QED BY <1>1, <1>2, <1>3, <2>1, BootAssumption DEF Ready
<1>. QED BY <1>1, <1>3, <1>4, MatchNow, SchedulerMatches

LEMMA ExitMatches ==
  ASSUME SchedInv, StatusMatchesList, exit_self
  PROVE  StatusMatchesList'
<1>. DEFINE st == all_woken_status([status EXCEPT ![RUNNING] = "TaskZombie"])
            ls == all_woken
<1>1. scheduler(ls, st, "sleep_list") /\ RUNNING # Boot
  BY DEF exit_self
<1>2. /\ Ready(ls, st)
      /\ \A t \in Task : st[t] = IF At(list, "sleep_list", t) THEN "TaskRunning"
                                 ELSE IF t = RUNNING THEN "TaskZombie" ELSE status[t]
      /\ ls["sleep_list"] = <<>>
      /\ \A l \in ListName \ {"running_list", "sleep_list"} : ls[l] = list[l]
      /\ \A i \in 1..Len(ls["running_list"]) :
           At(list, "running_list", ls["running_list"][i]) \/ At(list, "sleep_list", ls["running_list"][i])
  BY <1>1, ExitReady
<1>. HIDE DEF st, ls
<1>3. list \in Lists /\ OneList(list) /\ ls \in Lists
  BY <1>2, ReadyNow DEF Ready
<1>4. ASSUME NEW l \in ListName, NEW i \in 1..Len(ls[l]), ls[l][i] # RUNNING
      PROVE  st[ls[l][i]] = status_on(l)
  <2>0. ls[l][i] \in Task
    BY <1>3 DEF Lists
  <2>1. CASE l = "running_list"
    <3>1. At(list, "running_list", ls[l][i]) \/ At(list, "sleep_list", ls[l][i])
      BY <1>2, <2>1
    <3>2. At(list, "running_list", ls[l][i]) => status[ls[l][i]] = "TaskRunning"
      BY Names DEF StatusMatchesList, At, status_on
    <3>. QED BY <1>2, <1>4, <2>0, <2>1, <3>1, <3>2 DEF status_on
  <2>2. CASE l = "sleep_list"
    BY <1>2, <2>2
  <2>3. CASE l \notin {"running_list", "sleep_list"}
    <3>1. ls[l] = list[l]
      BY <1>2, <2>3
    <3>2. ~At(list, "sleep_list", ls[l][i])
      BY <1>3, <2>3, <3>1, Names, OneListUse DEF At
    <3>3. status[ls[l][i]] = status_on(l)
      BY <3>1 DEF StatusMatchesList
    <3>. QED BY <1>2, <1>4, <2>0, <3>2, <3>3
  <2>. QED BY <2>1, <2>2, <2>3
<1>5. MatchButCurrent(ls, st)
  BY <1>4 DEF MatchButCurrent
<1>. QED BY <1>1, <1>2, <1>5, SchedulerMatches

LEMMA AddTaskMatches ==
  ASSUME SchedInv, StatusMatchesList, NEW t \in Task, add_task(t)
  PROVE  StatusMatchesList'
<1>1. /\ status[t] = "none" /\ status' = [status EXCEPT ![t] = "TaskRunning"]
      /\ list' = [list EXCEPT !["running_list"] = Append(@, t)]
  BY DEF add_task
<1>2. /\ list \in Lists /\ status \in [Task -> TaskStatus] /\ ~On(list, t)
      /\ list["running_list"] \in Seq(Task)
  BY <1>1, Names DEF SchedInv, SchedTypeOK, ListedAreCreated, Lists
<1>3. ASSUME NEW l \in ListName, NEW i \in 1..Len(list[l])
      PROVE  status'[list[l][i]] = status_on(l)
  <2>1. list[l][i] \in Task /\ list[l][i] # t
    BY <1>2 DEF On, Lists
  <2>. QED BY <1>1, <1>2, <2>1 DEF StatusMatchesList
<1>4. /\ \A l \in ListName : l # "running_list" => list'[l] = list[l]
      /\ list'["running_list"] = Append(list["running_list"], t)
  BY <1>1, <1>2, Names DEF Lists
<1>5. ASSUME NEW i \in 1..Len(list'["running_list"])
      PROVE  status'[list'["running_list"][i]] = "TaskRunning"
  <2>1. CASE i \in 1..Len(list["running_list"])
    <3>1. list'["running_list"][i] = list["running_list"][i]
      BY <1>2, <1>4, <2>1
    <3>. QED BY <1>3, <2>1, <3>1, Names DEF status_on
  <2>2. CASE i \notin 1..Len(list["running_list"])
    <3>1. list'["running_list"][i] = t
      BY <1>2, <1>4, <2>2
    <3>. QED BY <1>1, <1>2, <3>1
  <2>. QED BY <2>1, <2>2
<1>. QED BY <1>3, <1>4, <1>5 DEF StatusMatchesList, status_on

-----------------------------------------------------------------------------
\* The invariant of the scheduler and that of the process layer, which are
\* inductive together with the property about reported exit codes.
ProcIInv == SchedInv /\ ProcInv /\ ExitCodeNeverReported

\* Zombies stay zombies, so codes stay with the dead.
LEMMA CodesStay ==
  ASSUME SchedInv, SchedInv', CodesAreOfTheDead, [SchedNext]_schedVars, UNCHANGED exit_code
  PROVE  CodesAreOfTheDead'
<1>1. ASSUME NEW t \in Task, status[t] = "TaskZombie" PROVE status'[t] = "TaskZombie"
  <2>1. CASE SchedNext
    BY <1>1, <2>1, ZombieStep
  <2>2. CASE UNCHANGED schedVars
    BY <1>1, <2>2 DEF schedVars
  <2>. QED BY <2>1, <2>2
<1>. QED BY <1>1 DEF CodesAreOfTheDead

\* exit_self makes the current task a zombie and nobody else.
LEMMA ExitCodes ==
  ASSUME SchedInv, ProcInv, NEW c \in ExitCode, exit_self,
         exit_code' = [exit_code EXCEPT ![RUNNING] = c]
  PROVE  CodesAreOfTheDead'
<1>. DEFINE st == all_woken_status([status EXCEPT ![RUNNING] = "TaskZombie"])
<1>1. /\ \A t \in Task : st[t] = IF At(list, "sleep_list", t) THEN "TaskRunning"
                                 ELSE IF t = RUNNING THEN "TaskZombie" ELSE status[t]
      /\ status' = st
  BY ExitReady DEF exit_self, scheduler
<1>. HIDE DEF st
<1>2. ASSUME NEW t \in Task, At(list, "sleep_list", t) PROVE status[t] = "TaskSleeping" /\ t # RUNNING
  <2>1. status[t] = "TaskSleeping"
    BY <1>2, Names DEF ProcInv, StatusMatchesList, At, status_on
  <2>2. 1 \in 1..Len(list["running_list"]) /\ list["running_list"][1] = RUNNING /\ OneList(list)
    BY ReadyNow, Names DEF Ready, Lists
  <2>. QED BY <1>2, <2>1, <2>2, OneListUse, Names DEF At
<1>3. RUNNING \in Task /\ exit_code \in [Task -> ExitCode]
  BY DEF SchedInv, SchedTypeOK, ProcInv, ProcTypeOK
<1>. QED BY <1>1, <1>2, <1>3 DEF ProcInv, CodesAreOfTheDead

\* The fields of Task that are not the scheduler's.
ProcFields ==
  /\ pc \in [Task -> Place]
  /\ parent \in [Task -> 0..MAX_TID]
  /\ exit_code \in [Task -> ExitCode]
  /\ g_tid \in 2..(MAX_TID + 1)
  /\ waited \in [Task -> [code : ExitCode, tid : 0..MAX_TID]]
  /\ stopped \in Reason

\* A tid handed out leaves the next one in range, and is a tid like any other.
LEMMA NextTid ==
  ASSUME NEW n \in Task
  PROVE  n + 1 \in 2..(MAX_TID + 1) /\ n \in 0..MAX_TID
  BY TidAssumption

\* A step of the process layer preserves the joint invariant.
LEMMA ProcStepInv ==
  ASSUME ProcIInv, [ProcNext]_procVars
  PROVE  ProcIInv'
<1>1. SchedInv' /\ [SchedNext]_schedVars
  <2>1. [SchedNext]_schedVars
    BY ProcStepIsSchedStep
  <2>. QED BY <2>1, NextInv DEF ProcIInv
<1>2. /\ SchedInv /\ ProcInv /\ ExitCodeNeverReported /\ StatusMatchesList /\ CodesAreOfTheDead
      /\ ProcFields /\ RUNNING \in Task /\ Task = 1..MAX_TID /\ MAX_TID \in Nat
      /\ 0 \in ExitCode
  BY TidAssumption, ExitCodeAssumption
     DEF ProcIInv, ProcInv, ProcTypeOK, ProcFields, SchedInv, SchedTypeOK
<1>3. ASSUME ProcFields', StatusMatchesList', CodesAreOfTheDead', ExitCodeNeverReported'
      PROVE  ProcIInv'
  BY <1>1, <1>3 DEF ProcIInv, ProcInv, ProcTypeOK, ProcFields, SchedInv
<1>4. ASSUME UNCHANGED <<list, status>> PROVE StatusMatchesList'
  BY <1>2, <1>4 DEF StatusMatchesList
<1>5. ASSUME UNCHANGED exit_code PROVE CodesAreOfTheDead'
  BY <1>1, <1>2, <1>5, CodesStay
<1>6. ASSUME UNCHANGED waited PROVE ExitCodeNeverReported'
  BY <1>2, <1>6 DEF ExitCodeNeverReported
<1>7. ASSUME NEW why \in Reason, stop(why) PROVE ProcIInv'
  BY <1>2, <1>3, <1>4, <1>5, <1>6, <1>7 DEF stop, schedVars, ProcFields
<1>70. /\ {"loop", "user", "wait_children", "wait_for", "ppoll", "exited"} \subseteq Place
       /\ {"clone flags", "execve", "assert option"} \subseteq Reason
  BY DEF Place, Reason
<1>8. ASSUME create_user_task_and_run PROVE ProcIInv'
  <2>1. StatusMatchesList'
    <3>1. CASE g_tid \in Task /\ add_task(g_tid)
      BY <1>2, <1>70, <3>1, AddTaskMatches
    <3>. QED BY <1>4, <1>8, <3>1 DEF create_user_task_and_run, schedVars
  <2>2. g_tid' \in 2..(MAX_TID + 1)
    BY <1>2, <1>8, NextTid DEF create_user_task_and_run, ProcFields
  <2>3. ProcFields'
    BY <1>2, <1>70, <1>8, <2>2 DEF create_user_task_and_run, ProcFields
  <2>. QED BY <1>3, <1>5, <1>6, <1>8, <2>1, <2>3 DEF create_user_task_and_run
<1>9. ASSUME irq_handler PROVE ProcIInv'
  <2>1. StatusMatchesList'
    BY <1>2, <1>70, <1>9, TimerMatches DEF irq_handler
  <2>. QED BY <1>2, <1>70, <1>3, <1>5, <1>6, <1>9, <2>1 DEF irq_handler, ProcFields
<1>10. ASSUME NEW b \in BOOLEAN, sys_clone(b) PROVE ProcIInv'
  <2>1. CASE b
    <3>1. StatusMatchesList'
      BY <1>2, <1>70, <1>10, <2>1, AddTaskMatches DEF sys_clone
    <3>2. ProcFields'
      <4>1. g_tid \in Task /\ g_tid' = g_tid + 1 /\ parent' = [parent EXCEPT ![g_tid] = RUNNING]
        BY <1>10, <2>1 DEF sys_clone
      <4>2. parent' \in [Task -> 0..MAX_TID] /\ g_tid' \in 2..(MAX_TID + 1)
        BY <1>2, <4>1, NextTid DEF ProcFields
      <4>. QED BY <1>2, <1>70, <1>10, <2>1, <4>2 DEF sys_clone, ProcFields
    <3>. QED BY <1>3, <1>5, <1>6, <1>10, <2>1, <3>1, <3>2 DEF sys_clone
  <2>2. CASE ~b
    BY <1>7, <1>70, <1>10, <2>2, Zenon DEF sys_clone
  <2>. QED BY <2>1, <2>2
<1>11. ASSUME NEW b \in BOOLEAN, sys_execve(b) PROVE ProcIInv'
  <2>1. CASE b
    <3>1. ProcFields'
      BY <1>2, <1>11, <2>1, NextTid DEF sys_execve, ProcFields
    <3>. QED BY <1>3, <1>4, <1>5, <1>6, <1>11, <2>1, <3>1 DEF sys_execve, schedVars
  <2>2. CASE ~b
    BY <1>7, <1>70, <1>11, <2>2, Zenon DEF sys_execve
  <2>. QED BY <2>1, <2>2
<1>12. ASSUME NEW c \in ExitCode, sys_exit(c) PROVE ProcIInv'
  <2>1. StatusMatchesList'
    BY <1>2, <1>70, <1>12, ExitMatches DEF sys_exit
  <2>2. CodesAreOfTheDead'
    BY <1>2, <1>70, <1>12, ExitCodes DEF sys_exit
  <2>3. ProcFields'
    BY <1>2, <1>70, <1>12 DEF sys_exit, ProcFields
  <2>. QED BY <1>3, <1>6, <1>12, <2>1, <2>2, <2>3 DEF sys_exit
<1>13. ASSUME NEW p \in {"minus one", "positive"}, NEW o \in 0..1, sys_wait4(p, o) PROVE ProcIInv'
  <2>1. CASE o = 0
    BY <1>2, <1>70, <1>3, <1>4, <1>5, <1>6, <1>13, <2>1 DEF sys_wait4, schedVars, ProcFields
  <2>2. CASE o # 0
    BY <1>7, <1>70, <1>13, <2>2, Zenon DEF sys_wait4
  <2>. QED BY <2>1, <2>2
<1>14. ASSUME NEW w, wait_iteration(w) PROVE ProcIInv'
  <2>1. ASSUME NEW k \in sleepers(w),
               waited' = [waited EXCEPT ![RUNNING] = [code |-> exit_code[list["sleep_list"][k]],
                                                      tid |-> list["sleep_list"][k]]],
               pc' = [pc EXCEPT ![RUNNING] = "user"],
               UNCHANGED <<schedVars, parent, exit_code, g_tid, stopped>>
        PROVE  ProcIInv'
    <3>. DEFINE t == list["sleep_list"][k]
    <3>1. k \in 1..Len(list["sleep_list"]) /\ list["sleep_list"] \in Seq(Task)
      BY <1>2, <1>70, Names DEF sleepers, SchedInv, SchedTypeOK
    <3>2. t \in Task
      BY <3>1
    <3>3. status[t] = "TaskSleeping"
      BY <1>2, <1>70, <3>1, Names DEF StatusMatchesList, status_on
    <3>4. exit_code[t] = 0
      BY <1>2, <1>70, <3>2, <3>3 DEF CodesAreOfTheDead
    <3>. HIDE DEF t
    <3>5. ExitCodeNeverReported'
      BY <1>2, <1>70, <2>1, <3>4 DEF ExitCodeNeverReported, ProcFields, t
    <3>6. [code |-> exit_code[t], tid |-> t] \in [code : ExitCode, tid : 0..MAX_TID]
      BY <1>2, <3>2, <3>4, NextTid
    <3>7. waited' = [waited EXCEPT ![RUNNING] = [code |-> exit_code[t], tid |-> t]]
      BY <2>1 DEF t
    <3>8. waited' \in [Task -> [code : ExitCode, tid : 0..MAX_TID]]
      <4>. DEFINE answer == [code |-> exit_code[t], tid |-> t]
                  Answer == [code : ExitCode, tid : 0..MAX_TID]
      <4>1. waited \in [Task -> Answer] /\ answer \in Answer /\ waited' = [waited EXCEPT ![RUNNING] = answer]
        BY <1>2, <3>6, <3>7 DEF ProcFields
      <4>. HIDE DEF answer, Answer
      <4>2. waited' \in [Task -> Answer]
        BY <4>1
      <4>. QED BY <4>2 DEF Answer
    <3>9. ProcFields'
      BY <1>2, <1>70, <2>1, <3>8 DEF ProcFields
    <3>. QED BY <1>3, <1>4, <1>5, <2>1, <3>5, <3>9 DEF schedVars
  <2>2. ASSUME sleep_on("sleep_list"), UNCHANGED <<pc, parent, exit_code, g_tid, waited, stopped>>
        PROVE  ProcIInv'
    <3>1. StatusMatchesList'
      BY <1>2, <1>70, <2>2, SleepMatches
    <3>. QED BY <1>2, <1>70, <1>3, <1>5, <1>6, <2>2, <3>1 DEF ProcFields
  <2>. QED BY <1>14, <2>1, <2>2 DEF wait_iteration
<1>15. ASSUME ppoll PROVE ProcIInv'
  BY <1>2, <1>70, <1>3, <1>4, <1>5, <1>6, <1>15 DEF ppoll, schedVars, ProcFields
<1>16. ASSUME ppoll_loop PROVE ProcIInv'
  <2>1. StatusMatchesList'
    BY <1>2, <1>70, <1>16, SleepMatches DEF ppoll_loop
  <2>. QED BY <1>2, <1>70, <1>3, <1>5, <1>6, <1>16, <2>1 DEF ppoll_loop, ProcFields
<1>17. CASE UNCHANGED procVars
  BY <1>2, <1>70, <1>3, <1>4, <1>5, <1>6, <1>17 DEF procVars, schedVars, ProcFields
<1>18. ASSUME in_kernel PROVE ProcIInv'
  BY <1>14, <1>16, <1>18 DEF in_kernel, wait_children, wait_for
<1>19. CASE ProcStep
  BY <1>8, <1>9, <1>10, <1>11, <1>12, <1>13, <1>15, <1>18, <1>19 DEF ProcStep
<1>. QED BY <1>17, <1>19 DEF ProcNext, shut_down

\* The invariants hold when the boot task alone exists.
LEMMA ProcInitInv ==
  ASSUME ProcInit
  PROVE  ProcIInv
<1>1. SchedInv
  BY InitInv DEF ProcInit
<1>2. /\ list["running_list"] = <<Boot>>
      /\ \A l \in ListName : l # "running_list" => list[l] = <<>>
      /\ status[Boot] = "TaskRunning"
  BY Names, BootAssumption DEF ProcInit, SchedInit
<1>3. StatusMatchesList
  <2>1. ASSUME NEW l \in ListName, NEW i \in 1..Len(list[l]) PROVE status[list[l][i]] = status_on(l)
    <3>1. CASE l = "running_list"
      <4>1. Len(<<Boot>>) = 1 /\ <<Boot>>[1] = Boot
        OBVIOUS
      <4>2. list[l] = <<Boot>>
        BY <1>2, <3>1
      <4>3. i = 1
        BY <4>1, <4>2
      <4>. QED BY <1>2, <3>1, <4>1, <4>2, <4>3 DEF status_on
    <3>. QED BY <1>2, <3>1
  <2>. QED BY <2>1 DEF StatusMatchesList
<1>4. ProcFields
  <2>1. NotYet \in [code : ExitCode, tid : 0..MAX_TID]
    BY TidAssumption, ExitCodeAssumption DEF NotYet
  <2>2. g_tid \in 2..(MAX_TID + 1)
    BY TidAssumption, BootAssumption DEF ProcInit
  <2>3. /\ parent \in [Task -> 0..MAX_TID] /\ exit_code \in [Task -> ExitCode]
        /\ waited \in [Task -> [code : ExitCode, tid : 0..MAX_TID]]
    BY <2>1, TidAssumption, ExitCodeAssumption DEF ProcInit
  <2>. QED BY <2>2, <2>3 DEF ProcInit, ProcFields, Place, Reason
<1>5. CodesAreOfTheDead /\ ExitCodeNeverReported
  BY DEF ProcInit, CodesAreOfTheDead, ExitCodeNeverReported, NotYet
<1>. QED BY <1>1, <1>3, <1>4, <1>5 DEF ProcIInv, ProcInv, ProcTypeOK, ProcFields, SchedInv

\* In every reachable state of the process layer a task's status, the list it is
\* on and its exit code agree, and so do the scheduler's lists.
THEOREM ProcessInvariant == ProcSpec => [](SchedInv /\ ProcInv)
<1>1. ProcIInv => SchedInv /\ ProcInv
  BY DEF ProcIInv
<1>2. ProcInit => ProcIInv
  BY ProcInitInv
<1>3. ProcIInv /\ [ProcNext]_procVars => ProcIInv'
  BY ProcStepInv
<1>. QED BY <1>1, <1>2, <1>3, PTL DEF ProcSpec

\* No exit code a program passes to exit() reaches a parent through wait4, for
\* any number of tasks and any codes: wait4 scans sleep_list and the dead are on
\* exit_list.  The tests of libc-test expect the opposite (WaitReturnsExitCode).
THEOREM ExitCodesAreLost == ProcSpec => []ExitCodeNeverReported
<1>1. ProcIInv => ExitCodeNeverReported
  BY DEF ProcIInv
<1>2. ProcInit => ProcIInv
  BY ProcInitInv
<1>3. ProcIInv /\ [ProcNext]_procVars => ProcIInv'
  BY ProcStepInv
<1>. QED BY <1>1, <1>2, <1>3, PTL DEF ProcSpec
=============================================================================
