----------------------------- MODULE Scheduler ------------------------------
(***************************************************************************)
(* The task lists and the round-robin scheduler of kernel/src/task/mod.rs,  *)
(* driven by the most general client: the current task may at any moment    *)
(* create a task, go to sleep, exit, wake a wait list or be interrupted by   *)
(* the timer.  Every list of tasks is an element of the function "list":     *)
(* the three static lists and the wait lists that Pipe hands to scheduler(). *)
(*                                                                          *)
(* System calls and the timer handler run with interrupts off, so each is    *)
(* one step; a kernel task runs with interrupts on, so the two statements    *)
(* of its sleep_wait_read are two steps, mark_sleeping and call_scheduler.   *)
(***************************************************************************)
EXTENDS Naturals, Sequences

CONSTANTS Task,      \* the tasks there can be
          Boot,      \* the boot task, which ends in start_kernel's loop {}
          WaitList,  \* the names of the wait lists of the pipes
          TIC_MAX    \* timer.rs, 10 in the code

StaticList == {"running_list", "sleep_list", "exit_list"}

ASSUME BootAssumption == Boot \in Task
ASSUME WaitListAssumption == WaitList \cap StaticList = {}
ASSUME TicAssumption == TIC_MAX \in Nat

ListName == StaticList \cup WaitList

VARIABLES list,         \* the tasks on each list, front first
          status,       \* Task.status; "none" before the task is created
          RUNNING,      \* task.rs RUNNING, the current task
          tic_counter,  \* timer.rs tic_counter
          panic         \* why the kernel stopped, or "none"

schedVars == <<list, status, RUNNING, tic_counter, panic>>

TaskStatus == {"none", "TaskRunning", "TaskSleeping", "TaskZombie"}

SchedInit == /\ list = [l \in ListName |-> IF l = "running_list" THEN <<Boot>> ELSE <<>>]
             /\ status = [t \in Task |-> IF t = Boot THEN "TaskRunning" ELSE "none"]
             /\ RUNNING = Boot
             /\ tic_counter = 0
             /\ panic = "none"

-----------------------------------------------------------------------------
\* Faulty variant: a zombie is queued to run again.
destination_zombie_runs(st, assign) ==
  IF st[RUNNING] = "TaskSleeping" THEN assign ELSE "running_list"

\* Where scheduler(sleep_list_assign) puts the current task, by its status.
\* assign is "sleep_list" when the code passes None.
destination(st, assign) ==
  CASE st[RUNNING] = "TaskRunning"  -> "running_list"
    [] st[RUNNING] = "TaskSleeping" -> assign
    [] OTHER                        -> "exit_list"

\* Faulty variants: the current task is dropped, or pushed to the front.
requeued_nowhere(ls, st, assign) == [ls EXCEPT !["running_list"] = Tail(@)]

requeued_in_front(ls, st, assign) ==
  IF destination(st, assign) = "running_list" THEN ls
  ELSE [ls EXCEPT !["running_list"] = Tail(@),
                  ![destination(st, assign)] = Append(@, RUNNING)]

\* The lists once the current task is popped from the front and pushed there.
requeued(ls, st, assign) ==
  LET popped == [ls EXCEPT !["running_list"] = Tail(@)]
  IN  [popped EXCEPT ![destination(st, assign)] = Append(@, RUNNING)]

\* scheduler(), called when the lists are ls and the statuses st: with another
\* task to run it switches; otherwise it returns to a runnable caller and
\* panics (its assertion, its unimplemented idle) in every other case.
scheduler(ls, st, assign) ==
  LET n == Len(ls["running_list"])
  IN  /\ status' = st
      /\ list' = IF n > 1 THEN requeued(ls, st, assign) ELSE ls
      /\ RUNNING' = IF n > 1 THEN Head(list'["running_list"]) ELSE RUNNING
      /\ panic' = IF n = 0 THEN "assert_ne rs.len()"
                  ELSE IF n = 1 /\ st[RUNNING] # "TaskRunning" THEN "todo idle"
                  ELSE panic

reversed(s) == [k \in 1..Len(s) |-> s[Len(s) + 1 - k]]

\* The lists after wake_up_all_sleeping(), which pops from the back ...
all_woken == [list EXCEPT !["running_list"] = @ \o reversed(list["sleep_list"]),
                          !["sleep_list"] = <<>>]

\* Faulty variant: the woken tasks stay marked as sleeping.
all_woken_still_sleeping(st) == st

\* ... and makes every task it moves runnable.
all_woken_status(st) ==
  [t \in Task |-> IF \E k \in 1..Len(list["sleep_list"]) : list["sleep_list"][k] = t
                  THEN "TaskRunning" ELSE st[t]]

\* The lists after the first n tasks of wait list w were moved by add_task.
some_woken(w, n) ==
  [list EXCEPT !["running_list"] = @ \o SubSeq(list[w], 1, n),
               ![w] = SubSeq(@, n + 1, Len(@))]

-----------------------------------------------------------------------------
\* add_task of a new task: create_kern_task_and_run, create_user_task_and_run, sys_clone.
add_task(t) ==
  /\ status[t] = "none"
  /\ status' = [status EXCEPT ![t] = "TaskRunning"]
  /\ list' = [list EXCEPT !["running_list"] = Append(@, t)]
  /\ UNCHANGED <<RUNNING, tic_counter, panic>>

\* timer_entry: every TIC_MAX + 1 ticks the current task is preempted.
timer_entry ==
  IF tic_counter = TIC_MAX
  THEN /\ tic_counter' = 0
       /\ scheduler(list, status, "sleep_list")
  ELSE /\ tic_counter' = tic_counter + 1
       /\ UNCHANGED <<list, status, RUNNING, panic>>

\* exit_self: become a zombie, wake everything in sleep_list, switch away.
exit_self ==
  /\ RUNNING # Boot
  /\ scheduler(all_woken,
               all_woken_status([status EXCEPT ![RUNNING] = "TaskZombie"]),
               "sleep_list")
  /\ UNCHANGED tic_counter

\* sleep_self_in_sleeping_list, sleep_wait_read, sleep_wait_write with interrupts off.
sleep_on(assign) ==
  /\ RUNNING # Boot
  /\ scheduler(list, [status EXCEPT ![RUNNING] = "TaskSleeping"], assign)
  /\ UNCHANGED tic_counter

\* The two halves of the same functions in a task that runs with interrupts on.
mark_sleeping ==
  /\ RUNNING # Boot
  /\ status' = [status EXCEPT ![RUNNING] = "TaskSleeping"]
  /\ UNCHANGED <<list, RUNNING, tic_counter, panic>>

call_scheduler(assign) ==
  /\ scheduler(list, status, assign)
  /\ UNCHANGED tic_counter

\* wake_up_read, wake_up_write: n of the tasks waiting on w become runnable.
\* Their status is not touched: they keep TaskSleeping.
wake_up(w, n) ==
  /\ n \in 1..Len(list[w])
  /\ list' = some_woken(w, n)
  /\ UNCHANGED <<status, RUNNING, tic_counter, panic>>

SchedNext ==
  /\ panic = "none"
  /\ \/ \E t \in Task : add_task(t)
     \/ timer_entry
     \/ exit_self
     \/ \E a \in {"sleep_list"} \cup WaitList : sleep_on(a)
     \/ mark_sleeping
     \/ \E a \in {"sleep_list"} \cup WaitList : call_scheduler(a)
     \/ \E w \in WaitList : \E n \in 1..Len(list[w]) : wake_up(w, n)

SchedSpec == SchedInit /\ [][SchedNext]_schedVars

-----------------------------------------------------------------------------
\* The types of the statics and of the fields of Task.
SchedTypeOK ==
  /\ list \in [ListName -> Seq(Task)]
  /\ status \in [Task -> TaskStatus]
  /\ RUNNING \in Task
  /\ tic_counter \in 0..TIC_MAX
  /\ panic \in {"none", "assert_ne rs.len()", "todo idle"}

\* scheduler() pops the front of running_list believing it is the current
\* task, and re-queues the task RUNNING names: the two are always the same.
RunningIsFront ==
  /\ Len(list["running_list"]) > 0
  /\ RUNNING = Head(list["running_list"])

\* No task is ever on two lists, or twice on one: no wake-up, exit or
\* preemption duplicates a task (it would run on one kernel stack twice).
OnOneListOnly ==
  \A l1, l2 \in ListName :
    \A i \in 1..Len(list[l1]) : \A j \in 1..Len(list[l2]) :
      list[l1][i] = list[l2][j] => l1 = l2 /\ i = j

\* No task is lost: every task that was created is on some list.
NeverLost ==
  \A t \in Task : status[t] # "none" =>
    \E l \in ListName : \E i \in 1..Len(list[l]) : list[l][i] = t

\* The unimplemented idle branch of scheduler (todo!()) and its assertion on
\* the length of running_list are never reached, because the boot task never
\* sleeps or exits and so is always runnable.
IdleNeverReached == panic = "none"

\* A task that exited never runs again and stays on exit_list for ever (so
\* the assert!(false) after exit_self() in sys_exit is never reached).
ZombieStaysDead ==
  [][\A t \in Task : status[t] = "TaskZombie" =>
        status'[t] = "TaskZombie" /\ RUNNING' # t]_schedVars

\* Task t is on list l; it is on one of the lists.
At(ls, l, t) == \E i \in 1..Len(ls[l]) : ls[l][i] = t

On(ls, t) == \E l \in ListName : \E i \in 1..Len(ls[l]) : ls[l][i] = t

BootRunnable == status[Boot] = "TaskRunning" /\ At(list, "running_list", Boot)

ListedAreCreated == \A t \in Task : On(list, t) <=> status[t] # "none"

ZombiesOnExitList ==
  \A t \in Task : status[t] = "TaskZombie" => At(list, "exit_list", t)

\* What every operation on the lists preserves: the current task is the front of
\* running_list, each created task is on exactly one list and no other is on
\* any, the boot task is runnable (so that idle is not reached), and zombies
\* are on exit_list (so that nothing moves them again).
SchedInv == /\ SchedTypeOK /\ RunningIsFront /\ OnOneListOnly /\ IdleNeverReached
            /\ BootRunnable /\ ListedAreCreated /\ ZombiesOnExitList
=============================================================================
