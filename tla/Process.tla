------------------------------ MODULE Process -------------------------------
(***************************************************************************)
(* The process system calls of kernel/src/syscall/sys_proc.rs on top of the  *)
(* task lists: clone, execve, exit and wait4, with ppoll of syscall/mod.rs,  *)
(* the boot task that starts the first program, and the timer.               *)
(*                                                                          *)
(* A system call runs with interrupts off from the trap to the return, so    *)
(* the timer interrupts only user code and the boot task; inside a call the  *)
(* processor changes hands only in scheduler().                              *)
(***************************************************************************)
EXTENDS Scheduler

CONSTANTS MAX_TID,   \* bound: tids handed out
          ExitCode   \* the exit codes programs use

ASSUME TidAssumption == MAX_TID \in Nat /\ Task = 1..MAX_TID /\ Boot = 1
ASSUME ExitCodeAssumption == 0 \in ExitCode

VARIABLES pc,         \* where each task is, or will resume
          parent,     \* Task.parent, 0 for None
          exit_code,  \* Task.exit_code
          g_tid,      \* the next tid generate_tid() hands out
          waited,     \* what the last wait4 of each task returned
          stopped     \* why a system call shut the kernel down, or "none"

procVars == <<schedVars, pc, parent, exit_code, g_tid, waited, stopped>>

\* The result of a task that has not returned from a wait4 yet.
NotYet == [code |-> 0, tid |-> 0]

ProcInit == /\ SchedInit
            /\ pc = [t \in Task |-> IF t = Boot THEN "do_test" ELSE "user"]
            /\ parent = [t \in Task |-> 0]
            /\ exit_code = [t \in Task |-> 0]
            /\ g_tid = Boot + 1
            /\ waited = [t \in Task |-> NotYet]
            /\ stopped = "none"

\* A panic!, todo!() or failed assertion, for the reason why.
stop(why) == /\ stopped' = why
             /\ UNCHANGED <<schedVars, pc, parent, exit_code, g_tid, waited>>

\* The largest usize, which is what wait4(-1) asks wait_for to look for: it
\* is larger than any tid.
usize_max == MAX_TID + 1

in_user == pc[RUNNING] = "user"

-----------------------------------------------------------------------------
\* create_user_task_and_run in do_test: one task, or Err when there is no such file.
create_user_task_and_run ==
  /\ pc[RUNNING] = "do_test"
  /\ pc' = [pc EXCEPT ![RUNNING] = "loop"]
  /\ \/ /\ g_tid \in Task
        /\ add_task(g_tid)
        /\ g_tid' = g_tid + 1
     \/ UNCHANGED <<schedVars, g_tid>>
  /\ UNCHANGED <<parent, exit_code, waited, stopped>>

\* irq_handler on a timer interrupt.
irq_handler ==
  /\ pc[RUNNING] \in {"user", "do_test", "loop"}
  /\ timer_entry
  /\ UNCHANGED <<pc, parent, exit_code, g_tid, waited, stopped>>

\* sys_clone: supported for SIGCHLD alone; every other request panics.
sys_clone(supported) ==
  /\ in_user
  /\ IF supported
     THEN /\ g_tid \in Task
          /\ add_task(g_tid)
          /\ parent' = [parent EXCEPT ![g_tid] = RUNNING]
          /\ g_tid' = g_tid + 1
          /\ UNCHANGED <<pc, exit_code, waited, stopped>>
     ELSE stop("clone flags")

\* sys_execve: the new image comes from a task created for the purpose, whose
\* tid is used up; the caller keeps its own.  It panics when there is no file.
sys_execve(found) ==
  /\ in_user
  /\ IF found
     THEN /\ g_tid \in Task
          /\ g_tid' = g_tid + 1
          /\ UNCHANGED <<schedVars, pc, parent, exit_code, waited, stopped>>
     ELSE stop("execve")

\* Faulty variant: the task is not switched away.
sys_exit_no_switch(code) ==
  /\ in_user
  /\ status' = [status EXCEPT ![RUNNING] = "TaskZombie"]
  /\ exit_code' = [exit_code EXCEPT ![RUNNING] = code]
  /\ UNCHANGED <<list, RUNNING, tic_counter, panic, pc, parent, g_tid, waited, stopped>>

\* sys_exit: exit_self, which does not come back.
sys_exit(code) ==
  /\ in_user
  /\ exit_self
  /\ exit_code' = [exit_code EXCEPT ![RUNNING] = code]
  /\ pc' = [pc EXCEPT ![RUNNING] = "exited"]
  /\ UNCHANGED <<parent, g_tid, waited, stopped>>

\* sys_wait4 up to the loop of wait_children or wait_for.
sys_wait4(pid, option) ==
  /\ in_user
  /\ IF option # 0
     THEN stop("assert option")
     ELSE /\ pc' = [pc EXCEPT ![RUNNING] = IF pid # "minus one" THEN "wait_children"
                                                                ELSE "wait_for"]
          /\ UNCHANGED <<schedVars, parent, exit_code, g_tid, waited, stopped>>

\* Where the scan of sleep_list finds the first of the tasks looked for.
sleepers(wanted) ==
  {k \in 1..Len(list["sleep_list"]) :
     /\ list["sleep_list"][k] \in wanted
     /\ \A j \in 1..(k - 1) : list["sleep_list"][j] \notin wanted}

\* One iteration of the loops of wait_for and wait_children: report the first
\* match on sleep_list, or sleep until somebody exits and scan again.
wait_iteration(wanted) ==
  \/ \E k \in sleepers(wanted) :
       LET t == list["sleep_list"][k]
       IN  /\ waited' = [waited EXCEPT ![RUNNING] = [code |-> exit_code[t], tid |-> t]]
           /\ pc' = [pc EXCEPT ![RUNNING] = "user"]
           /\ UNCHANGED <<schedVars, parent, exit_code, g_tid, stopped>>
  \/ /\ sleepers(wanted) = {}
     /\ sleep_on("sleep_list")
     /\ UNCHANGED <<pc, parent, exit_code, g_tid, waited, stopped>>

wait_children ==
  /\ pc[RUNNING] = "wait_children"
  /\ wait_iteration({t \in Task : parent[t] = RUNNING})

wait_for ==
  /\ pc[RUNNING] = "wait_for"
  /\ wait_iteration({usize_max})

\* SYSCALL_PPOLL: loop { sleep_self_in_sleeping_list(); }.
ppoll == /\ in_user
         /\ pc' = [pc EXCEPT ![RUNNING] = "ppoll"]
         /\ UNCHANGED <<schedVars, parent, exit_code, g_tid, waited, stopped>>

ppoll_loop == /\ pc[RUNNING] = "ppoll"
              /\ sleep_on("sleep_list")
              /\ UNCHANGED <<pc, parent, exit_code, g_tid, waited, stopped>>

\* Code that runs with interrupts off once a call has begun or resumed.
in_kernel == wait_children \/ wait_for \/ ppoll_loop

\* After a panic the machine is shut down.
shut_down == stopped # "none" /\ UNCHANGED procVars

ProcStep ==
  \/ create_user_task_and_run
  \/ irq_handler
  \/ \E s \in BOOLEAN : sys_clone(s)
  \/ \E f \in BOOLEAN : sys_execve(f)
  \/ \E c \in ExitCode : sys_exit(c)
  \/ \E p \in {"minus one", "positive"}, o \in 0..1 : sys_wait4(p, o)
  \/ ppoll
  \/ in_kernel

alive == panic = "none" /\ stopped = "none"

ProcNext == (alive /\ ProcStep) \/ shut_down

ProcSpec == ProcInit /\ [][ProcNext]_procVars

\* A timer interrupt that comes due inside a system call stays pending and is
\* taken on the return to user code, so a task that keeps making calls is
\* interrupted all the same: strong fairness.  Kernel code that has the
\* processor with interrupts off goes on executing.
ProcFairSpec == /\ ProcSpec
                /\ SF_procVars(alive /\ irq_handler)
                /\ WF_procVars(alive /\ in_kernel)

-----------------------------------------------------------------------------
\* Where a task can be, and why a system call can stop the kernel.
Place == {"do_test", "loop", "user", "wait_children", "wait_for", "ppoll", "exited"}

Reason == {"none", "clone flags", "execve", "assert option"}

\* The types of the fields of Task that the process calls use.
ProcTypeOK ==
  /\ SchedTypeOK
  /\ pc \in [Task -> Place]
  /\ parent \in [Task -> 0..MAX_TID]
  /\ exit_code \in [Task -> ExitCode]
  /\ g_tid \in 2..(MAX_TID + 1)
  /\ waited \in [Task -> [code : ExitCode, tid : 0..MAX_TID]]
  /\ stopped \in Reason

\* The status of the tasks on list l.
status_on(l) == CASE l = "running_list" -> "TaskRunning"
                  [] l = "exit_list"    -> "TaskZombie"
                  [] OTHER              -> "TaskSleeping"

\* Between two steps a task's status and the list it is on agree.  scheduler()
\* goes by the status alone and wait4 by the list alone.
StatusMatchesList ==
  \A l \in ListName : \A i \in 1..Len(list[l]) : status[list[l][i]] = status_on(l)

\* Only tasks that exited have an exit code other than the initial one.
CodesAreOfTheDead == \A t \in Task : exit_code[t] # 0 => status[t] = "TaskZombie"

\* Every task's fields have their types, and its status says which list it is
\* on and whether it has an exit code: the scheduler and wait4 never disagree
\* about what a task is doing.
ProcInv == ProcTypeOK /\ StatusMatchesList /\ CodesAreOfTheDead

\* wait4 takes its answer from sleep_list, and a task that exits goes to
\* exit_list: no exit code a program passes to exit() ever reaches a parent.
\* This is what stands between the code and WaitReturnsExitCode.
ExitCodeNeverReported == \A t \in Task : waited[t].code = 0

\* Round robin with system calls that cannot be preempted: every runnable
\* task gets the processor unless the kernel is shut down.
EveryRunnableProcessRuns ==
  \A t \in Task :
    (\E i \in 1..Len(list["running_list"]) : list["running_list"][i] = t)
      ~> (RUNNING = t \/ stopped # "none")

\* A parent that waits while its only child has exited is told so, with the
\* child's tid and exit code (libc-test, vfork.c: TEST(WEXITSTATUS(r) == code)).
WaitReturnsExitCode ==
  \A t, c \in Task :
    (/\ pc[t] = "wait_children"
     /\ {d \in Task : parent[d] = t} = {c}
     /\ status[c] = "TaskZombie")
      ~> \/ stopped # "none"
         \/ pc[t] = "user" /\ waited[t] = [code |-> exit_code[c], tid |-> c]

\* Every step of the process layer is a step of the scheduler's most general
\* client, so what is proved of Scheduler holds of the process layer.
ProcessUsesScheduler == SchedSpec
=============================================================================
