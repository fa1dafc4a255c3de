--------------------------- MODULE DispatchProofs ---------------------------
(***************************************************************************)
(* Proofs about the trap entry, the return sequences and the context switch: *)
(* at the level of single CSR writes the task lists are still changed only   *)
(* in the ways of Scheduler's most general client.                           *)
(***************************************************************************)
EXTENDS Dispatch, SchedulerProofs

\* Every step of the hart is a step of the scheduler, or none.
LEMMA HartStepIsSchedStep ==
  ASSUME [DispatchNext]_dispatchVars
  PROVE  [SchedNext]_schedVars
<1>1. ASSUME panic = "none", irq_handler PROVE [SchedNext]_schedVars
  BY <1>1 DEF irq_handler, panicked, SchedNext
<1>2. ASSUME sys_other PROVE UNCHANGED schedVars
  BY <1>2 DEF sys_other
<1>3. ASSUME panic = "none", sys_exit PROVE [SchedNext]_schedVars
  BY <1>3 DEF sys_exit, SchedNext
<1>4. ASSUME panic = "none", sys_sleep PROVE [SchedNext]_schedVars
  BY <1>4 DEF sys_sleep, SchedNext
<1>5. ASSUME panic = "none", NEW t \in Task, sys_clone(t) PROVE [SchedNext]_schedVars
  BY <1>5 DEF sys_clone, SchedNext
<1>6. ASSUME NEW t \in Task, sys_execve(t) PROVE UNCHANGED schedVars
  BY <1>6 DEF sys_execve
<1>7. ASSUME restore_sstatus \/ restore_sscratch \/ restore_sepc \/ sret \/ wild_fetch
      PROVE  UNCHANGED schedVars
  BY <1>7 DEF restore_sstatus, restore_sscratch, restore_sepc, sret, wild_fetch, panicked
<1>8. ASSUME NEW t \in Task, create_task(t) \/ lock_running_list(t) PROVE UNCHANGED schedVars
  BY <1>8 DEF create_task, lock_running_list
<1>9. ASSUME panic = "none", NEW t \in Task, push_back(t) PROVE [SchedNext]_schedVars
  BY <1>9 DEF push_back, SchedNext
<1>10. ASSUME drop_guard PROVE UNCHANGED schedVars
  BY <1>10 DEF drop_guard
<1>11. CASE UNCHANGED dispatchVars \/ shut_down
  BY <1>11 DEF dispatchVars, shut_down
<1>12. CASE panic = "none" /\ DispatchStep
  BY <1>12, <1>1, <1>2, <1>3, <1>4, <1>5, <1>6, <1>7, <1>8, <1>9, <1>10 DEF DispatchStep
<1>. QED BY <1>11, <1>12 DEF DispatchNext

\* Traps, interrupts inside return sequences, and the boot task's add_task with
\* interrupts on implement the scheduler's specification.
THEOREM DispatchImplementsScheduler == DispatchSpec => DispatchUsesScheduler
<1>1. DispatchInit => SchedInit
  BY DEF DispatchInit
<1>2. [DispatchNext]_dispatchVars => [SchedNext]_schedVars
  BY HartStepIsSchedStep
<1>. QED BY <1>1, <1>2, PTL DEF DispatchSpec, DispatchUsesScheduler, SchedSpec

\* Whatever the timer interrupts, the task lists stay consistent: the current task
\* is the front of running_list, no task is lost or on two lists, and the idle
\* branch is not reached.
THEOREM DispatchKeepsTheLists == DispatchSpec => []SchedInv
  BY DispatchImplementsScheduler, SchedulerInvariant, PTL DEF DispatchUsesScheduler
=============================================================================
