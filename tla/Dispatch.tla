------------------------------ MODULE Dispatch ------------------------------
(***************************************************************************)
(* How the hart enters and leaves the kernel and passes from task to task:   *)
(* trap_entry, kern_trap_ret and user_trap_ret of trap/trap_asm.s,           *)
(* switch_context of task/switch_context.s, the handlers of trap/mod.rs, and  *)
(* the frames and contexts that create_user_task, create_kern_task, fork and  *)
(* execve make by hand.                                                       *)
(*                                                                           *)
(* A trap clears SIE, so the entry and the handler are one step up to the     *)
(* switch.  What follows is interruptible or not by the sstatus that was      *)
(* loaded, so every CSR the return sequence writes is a step of its own.      *)
(***************************************************************************)
EXTENDS Scheduler

CONSTANT Kern  \* the tasks made by create_kern_task; the others run programs

ASSUME KernAssumption == Kern \subseteq Task \ {Boot}

VARIABLES mode,      \* privilege mode of the hart, "U" or "S"
          pc,        \* what it executes next: <<code, step>>
          sp,        \* the stack that x2 points into
          sscratch,  \* the other stack pointer, or Zero
          sstatus,   \* the bits SIE, SPIE and SPP
          sepc,      \* where sret goes
          frames,    \* the trap frames on each stack, the outermost first
          ctx,       \* Task.context of each task
          held,      \* running_list is locked by its plain lock()
          boot_at,   \* how far the boot task's own code has come
          started,   \* the tasks whose own code has begun to run
          stopped    \* why the kernel panicked, or "none"

hartVars == <<mode, pc, sp, sscratch, sstatus, sepc, frames, ctx>>
dispatchVars == <<schedVars, hartVars, held, boot_at, started, stopped>>

Zero == <<"zero", Boot>>
KStack(t) == <<"kernel", t>>
UStack(t) == <<"user", t>>
Stack == {"kernel", "user"} \X Task

User == Task \ (Kern \cup {Boot})

\* The code of tasks, by the instruction the hart is at: a program, a program
\* about to make a system call, one that skipped an instruction; the function of
\* a kernel task; the boot task before, inside and behind create_..._and_run.
in_program == <<"program", 1>>
at_ecall == <<"program", 0>>
skipped_one == <<"program", 2>>
kern_func == <<"kern_func", 0>>
creating == <<"boot", 0>>
adding(t) == <<"boot add_task", t>>
locked(t) == <<"boot locked", t>>
pushed == <<"boot", 1>>
looping == <<"boot", 2>>

BootCode == {creating, pushed, looping}
            \cup {adding(t) : t \in Task} \cup {locked(t) : t \in Task}

\* Where the own code of task t is, or is to go on, and in which mode.
place(t) == CASE t = Boot    -> boot_at
              [] t \in Kern  -> kern_func
              [] OTHER       -> in_program

home_mode(t) == IF t \in User THEN "U" ELSE "S"

\* The two return sequences; the step says which CSR is written next.
TrapRet == {"kern_trap_ret", "user_trap_ret"}
returning == mode = "S" /\ pc[1] \in TrapRet

bits(sie, spie, spp) == [sie |-> sie, spie |-> spie, spp |-> spp]

DispatchInit ==
  /\ SchedInit
  /\ mode = "S" /\ pc = creating /\ sp = KStack(Boot) /\ sscratch = Zero
  /\ sstatus = bits(TRUE, FALSE, "U")
  /\ sepc = creating
  /\ frames = [s \in Stack |-> <<>>]
  /\ ctx = [t \in Task |-> [ra |-> "kern_trap_ret", sp |-> KStack(t), sscratch |-> Zero,
                            sstatus |-> bits(FALSE, FALSE, "U")]]
  /\ held = FALSE
  /\ boot_at = creating
  /\ started = {Boot}
  /\ stopped = "none"

panicked(why) ==
  /\ stopped' = why
  /\ UNCHANGED <<schedVars, hartVars, held, boot_at, started>>

-----------------------------------------------------------------------------
\* trap_entry: which stack it takes, by what sscratch holds, and what the
\* hardware and the code leave in the CSRs and in the frame.
trap_ret_label == IF sscratch = Zero THEN "kern_trap_ret" ELSE "user_trap_ret"
trap_stack == IF sscratch = Zero THEN sp ELSE sscratch
trap_sstatus == bits(FALSE, sstatus.sie, mode)

trap_frame(at) ==
  [sepc |-> at, x2 |-> trap_stack, sscratch |-> IF sscratch = Zero THEN Zero ELSE sp,
   sstatus |-> trap_sstatus]

with_frame(f) == [frames EXCEPT ![trap_stack] = Append(@, f)]

\* sepc += 4 behind a system call, and execve's sepc -= 4 that undoes it.
plus4(at) == IF at = at_ecall THEN in_program ELSE skipped_one
minus4(at) == IF at = in_program THEN at_ecall ELSE at

\* switch_context inside a handler: the current task's registers are saved, the
\* next one's loaded; it goes on with what is left of its own handler, which
\* ends in its return sequence.
switch_context(cs, n) ==
  /\ ctx' = [cs EXCEPT ![RUNNING] = [ra |-> trap_ret_label, sp |-> trap_stack,
                                     sscratch |-> Zero, sstatus |-> trap_sstatus]]
  /\ pc' = <<cs[n].ra, 1>> /\ sp' = cs[n].sp /\ sscratch' = cs[n].sscratch
  /\ sstatus' = cs[n].sstatus

\* What a handler leaves to the hart: a switch if scheduler() chose another
\* task, the return sequence of its own trap otherwise.
handler_ends(cs) ==
  /\ mode' = "S" /\ sepc' = pc
  /\ IF RUNNING' # RUNNING
     THEN switch_context(cs, RUNNING')
     ELSE /\ ctx' = cs /\ pc' = <<trap_ret_label, 1>>
          /\ sp' = trap_stack /\ sscratch' = Zero /\ sstatus' = trap_sstatus
  /\ UNCHANGED <<held, boot_at, started, stopped>>

-----------------------------------------------------------------------------
\* irq_handler: the timer is taken in user mode and wherever SIE is set.  When
\* the slice is over scheduler() locks running_list, and spins until try_lock
\* panics if the interrupted code is the one that holds it.
irq_handler ==
  /\ mode = "U" \/ sstatus.sie
  /\ IF held /\ tic_counter = TIC_MAX
     THEN panicked("Dead Lock!")
     ELSE /\ timer_entry
          /\ frames' = with_frame(trap_frame(pc))
          /\ handler_ends(ctx)

in_user == mode = "U" /\ pc = in_program

\* A system call that comes back without a switch, and a page fault, whose
\* frame stays as it is (the instruction is repeated).
sys_other ==
  /\ in_user
  /\ UNCHANGED schedVars
  /\ \E f \in {trap_frame(pc), [trap_frame(at_ecall) EXCEPT !.sepc = plus4(at_ecall)]} :
       frames' = with_frame(f)
  /\ handler_ends(ctx)

\* Faulty variant: the child's frame keeps the stack pointer of the parent's.
child_frame_parent_sp(f, c) == [f EXCEPT !.sepc = plus4(@), !.sscratch = UStack(c)]

\* The frame and the context of a child, from the parent's frame and the
\* parent's context as it was saved last.  The address in sscratch is kept: in
\* the child's address space it is the child's own user stack.
child_frame(f, c) == [f EXCEPT !.sepc = plus4(@), !.x2 = KStack(c), !.sscratch = UStack(c)]
child_context(c) == [ctx[RUNNING] EXCEPT !.ra = "user_trap_ret", !.sp = KStack(c)]

sys_clone(c) ==
  /\ in_user /\ c \in User
  /\ add_task(c)
  /\ LET f == trap_frame(at_ecall)
     IN  frames' = [with_frame([f EXCEPT !.sepc = plus4(@)])
                      EXCEPT ![KStack(c)] = <<child_frame(f, c)>>]
  /\ handler_ends([ctx EXCEPT ![c] = child_context(c)])

\* create_user_task: the frame that enters the program, by the sstatus of the
\* code that creates the task, and the context that leads to it.
entry_frame(t, now) ==
  [sepc |-> in_program, x2 |-> KStack(t), sscratch |-> UStack(t),
   sstatus |-> bits(now.sie, TRUE, now.spp)]

entry_context(t) ==
  [ra |-> "user_trap_ret", sp |-> KStack(t), sscratch |-> Zero,
   sstatus |-> bits(TRUE, TRUE, "S")]

\* execve: the frame made for the temporary task tmp becomes the caller's, with
\* the caller's own stack pointer; tmp's program is the caller's from now on.
exec_frame(f, tmp) ==
  [entry_frame(tmp, trap_sstatus) EXCEPT !.x2 = f.x2, !.sepc = plus4(minus4(@)),
                                         !.sscratch = UStack(RUNNING)]

sys_execve(tmp) ==
  /\ in_user /\ tmp \in User /\ status[tmp] = "none"
  /\ UNCHANGED schedVars
  /\ frames' = with_frame(exec_frame(trap_frame(at_ecall), tmp))
  /\ handler_ends(ctx)

sys_exit ==
  /\ in_user
  /\ exit_self
  /\ frames' = with_frame(trap_frame(at_ecall))
  /\ handler_ends(ctx)

\* wait4 and ppoll: the call sleeps, and returns when it is woken.
sys_sleep ==
  /\ in_user
  /\ sleep_on("sleep_list")
  /\ frames' = with_frame([trap_frame(at_ecall) EXCEPT !.sepc = plus4(@)])
  /\ handler_ends(ctx)

-----------------------------------------------------------------------------
top == frames[sp][Len(frames[sp])]

\* The return sequences, one CSR at a time.  Faulty variant: interrupts are
\* back on before the frame is unloaded.
restore_sstatus_early ==
  /\ returning /\ pc[2] = 1
  /\ sstatus' = [top.sstatus EXCEPT !.sie = top.sstatus.spie]
  /\ pc' = <<pc[1], 2>>
  /\ UNCHANGED <<schedVars, mode, sp, sscratch, sepc, frames, ctx, held, boot_at, started, stopped>>

restore_sstatus ==
  /\ returning /\ pc[2] = 1
  /\ sstatus' = top.sstatus
  /\ pc' = <<pc[1], 2>>
  /\ UNCHANGED <<schedVars, mode, sp, sscratch, sepc, frames, ctx, held, boot_at, started, stopped>>

restore_sscratch ==
  /\ returning /\ pc[2] = 2
  /\ sscratch' = top.sscratch
  /\ pc' = <<pc[1], 3>>
  /\ UNCHANGED <<schedVars, mode, sp, sstatus, sepc, frames, ctx, held, boot_at, started, stopped>>

restore_sepc ==
  /\ returning /\ pc[2] = 3
  /\ sepc' = top.sepc
  /\ pc' = <<pc[1], 4>>
  /\ UNCHANGED <<schedVars, mode, sp, sscratch, sstatus, frames, ctx, held, boot_at, started, stopped>>

\* The general registers, x2 among them, the frame given back, the swap that
\* only user_trap_ret makes, and sret.
sret ==
  /\ returning /\ pc[2] = 4
  /\ frames' = [frames EXCEPT ![sp] = SubSeq(@, 1, Len(@) - 1)]
  /\ IF pc[1] = "user_trap_ret"
     THEN sp' = sscratch /\ sscratch' = top.x2
     ELSE sp' = top.x2 /\ sscratch' = sscratch
  /\ mode' = sstatus.spp
  /\ pc' = sepc
  /\ sstatus' = bits(sstatus.spie, TRUE, "U")
  /\ started' = IF pc' = place(RUNNING) /\ mode' = home_mode(RUNNING)
                THEN started \cup {RUNNING} ELSE started
  /\ UNCHANGED <<schedVars, sepc, ctx, held, boot_at, stopped>>

\* User mode at a kernel address: the fetch faults, no mapping is found.
wild_fetch ==
  /\ mode = "U" /\ pc[1] # "program"
  /\ panicked("error address access!")

-----------------------------------------------------------------------------
in_boot(at) == mode = "S" /\ pc = at

boot_goes_to(at) == /\ pc' = at /\ boot_at' = at
                    /\ UNCHANGED <<mode, sp, sscratch, sstatus, sepc>>

\* create_kern_task, in whose frame the code is the task's function.  Its x2 is
\* on the task's stack, one frame below the frame itself, so that the registers
\* behind x2 are loaded from there; the function takes no argument from them.
kern_frame(t, now) ==
  [sepc |-> kern_func, x2 |-> KStack(t), sscratch |-> Zero,
   sstatus |-> bits(now.sie, TRUE, "S")]

kern_context(t) == [entry_context(t) EXCEPT !.ra = "kern_trap_ret"]

\* The boot task makes a task, with interrupts on ...
create_task(t) ==
  /\ in_boot(creating)
  /\ t # Boot /\ status[t] = "none"
  /\ frames' = [frames EXCEPT ![KStack(t)] =
                  <<IF t \in Kern THEN kern_frame(t, sstatus) ELSE entry_frame(t, sstatus)>>]
  /\ ctx' = [ctx EXCEPT ![t] = IF t \in Kern THEN kern_context(t) ELSE entry_context(t)]
  /\ boot_goes_to(adding(t))
  /\ UNCHANGED <<schedVars, held, started, stopped>>

\* ... and add_task locks running_list, pushes and unlocks, with interrupts on.
lock_running_list(t) ==
  /\ in_boot(adding(t))
  /\ held' = TRUE
  /\ boot_goes_to(locked(t))
  /\ UNCHANGED <<schedVars, frames, ctx, started, stopped>>

\* Faulty variant: the new task goes to the front of running_list.
push_front(t) ==
  /\ in_boot(locked(t))
  /\ status[t] = "none"
  /\ status' = [status EXCEPT ![t] = "TaskRunning"]
  /\ list' = [list EXCEPT !["running_list"] = <<t>> \o @]
  /\ boot_goes_to(pushed)
  /\ UNCHANGED <<RUNNING, tic_counter, panic, frames, ctx, held, started, stopped>>

push_back(t) ==
  /\ in_boot(locked(t))
  /\ add_task(t)
  /\ boot_goes_to(pushed)
  /\ UNCHANGED <<frames, ctx, held, started, stopped>>

drop_guard ==
  /\ in_boot(pushed)
  /\ held' = FALSE
  /\ \E at \in {creating, looping} : boot_goes_to(at)
  /\ UNCHANGED <<schedVars, frames, ctx, started, stopped>>

\* After a panic nothing happens any more.
shut_down == stopped # "none" /\ UNCHANGED dispatchVars

DispatchStep ==
  \/ irq_handler
  \/ sys_other \/ sys_exit \/ sys_sleep
  \/ \E t \in Task : sys_clone(t) \/ sys_execve(t)
  \/ restore_sstatus \/ restore_sscratch \/ restore_sepc \/ sret \/ wild_fetch
  \/ \E t \in Task : create_task(t) \/ lock_running_list(t) \/ push_back(t)
  \/ drop_guard

DispatchNext == \/ panic = "none" /\ stopped = "none" /\ DispatchStep
                \/ shut_down

DispatchSpec == DispatchInit /\ [][DispatchNext]_dispatchVars
-----------------------------------------------------------------------------
Bits == [sie : BOOLEAN, spie : BOOLEAN, spp : {"U", "S"}]
Code == BootCode \cup {in_program, at_ecall, skipped_one, kern_func} \cup (TrapRet \X (1..4))
Frame == [sepc : Code, x2 : Stack, sscratch : Stack \cup {Zero}, sstatus : Bits]
Context == [ra : TrapRet, sp : Stack, sscratch : Stack \cup {Zero}, sstatus : Bits]

\* The types of the registers, the frames and the contexts.
DispatchTypeOK ==
  /\ mode \in {"U", "S"} /\ pc \in Code /\ sepc \in Code
  /\ sp \in Stack /\ sscratch \in Stack \cup {Zero}
  /\ sstatus \in Bits
  /\ frames \in [Stack -> Seq(Frame)]
  /\ ctx \in [Task -> Context]
  /\ held \in BOOLEAN /\ boot_at \in BootCode /\ started \subseteq Task
  /\ stopped \in {"none", "Dead Lock!", "error address access!"}

\* The return sequences load x2 from the frame they are reading, and go on with
\* what it says: a frame that a trap saved, or that fork, execve or the creation
\* of a task made, names the stack it lies on.
FramesNameTheirStack ==
  \A s \in Stack : \A i \in 1..Len(frames[s]) : frames[s][i].x2 = s

\* The hart runs on a stack of the task RUNNING names, and a task that is
\* switched to finds its own stack.
StacksAreOwn ==
  /\ sp \in {KStack(RUNNING), UStack(RUNNING)}
  /\ sscratch \in {Zero, KStack(RUNNING), UStack(RUNNING)}
  /\ \A t \in Task : ctx[t].sp \in {KStack(t), UStack(t)} /\ ctx[t].sscratch = Zero
  /\ \A t \in Task : \A s \in {KStack(t), UStack(t)} : \A i \in 1..Len(frames[s]) :
       frames[s][i].sscratch \in {Zero, KStack(t), UStack(t)}

\* running_list is locked exactly while the boot task is inside add_task, and
\* no other task runs meanwhile.
LockedByBootOnly ==
  /\ held <=> boot_at = pushed \/ \E t \in Task : boot_at = locked(t)
  /\ held => RUNNING = Boot

\* The sequence that a trap out of t's own code returns by, and the sscratch
\* that the sequence puts back.
ret_of(t) == IF t \in User THEN "user_trap_ret" ELSE "kern_trap_ret"
scratch_of(t) == IF t \in User THEN UStack(t) ELSE Zero

\* Where a task is: the registers that the hart holds while the task runs, or
\* that switch_context will load; the frames on its two stacks; where its own
\* code is to go on, and whether it has begun.
thread(t) ==
  LET now == t = RUNNING
      c == ctx[t]
  IN  [mode     |-> IF now THEN mode ELSE "S",
       pc       |-> IF now THEN pc ELSE <<c.ra, 1>>,
       sp       |-> IF now THEN sp ELSE c.sp,
       sscratch |-> IF now THEN sscratch ELSE c.sscratch,
       sstatus  |-> IF now THEN sstatus ELSE c.sstatus,
       sepc     |-> sepc,
       kernel   |-> frames[KStack(t)],
       user     |-> frames[UStack(t)],
       place    |-> place(t),
       begun    |-> t \in started]

\* The frame that leads to t's own code.  A task that has begun goes on where it
\* was, with interrupts off until the sret.
OuterFrame(t, w) ==
  LET f == w.kernel[1]
  IN  /\ f.x2 = KStack(t) /\ f.sscratch = scratch_of(t)
      /\ f.sstatus.spp = "U" \/ (t \notin User /\ f.sepc = w.place)
      /\ t \notin User => f.sstatus.spie
      /\ f.sepc = in_program => t \in User
      /\ w.begun => f.sepc = w.place /\ ~f.sstatus.sie /\ f.sstatus.spp = home_mode(t)

\* A frame that interrupted a step of that return: on the kernel stack while
\* sscratch was zero, on the user stack when it had been restored.
InnerFrame(t, f, steps, stack, scratch) ==
  /\ f.x2 = stack /\ f.sscratch = scratch
  /\ f.sstatus = bits(FALSE, TRUE, "S")
  /\ \E i \in steps : f.sepc = <<ret_of(t), i>>

\* In its own code, with empty stacks; a task that has not begun got there in
\* the wrong mode.
InOwnCode(t, w) ==
  /\ w.kernel = <<>> /\ w.user = <<>>
  /\ w.sp = (IF t \in User THEN UStack(t) ELSE KStack(t))
  /\ w.sscratch = (IF t \in User THEN KStack(t) ELSE Zero)
  /\ w.sstatus.spp = "U" /\ (t \notin User => w.sstatus.sie)
  /\ w.pc = in_program => t \in User
  /\ IF w.begun THEN w.pc = w.place /\ w.mode = home_mode(t)
     ELSE w.mode = "U" /\ w.pc # in_program

\* The registers on the way back there, at step i.
HomeRegs(t, w, i) ==
  LET f == w.kernel[1]
  IN  /\ w.pc = <<ret_of(t), i>>
      /\ w.sscratch = (IF i < 3 THEN Zero ELSE scratch_of(t))
      /\ w.begun => ~w.sstatus.sie
      /\ i > 1 => /\ w.sstatus.sie => f.sstatus.sie
                  /\ t \notin User => w.sstatus.spie
                  /\ w.sstatus.spp = f.sstatus.spp \/ (w.sstatus.spp = "U" /\ ~w.begun)
      /\ i = 4 => \/ w.sepc = f.sepc
                  \/ w.sepc = <<ret_of(t), 4>> /\ w.sstatus.spp = "U" /\ ~w.begun

ReturnsHome(t, w) ==
  /\ w.mode = "S" /\ w.sp = KStack(t)
  /\ Len(w.kernel) = 1 /\ w.user = <<>>
  /\ OuterFrame(t, w)
  /\ \E i \in 1..4 : HomeRegs(t, w, i)

\* The registers at step i of the sequence ret that unloads the inner frame f:
\* nothing can interrupt it.
InnerRegs(w, ret, f, i) ==
  /\ w.pc = <<ret, i>>
  /\ w.sscratch = (IF i < 3 THEN Zero ELSE f.sscratch)
  /\ IF i = 1 THEN ~w.sstatus.sie ELSE w.sstatus = f.sstatus
  /\ i = 4 => w.sepc = f.sepc

\* On its way back into a return that was interrupted on the kernel stack ...
ReturnsOnKernelStack(t, w) ==
  /\ ~w.begun /\ w.mode = "S" /\ w.sp = KStack(t)
  /\ Len(w.kernel) = 2 /\ w.user = <<>>
  /\ OuterFrame(t, w)
  /\ InnerFrame(t, w.kernel[2], IF t \in User THEN 1..2 ELSE 1..4, KStack(t), Zero)
  /\ w.kernel[2].sepc = <<ret_of(t), 1>> \/ w.kernel[1].sstatus.sie
  /\ \E i \in 1..4 : InnerRegs(w, "kern_trap_ret", w.kernel[2], i)

\* ... or on the user stack.
ReturnsOnUserStack(t, w) ==
  /\ t \in User /\ ~w.begun /\ w.mode = "S" /\ w.sp = UStack(t)
  /\ Len(w.kernel) = 1 /\ Len(w.user) = 1
  /\ OuterFrame(t, w)
  /\ InnerFrame(t, w.user[1], 3..4, UStack(t), KStack(t))
  /\ w.kernel[1].sstatus.sie
  /\ \E i \in 1..4 : InnerRegs(w, "user_trap_ret", w.user[1], i)

Returns(t, w) == ReturnsHome(t, w) \/ ReturnsOnKernelStack(t, w) \/ ReturnsOnUserStack(t, w)

\* A task that was made by the boot task or by fork, on the lists or not yet.
made(t) == status[t] # "none" \/ boot_at \in {adding(t), locked(t)}

\* Every task that has not exited, current or not, is in one of these places;
\* what is not on the lists has not begun, and nothing is on its user stack.
EveryTaskHasItsPlace ==
  \A t \in Task :
    /\ made(t) /\ status[t] # "TaskZombie" =>
         (t = RUNNING /\ InOwnCode(t, thread(t))) \/ Returns(t, thread(t))
    /\ status[t] = "none" => t \notin started /\ frames[UStack(t)] = <<>>

\* The hart and the saved contexts only ever mix the stacks, frames and locks of
\* one task: whatever traps, switches, forks and execves came before, the frame
\* a return reads and the stack it leaves on are those of the current task.  With
\* the place of every task it is preserved by every step.
DispatchInv == /\ DispatchTypeOK /\ FramesNameTheirStack /\ StacksAreOwn /\ LockedByBootOnly
               /\ EveryTaskHasItsPlace

\* A task that has begun to run is always put back to exactly where a trap took
\* it from: same instruction (behind the ecall of a system call, at the entry
\* after execve), same mode, same stacks, with the timer able to interrupt it.
StartedTasksResumeInPlace ==
  RUNNING \in started /\ ~returning =>
    /\ pc = place(RUNNING) /\ mode = home_mode(RUNNING)
    /\ IF RUNNING \in User
       THEN sp = UStack(RUNNING) /\ sscratch = KStack(RUNNING) /\ frames[KStack(RUNNING)] = <<>>
       ELSE sp = KStack(RUNNING) /\ sscratch = Zero /\ sstatus.sie

\* The panic of try_lock (sync/mod.rs: panic!("Dead Lock!")) is not reached.
NeverDeadLocks == stopped # "Dead Lock!"

\* Every step of the hart is a step of the scheduler's most general client.
DispatchUsesScheduler == SchedSpec
=============================================================================
