----------------------------- MODULE Scheduler -----------------------------
(***************************************************************************)
(* The tasks of a system that uses the functions of task.h: how they are   *)
(* created, sleep, delete themselves and suspend the scheduler, together   *)
(* with the idle task, the tick and the context switch.                    *)
(*                                                                         *)
(* main() creates the tasks of MainAttrs and calls task_schedule().  From  *)
(* then on the current task takes steps, and SysTick and PendSV may occur  *)
(* between any two of them.  A task function is cut where it leaves or     *)
(* enters an atomic block and where it reads the tick count anew; pc[t]    *)
(* names the next step of t and ret[t] where the function it is in returns *)
(* to.  What a task does between its calls is "user": it may call any      *)
(* function of Api with any of the arguments given by the constants.       *)
(*                                                                         *)
(* The task objects are those of the static build: Task is the set of the  *)
(* indices of task_structures.                                             *)
(***************************************************************************)
EXTENDS Kernel

CONSTANTS
  TASK_MAX_NUM,
  MainAttrs,    \* the attributes of the tasks main() creates, in order
  Api,          \* the calls tasks make
  SleepTicks,   \* arguments of task_sleep
  Intervals,    \* arguments of task_sleep_until
  NewAttrs,     \* attributes of the tasks that tasks create
  MaxNesting    \* bound on nested calls of task_suspend_all

ASSUME TaskAssumption ==
  TASK_MAX_NUM \in Nat /\ Task = 0 .. TASK_MAX_NUM - 1

\* With more tasks the idle task cannot be created and task_schedule returns -1.
ASSUME MainAttrsAssumption ==
  MainAttrs \in Seq(Attribute) /\ Len(MainAttrs) < TASK_MAX_NUM

ASSUME ArgumentsAssumption ==
  /\ SleepTicks \subseteq Tick
  /\ Intervals \subseteq Tick
  /\ NewAttrs \subseteq Attribute
  /\ MaxNesting \in Nat

VARIABLES
  started,              \* task_schedule has started the first task
  pc,
  ret,
  resume_time,          \* the parameter of task_do_sleep
  prev_wake_time,       \* *prev_wake_time of task_sleep_until
  new_task,             \* the local task of task_create
  in_use,               \* task_structures[i].stack # NULL
  task_structures_pos,
  to_delete_task_list

taskVars == <<started, pc, ret, resume_time, prev_wake_time, new_task, in_use,
              task_structures_pos, to_delete_task_list>>
vars == <<kernelVars, taskVars>>

\* task_schedule creates the idle task after those of main().
IdleTask == Len(MainAttrs)

Step == {"unused", "user", "check", "block", "yield", "set_prev_wake",
         "append", "suspended", "deleted", "reap", "poll"}

\* The types of the scheduler's state and of what the tasks hold in their locals.
TypeOK ==
  /\ KernelTypeOK
  /\ started \in BOOLEAN
  /\ pc \in [Task -> Step]
  /\ ret \in [Task -> {"user", "set_prev_wake", "deleted", "reap"}]
  /\ resume_time \in [Task -> Tick]
  /\ prev_wake_time \in [Task -> Tick]
  /\ new_task \in [Task -> Task \union {NoTask}]
  /\ in_use \in [Task -> BOOLEAN]
  /\ task_structures_pos \in 0 .. TASK_MAX_NUM
  /\ to_delete_task_list \in Seq(Task)

Init ==
  /\ KernelInit
  /\ started = FALSE
  /\ pc = [t \in Task |-> "unused"]
  /\ ret = [t \in Task |-> "user"]
  /\ resume_time = [t \in Task |-> 0]
  /\ prev_wake_time = [t \in Task |-> 0]
  /\ new_task = [t \in Task |-> NoTask]
  /\ in_use = [t \in Task |-> FALSE]
  /\ task_structures_pos = 0
  /\ to_delete_task_list = <<>>

-----------------------------------------------------------------------------
(* Task objects *)

\* Mutant of new_slot: a used block is taken when none is free.
NewSlotReused ==
  IF task_structures_pos < TASK_MAX_NUM THEN task_structures_pos ELSE 0

\* What task_new_task_struct returns.
new_slot ==
  LET free == {i \in Task : ~in_use[i]}
  IN  IF task_structures_pos < TASK_MAX_NUM THEN task_structures_pos
      ELSE IF free # {} THEN Min(free)
      ELSE NoTask

\* The first atomic block of task_create, and the attributes, which nobody
\* reads before the task is in a list.
task_new_task_struct(slot, a) ==
  /\ in_use' = [in_use EXCEPT ![slot] = TRUE]
  /\ task_structures_pos' = IF task_structures_pos < TASK_MAX_NUM
                            THEN task_structures_pos + 1 ELSE task_structures_pos
  /\ attr' = [attr EXCEPT ![slot] = a]

-----------------------------------------------------------------------------
(* main(): no interrupt is enabled yet, so that a call is one step *)

\* task_create as main() and task_schedule call it.
create_at_boot(a, entry) ==
  /\ task_new_task_struct(task_structures_pos, a)
  /\ ready' = tasklist_append(ready, a.priority, task_structures_pos)
  /\ kernel_current_task' = IF kernel_current_task = NoTask
                            THEN task_structures_pos ELSE kernel_current_task
  /\ pc' = [pc EXCEPT ![task_structures_pos] = entry]
  /\ UNCHANGED <<kernel_ticks, blocked_curr, blocked_next, ready_switch_next,
                 task_suspended_count, pendsv, ret, resume_time,
                 prev_wake_time, new_task, to_delete_task_list>>

MainCreate ==
  /\ ~started
  /\ task_structures_pos < Len(MainAttrs)
  /\ create_at_boot(MainAttrs[task_structures_pos + 1], "user")
  /\ UNCHANGED started

task_schedule ==
  /\ ~started
  /\ task_structures_pos = Len(MainAttrs)
  /\ create_at_boot([priority |-> TASKPRIO_IDLE, sched_method |-> "RR"], "reap")
  /\ started' = TRUE

-----------------------------------------------------------------------------
(* Steps of the current task *)

AtStep(t, step) ==
  /\ started /\ ~pendsv
  /\ kernel_current_task = t
  /\ pc[t] = step

Goto(t, step) == pc' = [pc EXCEPT ![t] = step]

objectVars == <<in_use, task_structures_pos, to_delete_task_list>>

task_sleep(t, ticks) ==
  /\ "sleep" \in Api
  /\ AtStep(t, "user")
  /\ resume_time' = [resume_time EXCEPT ![t] = (kernel_ticks + ticks - 1) % TickMod]
  /\ ret' = [ret EXCEPT ![t] = "user"]
  /\ Goto(t, "check")
  /\ UNCHANGED <<kernelVars, started, prev_wake_time, new_task, objectVars>>

\* prev = tick_get_current(), in the task itself.
ReadTick(t) ==
  /\ "read_tick" \in Api
  /\ AtStep(t, "user")
  /\ prev_wake_time' = [prev_wake_time EXCEPT ![t] = kernel_ticks]
  /\ UNCHANGED <<kernelVars, started, pc, ret, resume_time, new_task, objectVars>>

task_sleep_until(t, interval) ==
  /\ "sleep_until" \in Api
  /\ AtStep(t, "user")
  /\ resume_time' = [resume_time EXCEPT ![t] =
                       (prev_wake_time[t] + interval - 1) % TickMod]
  /\ ret' = [ret EXCEPT ![t] = "set_prev_wake"]
  /\ Goto(t, "check")
  /\ UNCHANGED <<kernelVars, started, prev_wake_time, new_task, objectVars>>

\* The test of task_do_sleep.
CheckTimeout(t) ==
  /\ AtStep(t, "check")
  /\ Goto(t, IF tick_after(kernel_ticks, resume_time[t]) THEN "yield" ELSE "block")
  /\ UNCHANGED <<kernelVars, started, ret, resume_time, prev_wake_time,
                 new_task, objectVars>>

\* The atomic block of task_do_sleep.
Block(t) ==
  /\ AtStep(t, "block")
  /\ sleep_front(resume_time[t])
  /\ Goto(t, "yield")
  /\ UNCHANGED <<kernel_ticks, kernel_current_task, attr, ready_switch_next,
                 task_suspended_count, pendsv, started, ret, resume_time,
                 prev_wake_time, new_task, objectVars>>

CallYield(t) ==
  /\ "yield" \in Api
  /\ AtStep(t, "user")
  /\ ret' = [ret EXCEPT ![t] = "user"]
  /\ Goto(t, "yield")
  /\ UNCHANGED <<kernelVars, started, resume_time, prev_wake_time, new_task,
                 objectVars>>

\* task_yield(): it is the last call of every function that makes it, but of
\* task_sleep_until.  A resume_time nobody reads any more is kept 0.
Yield(t) ==
  /\ AtStep(t, "yield")
  /\ pendsv' = TRUE
  /\ Goto(t, ret[t])
  /\ resume_time' = [resume_time EXCEPT ![t] = IF ret[t] = "set_prev_wake" THEN @ ELSE 0]
  /\ ret' = [ret EXCEPT ![t] = "user"]
  /\ UNCHANGED <<kernel_ticks, kernel_current_task, attr, ready, blocked_curr,
                 blocked_next, ready_switch_next, task_suspended_count, started,
                 prev_wake_time, new_task, objectVars>>

\* The last statement of task_sleep_until.
SetPrevWake(t) ==
  /\ AtStep(t, "set_prev_wake")
  /\ prev_wake_time' = [prev_wake_time EXCEPT ![t] = resume_time[t]]
  /\ resume_time' = [resume_time EXCEPT ![t] = 0]
  /\ Goto(t, "user")
  /\ UNCHANGED <<kernelVars, started, ret, new_task, objectVars>>

-----------------------------------------------------------------------------

\* Mutant of delete_front: the task is pushed on the list and stays ready.
DeleteKeepsReady ==
  /\ to_delete_task_list' =
       <<tasklist_get_front_task(ready, CurrentPriority)>> \o to_delete_task_list
  /\ UNCHANGED ready

\* The atomic block of task_delete_later.
delete_front ==
  LET front == tasklist_get_front_task(ready, CurrentPriority)
  IN  /\ ready' = tasklist_remove_front(ready, CurrentPriority)
      /\ to_delete_task_list' = IF front = NoTask THEN to_delete_task_list
                                ELSE <<front>> \o to_delete_task_list

\* Called by the task itself, or by task_return_handler when it returns.
task_delete_later(t) ==
  /\ "delete" \in Api
  /\ AtStep(t, "user")
  /\ delete_front
  /\ ret' = [ret EXCEPT ![t] = "deleted"]
  /\ Goto(t, "yield")
  /\ UNCHANGED <<kernel_ticks, kernel_current_task, attr, blocked_curr,
                 blocked_next, ready_switch_next, task_suspended_count, pendsv,
                 started, resume_time, prev_wake_time, new_task, in_use,
                 task_structures_pos>>

\* Without a free task object task_create returns false and changes nothing.
task_create(t, a) ==
  /\ "create" \in Api
  /\ AtStep(t, "user")
  /\ new_slot # NoTask
  /\ task_new_task_struct(new_slot, a)
  /\ new_task' = [new_task EXCEPT ![t] = new_slot]
  /\ Goto(t, "append")
  /\ UNCHANGED <<kernel_ticks, kernel_current_task, ready, blocked_curr,
                 blocked_next, ready_switch_next, task_suspended_count, pendsv,
                 started, ret, resume_time, prev_wake_time,
                 to_delete_task_list>>

\* The second atomic block of task_create.
AppendNewTask(t) ==
  /\ AtStep(t, "append")
  /\ ready' = tasklist_append(ready, attr[new_task[t]].priority, new_task[t])
  /\ pc' = [pc EXCEPT ![t] = "user", ![new_task[t]] = "user"]
  /\ new_task' = [new_task EXCEPT ![t] = NoTask]
  /\ UNCHANGED <<kernel_ticks, kernel_current_task, attr, blocked_curr,
                 blocked_next, ready_switch_next, task_suspended_count, pendsv,
                 started, ret, resume_time, prev_wake_time, objectVars>>

task_suspend_all(t) ==
  /\ "suspend" \in Api
  /\ AtStep(t, "user") \/ AtStep(t, "suspended")
  /\ task_suspended_count < MaxNesting
  /\ task_suspended_count' = task_suspended_count + 1
  /\ Goto(t, "suspended")
  /\ UNCHANGED <<kernel_ticks, kernel_current_task, attr, ready, blocked_curr,
                 blocked_next, ready_switch_next, pendsv, started, ret,
                 resume_time, prev_wake_time, new_task, objectVars>>

\* Between the two a task does not block, yield or delete itself.
task_resume_all(t) ==
  /\ AtStep(t, "suspended")
  /\ task_suspended_count' = task_suspended_count - 1
  /\ Goto(t, IF task_suspended_count = 1 THEN "user" ELSE "suspended")
  /\ UNCHANGED <<kernel_ticks, kernel_current_task, attr, ready, blocked_curr,
                 blocked_next, ready_switch_next, pendsv, started, ret,
                 resume_time, prev_wake_time, new_task, objectVars>>

-----------------------------------------------------------------------------
(* kernel_idle_task *)

\* Its atomic block: the task deleted last gives its stack and object back.
Reap(t) ==
  /\ AtStep(t, "reap")
  /\ IF to_delete_task_list = <<>>
       THEN Goto(t, "poll") /\ UNCHANGED <<in_use, to_delete_task_list>>
       ELSE LET dead == Head(to_delete_task_list)
            IN  /\ in_use' = [in_use EXCEPT ![dead] = FALSE]
                /\ to_delete_task_list' = Tail(to_delete_task_list)
                /\ pc' = [pc EXCEPT ![t] = "poll", ![dead] = "unused"]
  /\ UNCHANGED <<kernelVars, started, ret, resume_time, prev_wake_time,
                 new_task, task_structures_pos>>

Poll(t) ==
  /\ AtStep(t, "poll")
  /\ IF tasklist_get_highest_priority(ready) > TASKPRIO_IDLE
       THEN ret' = [ret EXCEPT ![t] = "reap"] /\ Goto(t, "yield")
       ELSE UNCHANGED ret /\ Goto(t, "reap")
  /\ UNCHANGED <<kernelVars, started, resume_time, prev_wake_time, new_task,
                 objectVars>>

-----------------------------------------------------------------------------

TickInterrupt == started /\ SysTick /\ UNCHANGED taskVars
ContextSwitch == PendSV /\ UNCHANGED taskVars

TaskStep(t) ==
  \/ \E ticks \in SleepTicks : task_sleep(t, ticks)
  \/ \E interval \in Intervals : task_sleep_until(t, interval)
  \/ ReadTick(t)
  \/ CheckTimeout(t) \/ Block(t) \/ CallYield(t) \/ Yield(t) \/ SetPrevWake(t)
  \/ task_delete_later(t)
  \/ \E a \in NewAttrs : task_create(t, a)
  \/ AppendNewTask(t)
  \/ task_suspend_all(t) \/ task_resume_all(t)
  \/ Reap(t) \/ Poll(t)

Next ==
  \/ MainCreate
  \/ task_schedule
  \/ TickInterrupt
  \/ ContextSwitch
  \/ \E t \in Task : TaskStep(t)

Spec == Init /\ [][Next]_vars

-----------------------------------------------------------------------------
(* Safety *)

Places == PlacesOf(ready, blocked_curr, blocked_next, to_delete_task_list)

\* Every created task is in exactly one place and there once; a free task
\* object, and one that task_create has not added yet, is in none.
OnePlace ==
  /\ Injective(Places)
  /\ \A t \in Task : pc[t] # "unused" <=> t \in In(Places)

\* task_do_sleep and task_delete_later remove the front task of the current
\* task's list and mean the current task.  So wherever a task may call them,
\* it must be at the front, whatever the tick has put into that list meanwhile.
CurrentIsFront ==
  kernel_current_task # NoTask /\ ~pendsv /\ pc[kernel_current_task] # "yield"
    => tasklist_get_front_task(ready, CurrentPriority) = kernel_current_task

\* The idle task never leaves its list, so that there is always a highest
\* priority (31 - clz(0) would index kernel_task_list with -1).
IdleReady == started => IdleTask \in ReadyTasks(TASKPRIO_IDLE)

\* A task that has deleted itself never gets the CPU back.
DeletedNeverRuns ==
  ~pendsv => \A t \in Task : pc[t] = "deleted" => kernel_current_task # t

\* The stack that is in use, and the one PendSV saves the registers to, has
\* not been given back to its owner.
StackAlive == started => in_use[kernel_current_task]

\* While the scheduler is suspended the CPU stays with the task that
\* suspended it, ticks or no ticks.
SuspendedNoSwitch ==
  [][task_suspended_count > 0 => kernel_current_task' = kernel_current_task]_vars

=============================================================================
