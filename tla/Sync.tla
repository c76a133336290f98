-------------------------------- MODULE Sync --------------------------------
(***************************************************************************)
(* What the modules of the synchronisation objects have in common: tasks   *)
(* that have been created and started, the calls of task.h the objects are *)
(* made of, and the rest of the tasks' code.                               *)
(*                                                                         *)
(* The functions called by a task are cut where another context may come   *)
(* in: at every read of shared state, at every atomic block and at the     *)
(* calls that suspend and resume the scheduler.  Inside a window of        *)
(* task_suspend_all no other task runs, but the handlers do.  What the     *)
(* code does to a list in such a window is one step here; AtomicLists says *)
(* what the tick may do to it.                                             *)
(*                                                                         *)
(* pc[t] names the next step of t; "out" is the code of the task that uses *)
(* no object.                                                              *)
(*                                                                         *)
(* What a system does with an object is a record, of which the initial     *)
(* state takes one of Uses: the attributes of the tasks, which of them     *)
(* sleep now and then, and what the modules of the objects add.            *)
(***************************************************************************)
EXTENDS Kernel

CONSTANTS
  Created,   \* the tasks in the order of their creation, the idle task last
  Uses

ASSUME SyncAssumption ==
  /\ Created \in Seq(Task) /\ Range(Created) = Task /\ Len(Created) > 0
  /\ IsInjective(Created)
  /\ \A u \in Uses :
       u.attr \in [Task -> Attribute] /\ u.sleepers \subseteq Task \ {Last(Created)}

VARIABLES
  use,   \* the record of this system; no step changes it
  pc

AttrOf == use.attr

IdleTask == Last(Created)
User == Task \ {IdleTask}

AtStep(t, step) == ~pendsv /\ kernel_current_task = t /\ pc[t] = step
Goto(t, step) == pc' = [pc EXCEPT ![t] = step]

-----------------------------------------------------------------------------

UnchangedLists == UNCHANGED <<kernel_ticks, kernel_current_task, attr, ready,
                              blocked_curr, blocked_next, ready_switch_next>>

UnchangedScheduler == UNCHANGED <<kernel_ticks, kernel_current_task, attr,
                                  blocked_curr, blocked_next, ready_switch_next,
                                  task_suspended_count, pendsv>>

task_suspend_all ==
  /\ task_suspended_count' = task_suspended_count + 1
  /\ UnchangedLists /\ UNCHANGED pendsv

task_resume_all ==
  /\ task_suspended_count' = task_suspended_count - 1
  /\ UnchangedLists /\ UNCHANGED pendsv

task_yield ==
  /\ pendsv' = TRUE
  /\ UnchangedLists /\ UNCHANGED task_suspended_count

\* tasklist_remove_front(task_get_priority(task_get_current())): the task the
\* code takes for the current one is put into a list of the object, which is
\* waiting before and with_front after.
front_task == tasklist_get_front_task(ready, CurrentPriority)

wait_front(waiting, with_front) ==
  /\ ready' = tasklist_remove_front(ready, CurrentPriority)
  /\ waiting' = IF front_task = NoTask THEN waiting ELSE with_front
  /\ UnchangedScheduler

stack_list_push(list, t) == <<t>> \o list

\* Mutant of queue_list_push: the node is put at the other end.
PushedInFront(list, t) == <<t>> \o list

queue_list_push(list, t) == Append(list, t)

\* Mutant of make_ready: the task is taken from its list and put into none.
MakeNothingReady(r, t) == r

\* tasklist_append(task_get_priority(t), t)
make_ready(r, t) == tasklist_append(r, attr[t].priority, t)

\* The same for each task of a list, the front one first.
make_all_ready(r, list) == appended_lists(r, list, attr)[Len(list)]

-----------------------------------------------------------------------------
(* The rest of the system *)

\* task_sleep(1) up to its task_yield, in one step; Scheduler cuts it.
sleep_one_tick(t, at, yield) ==
  /\ AtStep(t, at) /\ t \in use.sleepers
  /\ sleep_front(kernel_ticks)
  /\ Goto(t, yield)
  /\ UNCHANGED <<kernel_ticks, kernel_current_task, attr, ready_switch_next,
                 task_suspended_count, pendsv>>

sleep_yield(t, yield, back) ==
  /\ AtStep(t, yield)
  /\ task_yield
  /\ Goto(t, back)

\* kernel_idle_task yields to a task that is ready.
idle_yield ==
  /\ AtStep(IdleTask, "out")
  /\ tasklist_get_highest_priority(ready) > TASKPRIO_IDLE
  /\ task_yield
  /\ UNCHANGED pc

tick_interrupt == SysTick /\ UNCHANGED pc
context_switch == PendSV /\ UNCHANGED pc

=============================================================================
