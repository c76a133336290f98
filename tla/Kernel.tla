------------------------------- MODULE Kernel -------------------------------
(***************************************************************************)
(* The state of the scheduler (kernel/task.c) and the pieces of it that    *)
(* run with the interrupts masked: the SysTick handler, the PendSV handler *)
(* and the atomic blocks of the task functions.  Each is one step.  The    *)
(* modules that extend this one add the code of the tasks, which may be    *)
(* interrupted between any two of its steps.                               *)
(*                                                                         *)
(* One core: a task runs only when no handler does, and PendSV, once set,  *)
(* is taken before the next instruction of a task.                         *)
(***************************************************************************)
EXTENDS TaskList, SequencesExt

VARIABLES
  kernel_ticks,          \* the tick count
  kernel_current_task,   \* the task that owns the CPU, or NoTask before the first is created
  attr,                  \* attr[t]: the priority and scheduling method of t
  ready,                 \* kernel_task_list and kernel_task_list_bitmap
  blocked_curr,          \* *blocked_task_list_curr_cycle
  blocked_next,          \* *blocked_task_list_next_cycle
  ready_switch_next,     \* blocked_task_list_ready_switch_next_cycle
  task_suspended_count,
  pendsv                 \* the pending bit of PendSV

kernelVars == <<kernel_ticks, kernel_current_task, attr, ready, blocked_curr,
                blocked_next, ready_switch_next, task_suspended_count, pendsv>>

Attribute == [priority : Priority, sched_method : SchedMethod]

\* A node of a blocked list: the task and its resume_time.  The field is
\* written when the task is inserted and read only while it is in the list.
Sleeper == [task : Task, resume_time : Tick]

\* The types of the state of task.c.
KernelTypeOK ==
  /\ kernel_ticks \in Tick
  /\ kernel_current_task \in Task \union {NoTask}
  /\ attr \in [Task -> Attribute]
  /\ ready \in [list : [Priority -> Seq(Task)], bitmap : SUBSET Priority]
  /\ blocked_curr \in Seq(Sleeper)
  /\ blocked_next \in Seq(Sleeper)
  /\ ready_switch_next \in BOOLEAN
  /\ task_suspended_count \in Nat
  /\ pendsv \in BOOLEAN

KernelInit ==
  /\ kernel_ticks = 0
  /\ kernel_current_task = NoTask
  /\ attr = [t \in Task |-> [priority |-> TASKPRIO_IDLE, sched_method |-> "RR"]]
  /\ ready = EmptyReady
  /\ blocked_curr = <<>>
  /\ blocked_next = <<>>
  /\ ready_switch_next = FALSE
  /\ task_suspended_count = 0
  /\ pendsv = FALSE

\* The ready lists r when the first n tasks of a sequence have been appended to
\* those of their priorities, for every n.
appended_lists(r, tasks, a) ==
  LET lists[n \in 0 .. Len(tasks)] ==
        IF n = 0 THEN r
                 ELSE tasklist_append(lists[n - 1], a[tasks[n]].priority, tasks[n])
  IN  lists

\* The state in which the first task starts, when main() and task_schedule have
\* created the tasks of the sequence order with the attributes a.
KernelStarted(order, a) ==
  /\ kernel_ticks = 0
  /\ kernel_current_task = Head(order)
  /\ attr = a
  /\ ready = appended_lists(EmptyReady, order, a)[Len(order)]
  /\ blocked_curr = <<>>
  /\ blocked_next = <<>>
  /\ ready_switch_next = FALSE
  /\ task_suspended_count = 0
  /\ pendsv = FALSE

\* task_get_priority(kernel_current_task)
CurrentPriority == attr[kernel_current_task].priority

-----------------------------------------------------------------------------
(* Blocked lists *)

\* The entries of list a new entry with this resume_time goes in front of.
Later(list, resume_time) ==
  {i \in DOMAIN list : tick_after(list[i].resume_time, resume_time)}

task_insert_blocked_list(list, e) ==
  LET later == Later(list, e.resume_time)
  IN  InsertAt(list, IF later = {} THEN Len(list) + 1 ELSE Min(later), e)

\* resume_time is reached only after the count has wrapped to 0.
next_cycle(resume_time) ==
  resume_time < kernel_ticks /\ ~tick_after(kernel_ticks, resume_time)

\* The atomic block of task_do_sleep: the front task of the current task's
\* list becomes a sleeper.
sleep_front(resume_time) ==
  LET front   == tasklist_get_front_task(ready, CurrentPriority)
      sleeper == [task |-> front, resume_time |-> resume_time]
      Insert(list) == task_insert_blocked_list(list, sleeper)
  IN  /\ ready' = tasklist_remove_front(ready, CurrentPriority)
      /\ blocked_next' = IF front # NoTask /\ next_cycle(resume_time)
                         THEN Insert(blocked_next) ELSE blocked_next
      /\ blocked_curr' = IF front # NoTask /\ ~next_cycle(resume_time)
                         THEN Insert(blocked_curr) ELSE blocked_curr

-----------------------------------------------------------------------------
(* SysTick: task_need_switch, and the pending of PendSV *)

next_tick == (kernel_ticks + 1) % TickMod

\* Mutant of timed_out: a sleeper is woken one tick early.
TimedOutEarly ==
  /\ blocked_curr # <<>>
  /\ tick_after((next_tick + 1) % TickMod, Head(blocked_curr).resume_time)

\* The front sleeper has timed out at the tick that is being counted.
timed_out ==
  /\ blocked_curr # <<>>
  /\ tick_after(next_tick, Head(blocked_curr).resume_time)

\* The current list without the sleeper that is woken at this tick.
still_blocked == IF timed_out THEN Tail(blocked_curr) ELSE blocked_curr

\* Mutant of ready_after_tick: the woken task is put at the wrong priority.
WakeAtIdlePriority ==
  IF timed_out
    THEN tasklist_append(ready, TASKPRIO_IDLE, Head(blocked_curr).task)
    ELSE ready

ready_after_tick ==
  IF timed_out
    THEN tasklist_append(ready, attr[Head(blocked_curr).task].priority,
                         Head(blocked_curr).task)
    ELSE ready

\* Mutant of switch_cycle: the lists are never swapped.
NeverSwitchCycle == FALSE

switch_cycle ==
  (ready_switch_next \/ next_tick = 0) /\ still_blocked = <<>>

\* Mutant of need_switch: the suspension of the scheduler is ignored.
NeedSwitchSuspended ==
  \/ tasklist_get_highest_priority(ready_after_tick) > CurrentPriority
  \/ attr[kernel_current_task].sched_method = "RR"

need_switch ==
  /\ task_suspended_count = 0
  /\ \/ tasklist_get_highest_priority(ready_after_tick) > CurrentPriority
     \/ attr[kernel_current_task].sched_method = "RR"

SysTick ==
  /\ kernel_ticks' = next_tick
  /\ ready' = ready_after_tick
  /\ blocked_curr' = IF switch_cycle THEN blocked_next ELSE still_blocked
  /\ blocked_next' = IF switch_cycle THEN still_blocked ELSE blocked_next
  /\ ready_switch_next' = ((ready_switch_next \/ next_tick = 0) /\ ~switch_cycle)
  /\ pendsv' = (pendsv \/ need_switch)
  /\ UNCHANGED <<kernel_current_task, attr, task_suspended_count>>

-----------------------------------------------------------------------------
(* PendSV: task_switch_next between the saving and the restoring of registers *)

\* Mutant of rotated: the current task stays at the front.
NotRotated == ready

\* The current task moved to the tail of its list, when it is at the front.
rotated ==
  IF tasklist_get_front_task(ready, CurrentPriority) = kernel_current_task
    THEN tasklist_append(tasklist_remove_front(ready, CurrentPriority),
                         CurrentPriority, kernel_current_task)
    ELSE ready

PendSV ==
  /\ pendsv
  /\ ready' = rotated
  /\ kernel_current_task' =
       tasklist_get_front_task(rotated, tasklist_get_highest_priority(rotated))
  /\ pendsv' = FALSE
  /\ UNCHANGED <<kernel_ticks, attr, blocked_curr, blocked_next,
                 ready_switch_next, task_suspended_count>>

-----------------------------------------------------------------------------
(* What the lists must look like between any two steps *)

ReadyTasks(p) == Range(ready.list[p])
SleepersOf(list) == {list[i].task : i \in DOMAIN list}
Sleeping == SleepersOf(blocked_curr) \union SleepersOf(blocked_next)

\* The bit of a priority is 1 exactly when its list is not empty, so that
\* tasklist_get_highest_priority finds the highest list with a task in it.
BitmapExact == ready.bitmap = {p \in Priority : ready.list[p] # <<>>}

\* A task in a ready list has the priority of the list.
ReadyAtOwnPriority ==
  \A p \in Priority : \A t \in ReadyTasks(p) : attr[t].priority = p

\* The lists a task can be in: those of the priorities, numbered as they are,
\* the two blocked lists, and one of a module that extends this one: its tasks to
\* delete, or those that wait for an object.
CURR == 4
NEXT == 5
EXTRA == 6
PlaceName == 0 .. 6

TasksOf(list) == [i \in DOMAIN list |-> list[i].task]

PlacesOf(r, curr, next, other) ==
  [l \in PlaceName |->
     CASE l \in Priority -> r.list[l]
       [] l = CURR -> TasksOf(curr)
       [] l = NEXT -> TasksOf(next)
       [] l = EXTRA -> other]

\* The tasks in the lists F.
In(F) == UNION {Range(F[l]) : l \in PlaceName}

\* No task is in two of the lists F, or twice in one.
Injective(F) ==
  \A l, m \in PlaceName : \A i \in DOMAIN F[l], j \in DOMAIN F[m] :
    F[l][i] = F[m][j] => l = m /\ i = j

=============================================================================
