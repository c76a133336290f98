---------------------------- MODULE SchedulerInv ----------------------------
(***************************************************************************)
(* The inductive invariant of Scheduler.  The safety properties of that    *)
(* module are not inductive on their own: that a task which blocks removes *)
(* itself from its list depends on where the program counters of all the   *)
(* tasks may be, and on what owns the task objects which are in no list.   *)
(* The parts below say that.                                               *)
(***************************************************************************)
EXTENDS Scheduler

\* Before task_schedule starts the first task no task has run.
Boot ==
  /\ ~started => /\ ~pendsv
                 /\ task_suspended_count = 0
                 /\ task_structures_pos <= IdleTask
                 /\ kernel_current_task = NoTask <=> task_structures_pos = 0
                 /\ \A t \in Task : pc[t] \in {"unused", "user"}
  /\ started => /\ task_structures_pos > IdleTask
                /\ kernel_current_task \in Task
                /\ pc[kernel_current_task] # "unused"

\* A task object is in use from the first atomic block of task_create until
\* the idle task has deleted the task.
Slots ==
  /\ \A t \in Task : t >= task_structures_pos => pc[t] = "unused" /\ ~in_use[t]
  /\ \A t \in Task : pc[t] # "unused" => in_use[t]

\* Only the idle task runs kernel_idle_task, and it runs nothing else.
Idle ==
  /\ started => /\ pc[IdleTask] \in {"reap", "poll", "yield"}
                /\ pc[IdleTask] = "yield" => ret[IdleTask] = "reap"
  /\ \A t \in Task : t # IdleTask => pc[t] \notin {"reap", "poll"} /\ ret[t] # "reap"

\* An object task_create has allocated and not yet put into a list is nobody
\* else's.
Allocated ==
  \A t \in Task : pc[t] = "append" =>
    /\ new_task[t] \in Task
    /\ in_use[new_task[t]]
    /\ pc[new_task[t]] = "unused"
    /\ \A u \in Task : pc[u] = "append" /\ new_task[u] = new_task[t] => u = t

\* A task is on its way out of task_delete_later exactly from when it is in the
\* list of the tasks to delete.
Leaving ==
  /\ \A t \in Task : pc[t] \in {"check", "block"} => ret[t] \in {"user", "set_prev_wake"}
  /\ \A t \in Task :
       pc[t] = "deleted" \/ (pc[t] = "yield" /\ ret[t] = "deleted")
         <=> t \in Range(to_delete_task_list)

\* The task that suspended the scheduler has the CPU, and PendSV is not pending.
Suspended ==
  /\ task_suspended_count > 0 =>
       started /\ ~pendsv /\ pc[kernel_current_task] = "suspended"
  /\ \A t \in Task :
       pc[t] = "suspended" => t = kernel_current_task /\ task_suspended_count > 0

\* The properties of Scheduler with what they rest on: it holds when main()
\* starts and every step of the tasks, the tick and the context switch keeps it.
IndInv ==
  /\ TypeOK
  /\ BitmapExact /\ ReadyAtOwnPriority /\ OnePlace
  /\ CurrentIsFront /\ IdleReady /\ DeletedNeverRuns
  /\ Boot /\ Slots /\ Idle /\ Allocated /\ Leaving /\ Suspended

=============================================================================
