-------------------------- MODULE SchedulerProofs --------------------------
(***************************************************************************)
(* The safety properties of Scheduler, for every number of tasks, every    *)
(* width of the tick count and every program of the tasks: IndInv is an    *)
(* invariant, and the properties follow from it.  One lemma for each       *)
(* action, or for the actions that only move a task to its next step.      *)
(*                                                                         *)
(* No task is back early from a sleep, either: TimeInd ties the            *)
(* resume_time of a sleeper, a value of a count that wraps, to the number  *)
(* of ticks it still has to sleep.  The premise is the one the comparison  *)
(* of tick counts needs: no sleep is longer than half the range of them.   *)
(*                                                                         *)
(* Nor are two sleepers late by more than the longest sleep: LateInd says  *)
(* how late each one in the queue of the sleepers may be when it is woken, *)
(* and why nobody is inserted in front of one that had to wait.            *)
(***************************************************************************)
EXTENDS SleepTiming, SchedulerInv, KernelProofs

-----------------------------------------------------------------------------
(* Consequences of the invariant that the steps share *)

\* There is room for the idle task, as main() creates fewer than TASK_MAX_NUM.
LEMMA IdleIsTask == IdleTask \in Task /\ IdleTask \in Nat
BY MainAttrsAssumption, TaskAssumption, LenProperties DEF IdleTask

\* Task objects are named by their indices, and NULL is none of them.
LEMMA TaskIsNat == Task \subseteq Nat /\ NoTask \notin Task
BY TaskAssumption, NoTaskAssumption

\* The invariant in terms of the lists.
LEMMA ListFacts ==
  ASSUME TypeOK, BitmapExact, OnePlace
  PROVE  /\ ready \in ReadyType /\ Exact(ready)
         /\ blocked_curr \in Seq(Sleeper) /\ blocked_next \in Seq(Sleeper)
         /\ to_delete_task_list \in Seq(Task)
         /\ Places \in PlacesType /\ Injective(Places)
         /\ \A p \in Priority : p \in PlaceName /\ Places[p] = ready.list[p]
         /\ EXTRA \in PlaceName /\ Places[EXTRA] = to_delete_task_list
         /\ \A t \in Task : pc[t] # "unused" <=> t \in In(Places)
<1>1. /\ ready \in ReadyType /\ Exact(ready)
      /\ blocked_curr \in Seq(Sleeper) /\ blocked_next \in Seq(Sleeper)
      /\ to_delete_task_list \in Seq(Task)
  BY DEF TypeOK, KernelTypeOK, BitmapExact, ReadyType, Exact
<1>2. Injective(Places) /\ \A t \in Task : pc[t] # "unused" <=> t \in In(Places)
  BY DEF OnePlace
<1>3. IsPlaces(Places, ready, blocked_curr, blocked_next, to_delete_task_list)
  BY <1>1, PlacesOfType DEF Places
<1> QED BY <1>1, <1>2, <1>3 DEF IsPlaces

\* A step of the current task that changes no list, no task object and nothing
\* of the kernel's.
PcStep(t, from, to) ==
  /\ AtStep(t, from)
  /\ from \notin {"unused", "append", "yield", "suspended", "deleted"}
  /\ to \in Step \ {"unused", "append", "suspended", "deleted"}
  /\ pc' = [pc EXCEPT ![t] = to]
  /\ ret' \in [Task -> {"user", "set_prev_wake", "deleted", "reap"}]
  /\ \A u \in Task \ {t} : ret'[u] = ret[u]
  /\ to \in {"check", "block"} => ret'[t] \in {"user", "set_prev_wake"}
  /\ to = "yield" => ret'[t] # "deleted"
  /\ t = IdleTask => to \in {"reap", "poll", "yield"} /\ (to = "yield" => ret'[t] = "reap")
  /\ t # IdleTask => to \notin {"reap", "poll"} /\ ret'[t] # "reap"
  /\ resume_time' \in [Task -> Tick]
  /\ prev_wake_time' \in [Task -> Tick]
  /\ UNCHANGED <<kernelVars, started, new_task, objectVars>>

\* A step of the current task that changes only its own locals and pc keeps the
\* invariant (PcStep says between which steps).
LEMMA PcStepInv ==
  ASSUME IndInv, NEW t \in Task, NEW from, NEW to, PcStep(t, from, to)
  PROVE  IndInv'
<1>1. /\ pc \in [Task -> Step] /\ pc[t] = from /\ kernel_current_task = t /\ started /\ ~pendsv
      /\ pc' \in [Task -> Step] /\ pc'[t] = to
      /\ \A u \in Task \ {t} : pc'[u] = pc[u]
  BY DEF IndInv, TypeOK, PcStep, AtStep
<1>2. /\ UNCHANGED kernelVars
      /\ started' = started /\ new_task' = new_task /\ in_use' = in_use
      /\ task_structures_pos' = task_structures_pos
      /\ to_delete_task_list' = to_delete_task_list
  BY DEF PcStep, objectVars
<1>3. TypeOK'
  BY <1>1, <1>2 DEF IndInv, TypeOK, KernelTypeOK, PcStep, kernelVars
<1>4. BitmapExact' /\ ReadyAtOwnPriority' /\ IdleReady'
  BY <1>2 DEF IndInv, BitmapExact, ReadyAtOwnPriority, IdleReady, ReadyTasks, kernelVars
<1>5. OnePlace'
  <2>1. Places' = Places
    BY <1>2 DEF Places, kernelVars
  <2>2. \A u \in Task : pc'[u] # "unused" <=> pc[u] # "unused"
    BY <1>1 DEF PcStep
  <2> QED BY <2>1, <2>2 DEF IndInv, OnePlace
<1>6. CurrentIsFront'
  BY <1>1, <1>2 DEF IndInv, CurrentIsFront, PcStep, kernelVars, CurrentPriority
<1>7. DeletedNeverRuns'
  BY <1>1, <1>2 DEF IndInv, DeletedNeverRuns, PcStep, kernelVars
<1>8. Boot'
  BY <1>1, <1>2 DEF IndInv, Boot, PcStep, kernelVars
<1>9. Slots'
  BY <1>1, <1>2 DEF IndInv, Slots, PcStep
<1>10. Idle'
  BY <1>1, <1>2, IdleIsTask DEF IndInv, Idle, PcStep
<1>11. Allocated'
  <2>1. \A u \in Task : (pc'[u] = "append" <=> pc[u] = "append")
                        /\ (pc'[u] = "unused" <=> pc[u] = "unused")
    BY <1>1 DEF PcStep
  <2> QED BY <1>2, <2>1 DEF IndInv, Allocated
<1>12. Leaving'
  <2>1. \A u \in Task \ {t} : pc'[u] = pc[u] /\ ret'[u] = ret[u]
    BY <1>1 DEF PcStep
  <2>2. t \notin Range(to_delete_task_list)
    BY <1>1 DEF IndInv, Leaving, PcStep
  <2>3. /\ to \in {"check", "block"} => ret'[t] \in {"user", "set_prev_wake"}
        /\ ~(to = "deleted" \/ (to = "yield" /\ ret'[t] = "deleted"))
    BY DEF PcStep
  <2> QED BY <1>1, <1>2, <2>1, <2>2, <2>3 DEF IndInv, Leaving
<1>13. Suspended'
  <2>1. task_suspended_count = 0
    BY <1>1 DEF IndInv, TypeOK, KernelTypeOK, Suspended, PcStep
  <2>2. \A u \in Task : pc'[u] = "suspended" => pc[u] = "suspended"
    BY <1>1 DEF PcStep
  <2> QED BY <1>2, <2>1, <2>2 DEF IndInv, Suspended, kernelVars
<1> QED BY <1>3, <1>4, <1>5, <1>6, <1>7, <1>8, <1>9, <1>10, <1>11, <1>12, <1>13 DEF IndInv

\* What AtStep says of a task in a state of the invariant.
LEMMA AtStepFacts ==
  ASSUME IndInv, NEW t \in Task, NEW step, AtStep(t, step)
  PROVE  /\ started /\ ~pendsv /\ kernel_current_task = t /\ pc[t] = step
         /\ pc \in [Task -> Step] /\ ret \in [Task -> {"user", "set_prev_wake", "deleted", "reap"}]
         /\ step \notin {"reap", "poll", "yield"} => t # IdleTask
         /\ step \in {"reap", "poll"} => t = IdleTask
         /\ step # "suspended" => task_suspended_count = 0
<1>1. started /\ ~pendsv /\ kernel_current_task = t /\ pc[t] = step
  BY DEF AtStep
<1>2. pc \in [Task -> Step] /\ ret \in [Task -> {"user", "set_prev_wake", "deleted", "reap"}]
      /\ task_suspended_count \in Nat
  BY DEF IndInv, TypeOK, KernelTypeOK
<1>3. (step \notin {"reap", "poll", "yield"} => t # IdleTask)
      /\ (step \in {"reap", "poll"} => t = IdleTask)
  BY <1>1, IdleIsTask DEF IndInv, Idle
<1>4. step # "suspended" => task_suspended_count = 0
  BY <1>1, <1>2 DEF IndInv, Suspended
<1> QED BY <1>1, <1>2, <1>3, <1>4

\* The steps of task_sleep, task_sleep_until and the idle loop that touch no list
\* keep the invariant.
LEMMA ControlStepInv ==
  ASSUME IndInv, NEW t \in Task,
         \/ \E ticks \in SleepTicks : task_sleep(t, ticks)
         \/ \E interval \in Intervals : task_sleep_until(t, interval)
         \/ ReadTick(t) \/ CheckTimeout(t) \/ CallYield(t) \/ SetPrevWake(t) \/ Poll(t)
  PROVE  IndInv'
<1>1. /\ resume_time \in [Task -> Tick] /\ prev_wake_time \in [Task -> Tick]
      /\ kernel_ticks \in Tick /\ Tick \subseteq Int /\ 0 \in Tick
  BY TickModAssumption DEF IndInv, TypeOK, KernelTypeOK, Tick
<1>2. ASSUME NEW ticks \in SleepTicks, task_sleep(t, ticks) PROVE IndInv'
  <2>1. AtStep(t, "user")
    BY <1>2 DEF task_sleep
  <2>2. (kernel_ticks + ticks - 1) % TickMod \in Tick
    BY <1>1, ArgumentsAssumption, ModTick
  <2>3. resume_time' \in [Task -> Tick] /\ prev_wake_time' \in [Task -> Tick]
    BY <1>1, <1>2, <2>2 DEF task_sleep
  <2>4. PcStep(t, "user", "check")
    BY <1>2, <2>1, <2>3, AtStepFacts DEF task_sleep, Goto, PcStep, Step, objectVars
  <2> QED BY <2>4, PcStepInv
<1>3. ASSUME NEW interval \in Intervals, task_sleep_until(t, interval) PROVE IndInv'
  <2>1. AtStep(t, "user")
    BY <1>3 DEF task_sleep_until
  <2>2. (prev_wake_time[t] + interval - 1) % TickMod \in Tick
    <3>1. prev_wake_time[t] \in Int /\ interval \in Int
      BY <1>1, ArgumentsAssumption
    <3> QED BY <3>1, ModTick
  <2>3. resume_time' \in [Task -> Tick] /\ prev_wake_time' \in [Task -> Tick]
    BY <1>1, <1>3, <2>2 DEF task_sleep_until
  <2>4. PcStep(t, "user", "check")
    BY <1>3, <2>1, <2>3, AtStepFacts DEF task_sleep_until, Goto, PcStep, Step, objectVars
  <2> QED BY <2>4, PcStepInv
<1>4. ASSUME ReadTick(t) PROVE IndInv'
  <2>1. AtStep(t, "user")
    BY <1>4 DEF ReadTick
  <2>2. resume_time' \in [Task -> Tick] /\ prev_wake_time' \in [Task -> Tick]
    BY <1>1, <1>4 DEF ReadTick
  <2>3. pc' = [pc EXCEPT ![t] = "user"]
    BY <1>4, <2>1, AtStepFacts DEF ReadTick
  <2>4. t # IdleTask => ret[t] # "reap"
    BY DEF IndInv, Idle
  <2>5. PcStep(t, "user", "user")
    BY <1>4, <2>1, <2>2, <2>3, <2>4, AtStepFacts DEF ReadTick, PcStep, Step, objectVars
  <2> QED BY <2>5, PcStepInv
<1>5. ASSUME CheckTimeout(t) PROVE IndInv'
  <2> DEFINE to == IF tick_after(kernel_ticks, resume_time[t]) THEN "yield" ELSE "block"
  <2>1. AtStep(t, "check") /\ to \in {"yield", "block"} /\ pc' = [pc EXCEPT ![t] = to]
    BY <1>5 DEF CheckTimeout, Goto
  <2> HIDE DEF to
  <2>2. ret[t] \in {"user", "set_prev_wake"}
    BY <2>1, AtStepFacts DEF IndInv, Leaving
  <2>3. PcStep(t, "check", to)
    BY <1>1, <1>5, <2>1, <2>2, AtStepFacts DEF CheckTimeout, PcStep, Step, objectVars
  <2> QED BY <2>3, PcStepInv
<1>6. ASSUME CallYield(t) PROVE IndInv'
  <2>1. AtStep(t, "user")
    BY <1>6 DEF CallYield
  <2>2. PcStep(t, "user", "yield")
    BY <1>1, <1>6, <2>1, AtStepFacts DEF CallYield, Goto, PcStep, Step, objectVars
  <2> QED BY <2>2, PcStepInv
<1>7. ASSUME SetPrevWake(t) PROVE IndInv'
  <2>1. AtStep(t, "set_prev_wake")
    BY <1>7 DEF SetPrevWake
  <2>2. resume_time' \in [Task -> Tick] /\ prev_wake_time' \in [Task -> Tick]
    BY <1>1, <1>7 DEF SetPrevWake
  <2>3. t # IdleTask => ret[t] # "reap"
    BY DEF IndInv, Idle
  <2>4. PcStep(t, "set_prev_wake", "user")
    BY <1>7, <2>1, <2>2, <2>3, AtStepFacts DEF SetPrevWake, Goto, PcStep, Step, objectVars
  <2> QED BY <2>4, PcStepInv
<1>8. ASSUME Poll(t) PROVE IndInv'
  <2>1. AtStep(t, "poll")
    BY <1>8 DEF Poll
  <2>2. \/ ret' = [ret EXCEPT ![t] = "reap"] /\ pc' = [pc EXCEPT ![t] = "yield"]
        \/ ret' = ret /\ pc' = [pc EXCEPT ![t] = "reap"]
    BY <1>8 DEF Poll, Goto
  <2>3. PcStep(t, "poll", "yield") \/ PcStep(t, "poll", "reap")
    BY <1>1, <1>8, <2>1, <2>2, AtStepFacts DEF Poll, PcStep, Step, objectVars
  <2> QED BY <2>3, PcStepInv
<1> QED BY <1>2, <1>3, <1>4, <1>5, <1>6, <1>7, <1>8

\* task_yield keeps the invariant: it makes PendSV pending.
LEMMA YieldInv ==
  ASSUME IndInv, NEW t \in Task, Yield(t)
  PROVE  IndInv'
<1>1. /\ started /\ ~pendsv /\ kernel_current_task = t /\ pc[t] = "yield"
      /\ pc \in [Task -> Step] /\ ret \in [Task -> {"user", "set_prev_wake", "deleted", "reap"}]
      /\ task_suspended_count = 0
  BY AtStepFacts DEF Yield
<1>2. /\ pc' \in [Task -> Step] /\ pc'[t] = ret[t] /\ ret' \in [Task -> {"user", "set_prev_wake", "deleted", "reap"}]
      /\ ret'[t] = "user" /\ pendsv' = TRUE
      /\ \A u \in Task \ {t} : pc'[u] = pc[u] /\ ret'[u] = ret[u]
  BY <1>1 DEF Yield, Goto, Step
<1>3. /\ kernel_ticks' = kernel_ticks /\ kernel_current_task' = kernel_current_task
      /\ attr' = attr /\ ready' = ready /\ blocked_curr' = blocked_curr
      /\ blocked_next' = blocked_next /\ ready_switch_next' = ready_switch_next
      /\ task_suspended_count' = task_suspended_count
      /\ started' = started /\ new_task' = new_task /\ in_use' = in_use
      /\ prev_wake_time' = prev_wake_time
      /\ task_structures_pos' = task_structures_pos
      /\ to_delete_task_list' = to_delete_task_list
  BY DEF Yield, objectVars
<1>4. TypeOK'
  <2>1. resume_time \in [Task -> Tick] /\ 0 \in Tick
    BY TickModAssumption DEF IndInv, TypeOK, Tick
  <2>2. resume_time' \in [Task -> Tick]
    BY <2>1 DEF Yield
  <2> QED BY <1>2, <1>3, <2>2 DEF IndInv, TypeOK, KernelTypeOK
<1>5. BitmapExact' /\ ReadyAtOwnPriority' /\ IdleReady'
  BY <1>3 DEF IndInv, BitmapExact, ReadyAtOwnPriority, IdleReady, ReadyTasks
<1>6. OnePlace'
  <2>1. Places' = Places
    BY <1>3 DEF Places
  <2>2. \A u \in Task : pc'[u] # "unused" <=> pc[u] # "unused"
    BY <1>1, <1>2
  <2> QED BY <2>1, <2>2 DEF IndInv, OnePlace
<1>7. CurrentIsFront' /\ DeletedNeverRuns'
  BY <1>2 DEF CurrentIsFront, DeletedNeverRuns
<1>8. Boot' /\ Slots'
  BY <1>1, <1>2, <1>3 DEF IndInv, Boot, Slots
<1>9. Idle'
  BY <1>1, <1>2, <1>3, IdleIsTask DEF IndInv, Idle
<1>10. Allocated'
  <2>1. \A u \in Task : (pc'[u] = "append" <=> pc[u] = "append")
                        /\ (pc'[u] = "unused" <=> pc[u] = "unused")
    BY <1>1, <1>2
  <2> QED BY <1>3, <2>1 DEF IndInv, Allocated
<1>11. Leaving'
  <2>1. \A u \in Task \ {t} : pc'[u] = pc[u] /\ ret'[u] = ret[u]
    BY <1>2
  <2>2. pc'[t] = "deleted" <=> t \in Range(to_delete_task_list)
    BY <1>1, <1>2 DEF IndInv, Leaving
  <2>3. pc'[t] \notin {"check", "block", "yield"}
    BY <1>1, <1>2
  <2> QED BY <1>3, <2>1, <2>2, <2>3 DEF IndInv, Leaving
<1>12. Suspended'
  <2>1. \A u \in Task : pc'[u] = "suspended" => pc[u] = "suspended"
    BY <1>1, <1>2
  <2> QED BY <1>1, <1>3, <2>1 DEF IndInv, Suspended
<1> QED BY <1>4, <1>5, <1>6, <1>7, <1>8, <1>9, <1>10, <1>11, <1>12 DEF IndInv

\* task_suspend_all and task_resume_all keep the invariant.
LEMMA SuspendInv ==
  ASSUME IndInv, NEW t \in Task, task_suspend_all(t) \/ task_resume_all(t)
  PROVE  IndInv'
<1> DEFINE to == IF task_suspended_count' = 0 THEN "user" ELSE "suspended"
<1>1. /\ started /\ ~pendsv /\ kernel_current_task = t /\ pc[t] \in {"user", "suspended"}
      /\ pc \in [Task -> Step] /\ t # IdleTask
  BY AtStepFacts DEF task_suspend_all, task_resume_all
<1>2. task_suspended_count \in Nat /\ (pc[t] = "suspended" => task_suspended_count > 0)
  BY DEF IndInv, TypeOK, KernelTypeOK, Suspended
<1>3. task_suspended_count' \in Nat /\ pc' = [pc EXCEPT ![t] = to]
  <2>1. CASE task_suspend_all(t)
    <3>1. task_suspended_count' = task_suspended_count + 1
      BY <2>1 DEF task_suspend_all
    <3>2. task_suspended_count' \in Nat /\ to = "suspended"
      BY <1>2, <3>1
    <3> QED BY <2>1, <3>2 DEF task_suspend_all, Goto
  <2>2. CASE task_resume_all(t)
    <3>1. pc[t] = "suspended"
      BY <2>2, AtStepFacts DEF task_resume_all
    <3> QED BY <1>2, <2>2, <3>1 DEF task_resume_all, Goto
  <2> QED BY <2>1, <2>2
<1>4. pc' \in [Task -> Step] /\ pc'[t] = to /\ \A u \in Task \ {t} : pc'[u] = pc[u]
  BY <1>1, <1>3 DEF Step
<1>5. /\ kernel_ticks' = kernel_ticks /\ kernel_current_task' = kernel_current_task
      /\ attr' = attr /\ ready' = ready /\ blocked_curr' = blocked_curr
      /\ blocked_next' = blocked_next /\ ready_switch_next' = ready_switch_next
      /\ pendsv' = pendsv /\ ret' = ret /\ resume_time' = resume_time
      /\ started' = started /\ new_task' = new_task /\ in_use' = in_use
      /\ prev_wake_time' = prev_wake_time
      /\ task_structures_pos' = task_structures_pos
      /\ to_delete_task_list' = to_delete_task_list
  BY DEF task_suspend_all, task_resume_all, objectVars
<1>6. to \in {"user", "suspended"} /\ (to = "suspended" <=> task_suspended_count' > 0)
  BY <1>3
<1> HIDE DEF to
<1>7. TypeOK'
  BY <1>3, <1>4, <1>5 DEF IndInv, TypeOK, KernelTypeOK
<1>8. BitmapExact' /\ ReadyAtOwnPriority' /\ IdleReady'
  BY <1>5 DEF IndInv, BitmapExact, ReadyAtOwnPriority, IdleReady, ReadyTasks
<1>9. OnePlace'
  <2>1. Places' = Places
    BY <1>5 DEF Places
  <2>2. \A u \in Task : pc'[u] # "unused" <=> pc[u] # "unused"
    BY <1>1, <1>4, <1>6
  <2> QED BY <2>1, <2>2 DEF IndInv, OnePlace
<1>10. CurrentIsFront'
  BY <1>1, <1>5 DEF IndInv, CurrentIsFront, CurrentPriority
<1>11. DeletedNeverRuns'
  BY <1>1, <1>4, <1>5, <1>6 DEF IndInv, DeletedNeverRuns
<1>12. Boot' /\ Slots'
  BY <1>1, <1>4, <1>5, <1>6 DEF IndInv, Boot, Slots
<1>13. Idle'
  BY <1>1, <1>4, <1>5, <1>6, IdleIsTask DEF IndInv, Idle
<1>14. Allocated'
  <2>1. \A u \in Task : (pc'[u] = "append" <=> pc[u] = "append")
                        /\ (pc'[u] = "unused" <=> pc[u] = "unused")
    BY <1>1, <1>4, <1>6
  <2> QED BY <1>5, <2>1 DEF IndInv, Allocated
<1>15. Leaving'
  BY <1>1, <1>4, <1>5, <1>6 DEF IndInv, Leaving
<1>16. Suspended'
  <2>1. \A u \in Task : pc'[u] = "suspended" => u = t
    BY <1>1, <1>4 DEF IndInv, Suspended
  <2> QED BY <1>1, <1>4, <1>5, <1>6, <2>1 DEF Suspended
<1> QED BY <1>7, <1>8, <1>9, <1>10, <1>11, <1>12, <1>13, <1>14, <1>15, <1>16 DEF IndInv

-----------------------------------------------------------------------------
(* The steps that move a task from a list to another *)

\* The task that calls is at the front of its list; it is not the idle task,
\* which is in the same list behind it or in another.
LEMMA FrontFacts ==
  ASSUME IndInv, NEW t \in Task, NEW step, AtStep(t, step), step # "yield"
  PROVE  /\ CurrentPriority = attr[t].priority /\ CurrentPriority \in Priority
         /\ ready.list[CurrentPriority] # <<>>
         /\ tasklist_get_front_task(ready, CurrentPriority) = t
         /\ Head(ready.list[CurrentPriority]) = t
<1>1. started /\ ~pendsv /\ kernel_current_task = t /\ pc[t] = step
  BY DEF AtStep
<1>2. CurrentPriority = attr[t].priority /\ CurrentPriority \in Priority
  BY <1>1 DEF CurrentPriority, IndInv, TypeOK, KernelTypeOK, Attribute
<1>3. tasklist_get_front_task(ready, CurrentPriority) = t
  BY <1>1, TaskIsNat DEF IndInv, CurrentIsFront
<1>4. ready.list[CurrentPriority] # <<>> /\ Head(ready.list[CurrentPriority]) = t
  BY <1>3, TaskIsNat DEF tasklist_get_front_task
<1> QED BY <1>2, <1>3, <1>4

\* The elements of a list after a push.
LEMMA PushRange ==
  ASSUME NEW list \in Seq(Task), NEW x \in Task
  PROVE  <<x>> \o list \in Seq(Task) /\ Range(<<x>> \o list) = Range(list) \union {x}
<1> DEFINE new == <<x>> \o list
<1>1. /\ new \in Seq(Task) /\ Len(list) \in Nat
      /\ DOMAIN list = 1 .. Len(list) /\ DOMAIN new = 1 .. Len(list) + 1
      /\ \A k \in 1 .. Len(list) + 1 : new[k] = IF k = 1 THEN x ELSE list[k - 1]
  BY DEF new
<1> HIDE DEF new
<1>2. \A k \in DOMAIN new : k = 1 \/ k - 1 \in DOMAIN list
  BY <1>1
<1>3. \A k \in DOMAIN list : k + 1 \in DOMAIN new /\ new[k + 1] = list[k]
  BY <1>1
<1>4. 1 \in DOMAIN new /\ new[1] = x
  BY <1>1
<1>5. Range(new) = Range(list) \union {x}
  BY <1>1, <1>2, <1>3, <1>4 DEF Range
<1> QED BY <1>1, <1>5 DEF new

\* The elements of a list are its front and those behind it.
LEMMA TailRange ==
  ASSUME NEW S, NEW list \in Seq(S), list # <<>>
  PROVE  /\ Tail(list) \in Seq(S) /\ Head(list) \in S
         /\ Head(list) \in Range(list)
         /\ Range(Tail(list)) \subseteq Range(list)
         /\ \A u \in Range(list) : u # Head(list) => u \in Range(Tail(list))
<1>1. /\ Len(list) \in Nat /\ DOMAIN list = 1 .. Len(list)
      /\ Head(list) = list[1]
      /\ DOMAIN Tail(list) = 1 .. Len(list) - 1
      /\ \A i \in 1 .. Len(list) - 1 : Tail(list)[i] = list[i + 1]
  OBVIOUS
<1>2. ASSUME NEW u \in Range(Tail(list)) PROVE u \in Range(list)
  <2>1. PICK i \in 1 .. Len(list) - 1 : u = Tail(list)[i]
    BY <1>1 DEF Range
  <2>2. i + 1 \in 1 .. Len(list) /\ u = list[i + 1]
    BY <1>1, <2>1
  <2> QED BY <1>1, <2>2 DEF Range
<1>3. ASSUME NEW u \in Range(list), u # Head(list) PROVE u \in Range(Tail(list))
  <2>1. PICK i \in 1 .. Len(list) : u = list[i]
    BY <1>1 DEF Range
  <2>2. i - 1 \in 1 .. Len(list) - 1 /\ (i - 1) + 1 = i
    BY <1>1, <1>3, <2>1
  <2>3. u = Tail(list)[i - 1]
    BY <1>1, <2>1, <2>2
  <2> QED BY <1>1, <2>2, <2>3 DEF Range
<1>4. /\ Tail(list) \in Seq(S) /\ Head(list) \in S
      /\ 1 \in DOMAIN list
  OBVIOUS
<1>5. Head(list) \in Range(list)
  BY <1>1, <1>4 DEF Range
<1> QED BY <1>2, <1>3, <1>4, <1>5

\* After its front task has been removed from a ready list every other task of
\* the ready lists is still in its list.
LEMMA RemoveReadyTasks ==
  ASSUME NEW r \in ReadyType, NEW p \in Priority, Exact(r), r.list[p] # <<>>,
         NEW s, s = tasklist_remove_front(r, p)
  PROVE  \A q \in Priority :
           /\ Range(s.list[q]) \subseteq Range(r.list[q])
           /\ \A u \in Range(r.list[q]) : u # Head(r.list[p]) => u \in Range(s.list[q])
<1>1. s.list[p] = Tail(r.list[p]) /\ \A q \in Priority \ {p} : s.list[q] = r.list[q]
  BY RemoveReady
<1>2. r.list[p] \in Seq(Task)
  BY DEF ReadyType
<1>3. ASSUME NEW list \in Seq(Task), list # <<>>
      PROVE  /\ Range(Tail(list)) \subseteq Range(list)
             /\ \A u \in Range(list) : u # Head(list) => u \in Range(Tail(list))
  BY <1>3, TailRange
<1>4. ASSUME NEW q \in Priority
      PROVE  /\ Range(s.list[q]) \subseteq Range(r.list[q])
             /\ \A u \in Range(r.list[q]) : u # Head(r.list[p]) => u \in Range(s.list[q])
  <2>1. CASE q = p
    BY <1>1, <1>2, <1>3, <2>1
  <2>2. CASE q # p
    BY <1>1, <2>2
  <2> QED BY <2>1, <2>2
<1> QED BY <1>4

\* A task at the end of a ready list: it is in that list, the others are
\* where they were.
Appended(s, r, p, t) ==
  /\ Range(s.list[p]) = Range(r.list[p]) \union {t}
  /\ \A q \in Priority : Range(r.list[q]) \subseteq Range(s.list[q])
  /\ \A q \in Priority \ {p} : Range(s.list[q]) = Range(r.list[q])
  /\ \A q \in Priority : r.list[q] # <<>> =>
       s.list[q] # <<>> /\ Head(s.list[q]) = Head(r.list[q])

\* The tasks of the ready lists after tasklist_append.
LEMMA AppendReadyTasks ==
  ASSUME NEW r \in ReadyType, NEW p \in Priority, NEW t \in Task, Exact(r),
         NEW s, s = tasklist_append(r, p, t)
  PROVE  Appended(s, r, p, t)
<1>1. s.list[p] = Append(r.list[p], t) /\ \A q \in Priority \ {p} : s.list[q] = r.list[q]
  BY AppendReady
<1>2. r.list[p] \in Seq(Task)
  BY DEF ReadyType
<1> DEFINE list == r.list[p]
<1>3. Range(Append(list, t)) = Range(list) \union {t}
  <2>1. /\ Len(list) \in Nat /\ DOMAIN list = 1 .. Len(list)
        /\ DOMAIN Append(list, t) = 1 .. Len(list) + 1
        /\ \A i \in 1 .. Len(list) : Append(list, t)[i] = list[i]
        /\ Append(list, t)[Len(list) + 1] = t
    BY <1>2
  <2> DEFINE new == Append(list, t)
  <2> HIDE DEF list, new
  <2>2. Len(list) + 1 \in DOMAIN new /\ \A i \in DOMAIN list : i \in DOMAIN new
    BY <2>1 DEF new
  <2>3. \A i \in DOMAIN new : i = Len(list) + 1 \/ i \in DOMAIN list
    BY <2>1 DEF new
  <2>4. \A i \in DOMAIN list : new[i] = list[i]
    BY <2>1 DEF new
  <2>5. new[Len(list) + 1] = t
    BY <2>1 DEF new
  <2>6. Range(new) = Range(list) \union {t}
    BY <2>2, <2>3, <2>4, <2>5 DEF Range
  <2> QED BY <2>6 DEF new
<1>4. list # <<>> => Append(list, t) # <<>> /\ Head(Append(list, t)) = Head(list)
  BY <1>2
<1> QED BY <1>1, <1>3, <1>4 DEF Appended

\* The current task leaves its ready list for one of the other lists.
LEMMA LeaveReadyInv ==
  ASSUME IndInv, NEW t \in Task, NEW step, AtStep(t, step), step \in {"user", "block"},
         ready' = tasklist_remove_front(ready, CurrentPriority),
         pc' = [pc EXCEPT ![t] = "yield"],
         UNCHANGED <<kernel_ticks, kernel_current_task, attr, ready_switch_next,
                     task_suspended_count, pendsv, started, resume_time,
                     prev_wake_time, new_task, in_use, task_structures_pos>>,
         ret' \in [Task -> {"user", "set_prev_wake", "deleted"}
                            \union {"reap"}],
         ret'[t] # "reap", \A u \in Task \ {t} : ret'[u] = ret[u],
         blocked_curr' \in Seq(Sleeper), blocked_next' \in Seq(Sleeper),
         to_delete_task_list' \in Seq(Task),
         Injective(Places'), In(Places') = In(Places),
         \A u \in Task : u \in Range(to_delete_task_list') <=>
           u \in Range(to_delete_task_list) \/ (u = t /\ ret'[t] = "deleted")
  PROVE  IndInv'
<1>1. /\ started /\ ~pendsv /\ kernel_current_task = t /\ pc[t] = step
      /\ pc \in [Task -> Step] /\ t # IdleTask /\ task_suspended_count = 0
  BY AtStepFacts
<1>2. pc' \in [Task -> Step] /\ pc'[t] = "yield" /\ \A u \in Task \ {t} : pc'[u] = pc[u]
  BY <1>1 DEF Step
<1>3. ready \in ReadyType /\ Exact(ready)
  BY ListFacts DEF IndInv
<1>4. /\ CurrentPriority \in Priority /\ ready.list[CurrentPriority] # <<>>
      /\ Head(ready.list[CurrentPriority]) = t
  BY FrontFacts
<1>5. ready' \in ReadyType /\ Exact(ready')
  BY <1>3, <1>4, RemoveReady
<1>6. \A q \in Priority :
        /\ Range(ready'.list[q]) \subseteq Range(ready.list[q])
        /\ \A u \in Range(ready.list[q]) : u # t => u \in Range(ready'.list[q])
  BY <1>3, <1>4, RemoveReadyTasks
<1>7. TypeOK'
  BY <1>1, <1>2, <1>5 DEF IndInv, TypeOK, KernelTypeOK, ReadyType
<1>8. BitmapExact'
  BY <1>5 DEF BitmapExact, Exact
<1>9. ReadyAtOwnPriority'
  BY <1>6 DEF IndInv, ReadyAtOwnPriority, ReadyTasks
<1>10. IdleReady'
  <2>1. TASKPRIO_IDLE \in Priority
    BY DEF TASKPRIO_IDLE, Priority
  <2> QED BY <1>1, <1>6, <2>1 DEF IndInv, IdleReady, ReadyTasks
<1>11. OnePlace'
  <2>1. \A u \in Task : pc'[u] # "unused" <=> pc[u] # "unused"
    BY <1>1, <1>2
  <2> QED BY <2>1 DEF IndInv, OnePlace
<1>12. CurrentIsFront'
  BY <1>1, <1>2 DEF CurrentIsFront
<1>13. DeletedNeverRuns'
  BY <1>1, <1>2 DEF IndInv, DeletedNeverRuns
<1>14. Boot' /\ Slots'
  BY <1>1, <1>2 DEF IndInv, Boot, Slots
<1>15. Idle'
  BY <1>1, <1>2, IdleIsTask DEF IndInv, Idle
<1>16. Allocated'
  <2>1. \A u \in Task : (pc'[u] = "append" <=> pc[u] = "append")
                        /\ (pc'[u] = "unused" <=> pc[u] = "unused")
    BY <1>1, <1>2
  <2> QED BY <2>1 DEF IndInv, Allocated
<1>17. Leaving'
  <2>1. t \notin Range(to_delete_task_list)
    BY <1>1 DEF IndInv, Leaving
  <2>2. t \in Range(to_delete_task_list') <=> ret'[t] = "deleted"
    BY <2>1
  <2>3. \A u \in Task \ {t} : u \in Range(to_delete_task_list') <=> u \in Range(to_delete_task_list)
    OBVIOUS
  <2> QED BY <1>2, <2>2, <2>3 DEF IndInv, Leaving
<1>18. Suspended'
  <2>1. \A u \in Task : pc'[u] = "suspended" => pc[u] = "suspended"
    BY <1>1, <1>2
  <2> QED BY <1>1, <2>1 DEF IndInv, Suspended
<1> QED BY <1>7, <1>8, <1>9, <1>10, <1>11, <1>12, <1>13, <1>14, <1>15, <1>16, <1>17,
           <1>18 DEF IndInv

\* The atomic block of task_do_sleep keeps the invariant: the task it moves to a
\* blocked list is the caller.
LEMMA BlockInv ==
  ASSUME IndInv, NEW t \in Task, Block(t)
  PROVE  IndInv'
<1>1. AtStep(t, "block") /\ sleep_front(resume_time[t])
  BY DEF Block
<1> DEFINE e == [task |-> t, resume_time |-> resume_time[t]]
           r == tasklist_remove_front(ready, CurrentPriority)
           F == PlacesOf(r, blocked_curr, blocked_next, to_delete_task_list)
<1>2. /\ ready \in ReadyType /\ Exact(ready)
      /\ blocked_curr \in Seq(Sleeper) /\ blocked_next \in Seq(Sleeper)
      /\ to_delete_task_list \in Seq(Task)
      /\ Injective(Places)
  BY ListFacts DEF IndInv
<1>3. /\ CurrentPriority \in Priority /\ ready.list[CurrentPriority] # <<>>
      /\ Head(ready.list[CurrentPriority]) = t
      /\ tasklist_get_front_task(ready, CurrentPriority) = t /\ t # NoTask
  BY <1>1, FrontFacts, TaskIsNat
<1>4. e \in Sleeper
  BY DEF IndInv, TypeOK, Sleeper
<1>5. /\ ready' = r
      /\ \/ /\ blocked_curr' = task_insert_blocked_list(blocked_curr, e)
            /\ blocked_next' = blocked_next
         \/ /\ blocked_curr' = blocked_curr
            /\ blocked_next' = task_insert_blocked_list(blocked_next, e)
  BY <1>1, <1>3 DEF sleep_front
<1>6. r \in ReadyType
  BY <1>2, <1>3, RemoveReady
<1>7. Injective(F) /\ In(F) = In(Places) \ {t}
  BY <1>2, <1>3, UnreadyPlace DEF Places
<1>8. t \in In(Places)
  BY <1>1, AtStepFacts DEF IndInv, OnePlace
<1>9. Places' = PlacesOf(ready', blocked_curr', blocked_next', to_delete_task_list)
  BY DEF Places, Block, objectVars
<1>10. e.task = t
  OBVIOUS
<1> HIDE DEF r, e, F
<1>11. /\ blocked_curr' \in Seq(Sleeper) /\ blocked_next' \in Seq(Sleeper)
       /\ Injective(Places') /\ In(Places') = In(Places)
  <2>1. CASE /\ blocked_curr' = task_insert_blocked_list(blocked_curr, e)
             /\ blocked_next' = blocked_next
    <3>1. Places' = PlacesOf(r, task_insert_blocked_list(blocked_curr, e), blocked_next,
                             to_delete_task_list)
      BY <1>5, <1>9, <2>1
    <3>2. Injective(Places') /\ In(Places') = In(F) \union {t}
      BY <1>2, <1>4, <1>6, <1>7, <1>10, <3>1, SleepCurrPlace DEF F
    <3> QED BY <1>2, <1>4, <1>7, <1>8, <2>1, <3>2, InsertBlocked
  <2>2. CASE /\ blocked_curr' = blocked_curr
             /\ blocked_next' = task_insert_blocked_list(blocked_next, e)
    <3>1. Places' = PlacesOf(r, blocked_curr, task_insert_blocked_list(blocked_next, e),
                             to_delete_task_list)
      BY <1>5, <1>9, <2>2
    <3>2. Injective(Places') /\ In(Places') = In(F) \union {t}
      BY <1>2, <1>4, <1>6, <1>7, <1>10, <3>1, SleepNextPlace DEF F
    <3> QED BY <1>2, <1>4, <1>7, <1>8, <2>2, <3>2, InsertBlocked
  <2> QED BY <1>5, <2>1, <2>2
<1>12. ret' = ret /\ ret[t] \in {"user", "set_prev_wake"}
  BY <1>1, AtStepFacts DEF IndInv, Leaving, Block
<1>13. ret \in [Task -> {"user", "set_prev_wake", "deleted"} \union {"reap"}]
  BY DEF IndInv, TypeOK
<1>14. to_delete_task_list' = to_delete_task_list
  BY DEF Block, objectVars
<1> QED BY <1>1, <1>2, <1>5, <1>11, <1>12, <1>13, <1>14, LeaveReadyInv
        DEF Block, Goto, objectVars, r

\* The atomic block of task_delete_later keeps the invariant: the task it moves
\* to to_delete_task_list is the caller.
LEMMA DeleteInv ==
  ASSUME IndInv, NEW t \in Task, task_delete_later(t)
  PROVE  IndInv'
<1>1. AtStep(t, "user") /\ delete_front
  BY DEF task_delete_later
<1> DEFINE r == tasklist_remove_front(ready, CurrentPriority)
           F == PlacesOf(r, blocked_curr, blocked_next, to_delete_task_list)
<1>2. /\ ready \in ReadyType /\ Exact(ready)
      /\ blocked_curr \in Seq(Sleeper) /\ blocked_next \in Seq(Sleeper)
      /\ to_delete_task_list \in Seq(Task)
      /\ Injective(Places)
  BY ListFacts DEF IndInv
<1>3. /\ CurrentPriority \in Priority /\ ready.list[CurrentPriority] # <<>>
      /\ Head(ready.list[CurrentPriority]) = t
      /\ tasklist_get_front_task(ready, CurrentPriority) = t /\ t # NoTask
  BY <1>1, FrontFacts, TaskIsNat
<1>4. ready' = r /\ to_delete_task_list' = <<t>> \o to_delete_task_list
  BY <1>1, <1>3 DEF delete_front
<1>5. r \in ReadyType
  BY <1>2, <1>3, RemoveReady
<1>6. Injective(F) /\ In(F) = In(Places) \ {t}
  BY <1>2, <1>3, UnreadyPlace DEF Places
<1>7. t \in In(Places)
  BY <1>1, AtStepFacts DEF IndInv, OnePlace
<1>8. Places' = PlacesOf(r, blocked_curr, blocked_next, <<t>> \o to_delete_task_list)
  BY <1>4 DEF Places, task_delete_later
<1> HIDE DEF r, F
<1>9. Injective(Places') /\ In(Places') = In(Places)
  <2>1. Injective(Places') /\ In(Places') = In(F) \union {t}
    BY <1>2, <1>5, <1>6, <1>8, DeletePlace DEF F
  <2> QED BY <1>6, <1>7, <2>1
<1>10. /\ to_delete_task_list' \in Seq(Task)
       /\ Range(to_delete_task_list') = Range(to_delete_task_list) \union {t}
  BY <1>2, <1>4, PushRange
<1>11. /\ ret' \in [Task -> {"user", "set_prev_wake", "deleted"} \union {"reap"}]
       /\ ret'[t] = "deleted" /\ \A u \in Task \ {t} : ret'[u] = ret[u]
  BY DEF IndInv, TypeOK, task_delete_later
<1> QED BY <1>1, <1>2, <1>4, <1>9, <1>10, <1>11, LeaveReadyInv
        DEF task_delete_later, Goto, r

-----------------------------------------------------------------------------
(* Task objects *)

\* task_new_task_struct returns an object nobody uses and nobody is about to.
LEMMA NewSlotFacts ==
  ASSUME IndInv, new_slot # NoTask
  PROVE  /\ new_slot \in Task /\ ~in_use[new_slot] /\ pc[new_slot] = "unused"
         /\ \A u \in Task : pc[u] = "append" => new_task[u] # new_slot
         /\ task_structures_pos < TASK_MAX_NUM => new_slot = task_structures_pos
<1>1. task_structures_pos \in 0 .. TASK_MAX_NUM /\ TASK_MAX_NUM \in Nat
  BY TaskAssumption DEF IndInv, TypeOK
<1> DEFINE free == {i \in Task : ~in_use[i]}
<1>2. new_slot \in Task /\ ~in_use[new_slot]
  <2>1. CASE task_structures_pos < TASK_MAX_NUM
    <3>1. new_slot = task_structures_pos /\ task_structures_pos \in Task
      BY <1>1, <2>1, TaskAssumption DEF new_slot
    <3>2. task_structures_pos >= task_structures_pos
      BY <1>1
    <3> QED BY <3>1, <3>2 DEF IndInv, Slots
  <2>2. CASE ~(task_structures_pos < TASK_MAX_NUM)
    <3>1. free # {} /\ new_slot = Min(free)
      BY <2>2 DEF new_slot
    <3>2. free \in SUBSET Nat
      BY TaskIsNat
    <3> HIDE DEF free
    <3>3. Min(free) \in free
      BY <3>1, <3>2, LeastExists
    <3>4. new_slot \in free
      BY <3>1, <3>3
    <3> QED BY <3>4 DEF free
  <2> QED BY <2>1, <2>2
<1>3. pc[new_slot] = "unused"
  BY <1>2 DEF IndInv, Slots
<1>4. \A u \in Task : pc[u] = "append" => new_task[u] # new_slot
  BY <1>2 DEF IndInv, Allocated
<1>5. task_structures_pos < TASK_MAX_NUM => new_slot = task_structures_pos
  BY DEF new_slot
<1> QED BY <1>2, <1>3, <1>4, <1>5

\* A task in a ready list has been created.
LEMMA ReadyIsCreated ==
  ASSUME IndInv, NEW p \in Priority, NEW u \in Range(ready.list[p])
  PROVE  u \in Task /\ u \in In(Places) /\ pc[u] # "unused"
<1>1. Places[p] = ready.list[p] /\ p \in PlaceName /\ ready \in ReadyType
  BY ListFacts DEF IndInv
<1>2. u \in In(Places)
  BY <1>1 DEF In
<1>3. ready.list[p] \in Seq(Task)
  BY <1>1 DEF ReadyType
<1>4. u \in Task
  <2>1. PICK i \in DOMAIN ready.list[p] : u = ready.list[p][i]
    BY DEF Range
  <2> QED BY <1>3, <2>1
<1> QED BY <1>2, <1>4 DEF IndInv, OnePlace

\* The first atomic block of task_create allocates an object nobody uses.
LEMMA CreateInv ==
  ASSUME IndInv, NEW t \in Task, NEW a \in NewAttrs, task_create(t, a)
  PROVE  IndInv'
<1> DEFINE slot == new_slot
<1>1. AtStep(t, "user")
  BY DEF task_create
<1>2. /\ started /\ ~pendsv /\ kernel_current_task = t /\ pc[t] = "user"
      /\ pc \in [Task -> Step] /\ t # IdleTask /\ task_suspended_count = 0
  BY <1>1, AtStepFacts
<1>3. /\ slot \in Task /\ ~in_use[slot] /\ pc[slot] = "unused" /\ slot # t
      /\ \A u \in Task : pc[u] = "append" => new_task[u] # slot
      /\ task_structures_pos < TASK_MAX_NUM => slot = task_structures_pos
  BY <1>2, NewSlotFacts DEF task_create
<1>4. /\ in_use' = [in_use EXCEPT ![slot] = TRUE]
      /\ task_structures_pos' = IF task_structures_pos < TASK_MAX_NUM
                                THEN task_structures_pos + 1 ELSE task_structures_pos
      /\ attr' = [attr EXCEPT ![slot] = a]
      /\ new_task' = [new_task EXCEPT ![t] = slot]
      /\ pc' = [pc EXCEPT ![t] = "append"]
  BY DEF task_create, task_new_task_struct, Goto
<1> HIDE DEF slot
<1>5. /\ kernel_ticks' = kernel_ticks /\ kernel_current_task' = kernel_current_task
      /\ ready' = ready /\ blocked_curr' = blocked_curr
      /\ blocked_next' = blocked_next /\ ready_switch_next' = ready_switch_next
      /\ task_suspended_count' = task_suspended_count
      /\ pendsv' = pendsv /\ ret' = ret /\ resume_time' = resume_time
      /\ started' = started /\ prev_wake_time' = prev_wake_time
      /\ to_delete_task_list' = to_delete_task_list
  BY DEF task_create
<1>6. /\ attr \in [Task -> Attribute] /\ in_use \in [Task -> BOOLEAN]
      /\ new_task \in [Task -> Task \union {NoTask}] /\ a \in Attribute
      /\ task_structures_pos \in 0 .. TASK_MAX_NUM /\ TASK_MAX_NUM \in Nat
  BY TaskAssumption, ArgumentsAssumption DEF IndInv, TypeOK, KernelTypeOK
<1>7. /\ attr' \in [Task -> Attribute] /\ \A u \in Task \ {slot} : attr'[u] = attr[u]
      /\ in_use' \in [Task -> BOOLEAN] /\ in_use'[slot]
      /\ \A u \in Task \ {slot} : in_use'[u] = in_use[u]
      /\ new_task' \in [Task -> Task \union {NoTask}] /\ new_task'[t] = slot
      /\ \A u \in Task \ {t} : new_task'[u] = new_task[u]
      /\ pc' \in [Task -> Step] /\ pc'[t] = "append"
      /\ \A u \in Task \ {t} : pc'[u] = pc[u]
  BY <1>2, <1>3, <1>4, <1>6 DEF Step
<1>8. /\ task_structures_pos' \in 0 .. TASK_MAX_NUM
      /\ task_structures_pos' >= task_structures_pos
      /\ \A u \in Task : u >= task_structures_pos' => u >= task_structures_pos /\ u # slot
  <2>1. CASE task_structures_pos < TASK_MAX_NUM
    BY <1>3, <1>4, <1>6, <2>1, TaskAssumption
  <2>2. CASE ~(task_structures_pos < TASK_MAX_NUM)
    BY <1>4, <1>6, <2>2, TaskAssumption
  <2> QED BY <2>1, <2>2
<1>9. TypeOK'
  BY <1>5, <1>7, <1>8 DEF IndInv, TypeOK, KernelTypeOK
<1>10. BitmapExact' /\ IdleReady'
  BY <1>5 DEF IndInv, BitmapExact, IdleReady, ReadyTasks
<1>11. ReadyAtOwnPriority'
  <2>1. ASSUME NEW p \in Priority, NEW u \in Range(ready.list[p])
        PROVE  attr'[u].priority = p
    <3>1. u \in Task /\ u # slot
      BY <1>3, ReadyIsCreated
    <3> QED BY <1>7, <3>1 DEF IndInv, ReadyAtOwnPriority, ReadyTasks
  <2> QED BY <1>5, <2>1 DEF ReadyAtOwnPriority, ReadyTasks
<1>12. OnePlace'
  <2>1. Places' = Places
    BY <1>5 DEF Places
  <2>2. \A u \in Task : pc'[u] # "unused" <=> pc[u] # "unused"
    BY <1>2, <1>7
  <2> QED BY <2>1, <2>2 DEF IndInv, OnePlace
<1>13. CurrentIsFront'
  <2>1. CurrentPriority' = CurrentPriority
    BY <1>2, <1>3, <1>5, <1>7 DEF CurrentPriority
  <2> QED BY <1>2, <1>5, <2>1 DEF IndInv, CurrentIsFront
<1>14. DeletedNeverRuns'
  BY <1>2, <1>5, <1>7 DEF IndInv, DeletedNeverRuns
<1>15. Boot'
  BY <1>2, <1>5, <1>6, <1>7, <1>8, IdleIsTask DEF IndInv, Boot
<1>16. Slots'
  <2>1. ~(t >= task_structures_pos) /\ in_use[t]
    BY <1>2 DEF IndInv, Slots
  <2>2. ASSUME NEW u \in Task, u >= task_structures_pos'
        PROVE  pc'[u] = "unused" /\ ~in_use'[u]
    <3>1. u >= task_structures_pos /\ u # slot /\ u # t
      BY <1>8, <2>1, <2>2
    <3>2. pc[u] = "unused" /\ ~in_use[u]
      BY <3>1 DEF IndInv, Slots
    <3> QED BY <1>7, <3>1, <3>2
  <2>3. ASSUME NEW u \in Task, pc'[u] # "unused" PROVE in_use'[u]
    <3>1. CASE u = slot
      BY <1>7, <3>1
    <3>2. CASE u # slot
      <4>1. in_use[u]
        BY <1>7, <2>1, <2>3 DEF IndInv, Slots
      <4> QED BY <1>7, <3>2, <4>1
    <3> QED BY <3>1, <3>2
  <2> QED BY <2>2, <2>3 DEF Slots
<1>17. Idle'
  BY <1>2, <1>5, <1>7, IdleIsTask DEF IndInv, Idle
<1>18. Allocated'
  <2>1. ASSUME NEW v \in Task, pc'[v] = "append"
        PROVE  /\ new_task'[v] \in Task
               /\ in_use'[new_task'[v]]
               /\ pc'[new_task'[v]] = "unused"
               /\ \A u \in Task : pc'[u] = "append" /\ new_task'[u] = new_task'[v] => u = v
    <3>1. CASE v = t
      BY <1>3, <1>7, <3>1
    <3>2. CASE v # t
      <4>1. pc[v] = "append" /\ new_task'[v] = new_task[v]
        BY <1>7, <2>1, <3>2
      <4>2. /\ new_task[v] \in Task /\ in_use[new_task[v]] /\ pc[new_task[v]] = "unused"
            /\ \A u \in Task : pc[u] = "append" /\ new_task[u] = new_task[v] => u = v
            /\ new_task[v] # slot
        BY <1>3, <4>1 DEF IndInv, Allocated
      <4>3. new_task[v] # t
        BY <1>2, <4>2
      <4> QED BY <1>3, <1>7, <4>1, <4>2, <4>3
    <3> QED BY <3>1, <3>2
  <2> QED BY <2>1 DEF Allocated
<1>19. Leaving'
  BY <1>2, <1>5, <1>7 DEF IndInv, Leaving
<1>20. Suspended'
  BY <1>2, <1>5, <1>7 DEF IndInv, Suspended
<1> QED BY <1>9, <1>10, <1>11, <1>12, <1>13, <1>14, <1>15, <1>16, <1>17, <1>18, <1>19,
           <1>20 DEF IndInv

\* The second atomic block of task_create adds a task that is in no list.
LEMMA AppendNewTaskInv ==
  ASSUME IndInv, NEW t \in Task, AppendNewTask(t)
  PROVE  IndInv'
<1> DEFINE new == new_task[t]
           p == attr[new].priority
<1>1. AtStep(t, "append")
  BY DEF AppendNewTask
<1>2. /\ started /\ ~pendsv /\ kernel_current_task = t /\ pc[t] = "append"
      /\ pc \in [Task -> Step] /\ t # IdleTask /\ task_suspended_count = 0
  BY <1>1, AtStepFacts
<1>3. /\ new \in Task /\ in_use[new] /\ pc[new] = "unused" /\ new # t
      /\ \A u \in Task : pc[u] = "append" /\ new_task[u] = new => u = t
  BY <1>2 DEF IndInv, Allocated
<1>4. /\ ready' = tasklist_append(ready, p, new)
      /\ pc' = [pc EXCEPT ![t] = "user", ![new] = "user"]
      /\ new_task' = [new_task EXCEPT ![t] = NoTask]
  BY DEF AppendNewTask
<1> HIDE DEF new
<1>5. /\ kernel_ticks' = kernel_ticks /\ kernel_current_task' = kernel_current_task
      /\ attr' = attr /\ blocked_curr' = blocked_curr
      /\ blocked_next' = blocked_next /\ ready_switch_next' = ready_switch_next
      /\ task_suspended_count' = task_suspended_count
      /\ pendsv' = pendsv /\ ret' = ret /\ resume_time' = resume_time
      /\ started' = started /\ prev_wake_time' = prev_wake_time
      /\ in_use' = in_use /\ task_structures_pos' = task_structures_pos
      /\ to_delete_task_list' = to_delete_task_list
  BY DEF AppendNewTask, objectVars
<1>6. attr \in [Task -> Attribute] /\ p \in Priority
      /\ new_task \in [Task -> Task \union {NoTask}]
  BY <1>3 DEF IndInv, TypeOK, KernelTypeOK, Attribute
<1> HIDE DEF p
<1>7. /\ new_task' \in [Task -> Task \union {NoTask}]
      /\ \A u \in Task \ {t} : new_task'[u] = new_task[u]
      /\ pc' \in [Task -> Step] /\ pc'[t] = "user" /\ pc'[new] = "user"
      /\ \A u \in Task \ {t, new} : pc'[u] = pc[u]
  BY <1>2, <1>3, <1>4, <1>6 DEF Step
<1>8. /\ ready \in ReadyType /\ Exact(ready)
      /\ blocked_curr \in Seq(Sleeper) /\ blocked_next \in Seq(Sleeper)
      /\ to_delete_task_list \in Seq(Task)
      /\ Injective(Places)
  BY ListFacts DEF IndInv
<1>9. ready' \in ReadyType /\ Exact(ready')
  BY <1>3, <1>4, <1>6, <1>8, AppendReady
<1>10. Appended(ready', ready, p, new)
  BY <1>3, <1>4, <1>6, <1>8, AppendReadyTasks
<1>11. TypeOK'
  BY <1>5, <1>7, <1>9 DEF IndInv, TypeOK, KernelTypeOK, ReadyType
<1>12. BitmapExact'
  BY <1>9 DEF BitmapExact, Exact
<1>13. ReadyAtOwnPriority'
  <2>1. ASSUME NEW q \in Priority, NEW u \in Range(ready'.list[q])
        PROVE  attr[u].priority = q
    <3>1. CASE q = p /\ u = new
      BY <3>1 DEF p
    <3>2. CASE ~(q = p /\ u = new)
      <4>1. u \in Range(ready.list[q])
        BY <1>10, <3>2 DEF Appended
      <4> QED BY <4>1 DEF IndInv, ReadyAtOwnPriority, ReadyTasks
    <3> QED BY <3>1, <3>2
  <2> QED BY <1>5, <2>1 DEF ReadyAtOwnPriority, ReadyTasks
<1>14. IdleReady'
  <2>1. TASKPRIO_IDLE \in Priority
    BY DEF TASKPRIO_IDLE, Priority
  <2> QED BY <1>2, <1>10, <2>1 DEF Appended, IndInv, IdleReady, ReadyTasks
<1>15. OnePlace'
  <2>1. new \notin In(Places)
    BY <1>3 DEF IndInv, OnePlace
  <2>2. Places' = PlacesOf(ready', blocked_curr, blocked_next, to_delete_task_list)
    BY <1>5 DEF Places
  <2>3. Injective(Places') /\ In(Places') = In(Places) \union {new}
    BY <1>3, <1>4, <1>6, <1>8, <2>1, <2>2, ReadyPlace DEF Places
  <2>4. \A u \in Task : pc'[u] # "unused" <=> pc[u] # "unused" \/ u = new
    BY <1>2, <1>7
  <2> QED BY <2>3, <2>4 DEF IndInv, OnePlace
<1>16. CurrentIsFront'
  <2>1. /\ CurrentPriority \in Priority /\ ready.list[CurrentPriority] # <<>>
        /\ Head(ready.list[CurrentPriority]) = t
    BY <1>1, FrontFacts
  <2>2. CurrentPriority' = CurrentPriority
    BY <1>5 DEF CurrentPriority
  <2>3. ready'.list[CurrentPriority] # <<>> /\ Head(ready'.list[CurrentPriority]) = t
    BY <1>10, <2>1 DEF Appended
  <2> QED BY <1>2, <1>5, <2>2, <2>3 DEF CurrentIsFront, tasklist_get_front_task
<1>17. DeletedNeverRuns'
  BY <1>2, <1>5, <1>7 DEF IndInv, DeletedNeverRuns
<1>18. Boot'
  BY <1>2, <1>5, <1>7 DEF IndInv, Boot
<1>19. Slots'
  <2>1. ~(t >= task_structures_pos) /\ in_use[t]
    BY <1>2 DEF IndInv, Slots
  <2>2. ~(new >= task_structures_pos)
    BY <1>3 DEF IndInv, Slots
  <2> QED BY <1>3, <1>5, <1>7, <2>1, <2>2 DEF IndInv, Slots
<1>20. Idle'
  <2>1. new # IdleTask
    BY <1>2, <1>3 DEF IndInv, Idle
  <2> QED BY <1>2, <1>3, <1>5, <1>7, <2>1, IdleIsTask DEF IndInv, Idle
<1>21. Allocated'
  <2>1. ASSUME NEW v \in Task, pc'[v] = "append"
        PROVE  /\ new_task'[v] \in Task
               /\ in_use'[new_task'[v]]
               /\ pc'[new_task'[v]] = "unused"
               /\ \A u \in Task : pc'[u] = "append" /\ new_task'[u] = new_task'[v] => u = v
    <3>1. v # t /\ v # new /\ pc[v] = "append" /\ new_task'[v] = new_task[v]
      BY <1>7, <2>1
    <3>2. /\ new_task[v] \in Task /\ in_use[new_task[v]] /\ pc[new_task[v]] = "unused"
          /\ \A u \in Task : pc[u] = "append" /\ new_task[u] = new_task[v] => u = v
      BY <3>1 DEF IndInv, Allocated
    <3>3. new_task[v] # t /\ new_task[v] # new
      BY <1>2, <1>3, <3>1, <3>2
    <3>4. \A u \in Task : pc'[u] = "append" =>
            pc[u] = "append" /\ new_task'[u] = new_task[u]
      BY <1>7
    <3> QED BY <1>5, <1>7, <3>1, <3>2, <3>3, <3>4
  <2> QED BY <2>1 DEF Allocated
<1>22. Leaving'
  <2>1. t \notin Range(to_delete_task_list) /\ new \notin Range(to_delete_task_list)
    BY <1>2, <1>3 DEF IndInv, Leaving
  <2> QED BY <1>3, <1>5, <1>7, <2>1 DEF IndInv, Leaving
<1>23. Suspended'
  BY <1>2, <1>5, <1>7 DEF IndInv, Suspended
<1> QED BY <1>11, <1>12, <1>13, <1>14, <1>15, <1>16, <1>17, <1>18, <1>19, <1>20, <1>21,
           <1>22, <1>23 DEF IndInv

\* kernel_idle_task frees the object of a task that has left for good.
LEMMA ReapInv ==
  ASSUME IndInv, NEW t \in Task, Reap(t)
  PROVE  IndInv'
<1>1. AtStep(t, "reap")
  BY DEF Reap
<1>2. /\ started /\ ~pendsv /\ kernel_current_task = t /\ pc[t] = "reap"
      /\ pc \in [Task -> Step] /\ t = IdleTask /\ task_suspended_count = 0
      /\ ret \in [Task -> {"user", "set_prev_wake", "deleted", "reap"}]
  BY <1>1, AtStepFacts
<1>3. CASE to_delete_task_list = <<>>
  <2>1. pc' = [pc EXCEPT ![t] = "poll"] /\ in_use' = in_use
        /\ to_delete_task_list' = to_delete_task_list
    BY <1>3 DEF Reap, Goto
  <2>2. resume_time \in [Task -> Tick] /\ prev_wake_time \in [Task -> Tick]
    BY DEF IndInv, TypeOK
  <2>3. PcStep(t, "reap", "poll")
    BY <1>1, <1>2, <2>1, <2>2 DEF Reap, PcStep, Step, objectVars
  <2> QED BY <2>3, PcStepInv
<1>4. CASE to_delete_task_list # <<>>
  <2> DEFINE dead == Head(to_delete_task_list)
  <2>1. /\ to_delete_task_list' = Tail(to_delete_task_list)
        /\ in_use' = [in_use EXCEPT ![dead] = FALSE]
        /\ pc' = [pc EXCEPT ![t] = "poll", ![dead] = "unused"]
    BY <1>4 DEF Reap
  <2>2. /\ kernelVars' = kernelVars /\ new_task' = new_task
        /\ ret' = ret /\ resume_time' = resume_time
        /\ started' = started /\ prev_wake_time' = prev_wake_time
        /\ task_structures_pos' = task_structures_pos
    BY DEF Reap
  <2>3. /\ ready \in ReadyType
        /\ blocked_curr \in Seq(Sleeper) /\ blocked_next \in Seq(Sleeper)
        /\ to_delete_task_list \in Seq(Task)
        /\ Injective(Places)
    BY ListFacts DEF IndInv
  <2>4. /\ Tail(to_delete_task_list) \in Seq(Task) /\ dead \in Task
        /\ dead \in Range(to_delete_task_list)
        /\ Range(Tail(to_delete_task_list)) \subseteq Range(to_delete_task_list)
        /\ \A u \in Range(to_delete_task_list) : u # dead =>
             u \in Range(Tail(to_delete_task_list))
    BY <1>4, <2>3, TailRange
  <2> HIDE DEF dead
  <2>5. dead # t
    BY <1>2, <2>4 DEF IndInv, Leaving
  <2>6. /\ pc' \in [Task -> Step] /\ pc'[t] = "poll" /\ pc'[dead] = "unused"
        /\ \A u \in Task \ {t, dead} : pc'[u] = pc[u]
        /\ in_use' \in [Task -> BOOLEAN] /\ ~in_use'[dead]
        /\ \A u \in Task \ {dead} : in_use'[u] = in_use[u]
    BY <1>2, <2>1, <2>4, <2>5 DEF IndInv, TypeOK, Step
  <2>7. /\ pc[dead] # "unused"
    BY <2>4 DEF IndInv, Leaving
  <2>8. TypeOK'
    BY <2>1, <2>2, <2>4, <2>6 DEF IndInv, TypeOK, KernelTypeOK, kernelVars
  <2>9. BitmapExact' /\ ReadyAtOwnPriority' /\ IdleReady'
    BY <2>2 DEF IndInv, BitmapExact, ReadyAtOwnPriority, IdleReady, ReadyTasks, kernelVars
  <2>10. Injective(Places') /\ In(Places') = In(Places) \ {dead}
    <3>1. Places' = PlacesOf(ready, blocked_curr, blocked_next, Tail(to_delete_task_list))
      BY <2>1, <2>2 DEF Places, kernelVars
    <3> QED BY <1>4, <2>3, <3>1, ReapPlace DEF Places, dead
  <2>11. dead \notin Range(Tail(to_delete_task_list))
    <3>1. IsPlaces(Places', ready', blocked_curr', blocked_next', to_delete_task_list')
      BY <2>2, <2>1, <2>3, <2>4, PlacesOfType DEF Places, kernelVars
    <3>2. Range(to_delete_task_list') \subseteq In(Places')
      BY <3>1 DEF IsPlaces, In
    <3> QED BY <2>1, <2>10, <3>2
  <2>12. OnePlace'
    <3>1. \A u \in Task : pc'[u] # "unused" <=> pc[u] # "unused" /\ u # dead
      BY <1>2, <2>5, <2>6
    <3> QED BY <2>10, <3>1 DEF IndInv, OnePlace
  <2>13. CurrentIsFront'
    BY <1>2, <2>2 DEF IndInv, CurrentIsFront, CurrentPriority, kernelVars
  <2>14. DeletedNeverRuns'
    BY <1>2, <2>2, <2>6 DEF IndInv, DeletedNeverRuns, kernelVars
  <2>15. Boot'
    BY <1>2, <2>2, <2>6 DEF IndInv, Boot, kernelVars
  <2>16. Slots'
    <3>1. ~(t >= task_structures_pos) /\ in_use[t]
      BY <1>2 DEF IndInv, Slots
    <3> QED BY <2>2, <2>5, <2>6, <3>1 DEF IndInv, Slots
  <2>17. Idle'
    BY <1>2, <2>2, <2>5, <2>6, IdleIsTask DEF IndInv, Idle
  <2>18. Allocated'
    <3>1. ASSUME NEW v \in Task, pc'[v] = "append"
          PROVE  /\ new_task'[v] \in Task
                 /\ in_use'[new_task'[v]]
                 /\ pc'[new_task'[v]] = "unused"
                 /\ \A u \in Task : pc'[u] = "append" /\ new_task'[u] = new_task'[v] => u = v
      <4>1. pc[v] = "append"
        BY <2>6, <3>1
      <4>2. /\ new_task[v] \in Task /\ in_use[new_task[v]] /\ pc[new_task[v]] = "unused"
            /\ \A u \in Task : pc[u] = "append" /\ new_task[u] = new_task[v] => u = v
        BY <4>1 DEF IndInv, Allocated
      <4>3. new_task[v] # t /\ new_task[v] # dead
        BY <1>2, <2>7, <4>2
      <4>4. \A u \in Task : pc'[u] = "append" => pc[u] = "append"
        BY <2>6
      <4> QED BY <2>2, <2>6, <4>2, <4>3, <4>4
    <3> QED BY <3>1 DEF Allocated
  <2>19. Leaving'
    <3>1. t \notin Range(to_delete_task_list)
      BY <1>2 DEF IndInv, Leaving
    <3>2. \A u \in Task \ {t, dead} :
            u \in Range(to_delete_task_list') <=> u \in Range(to_delete_task_list)
      BY <2>1, <2>4
    <3>3. t \notin Range(to_delete_task_list') /\ dead \notin Range(to_delete_task_list')
      BY <2>1, <2>4, <2>11, <3>1
    <3> QED BY <2>2, <2>6, <3>2, <3>3 DEF IndInv, Leaving
  <2>20. Suspended'
    BY <1>2, <2>2, <2>6 DEF IndInv, Suspended, kernelVars
  <2> QED BY <2>8, <2>9, <2>12, <2>13, <2>14, <2>15, <2>16, <2>17, <2>18, <2>19,
             <2>20 DEF IndInv
<1> QED BY <1>3, <1>4

-----------------------------------------------------------------------------
(* Interrupts *)

\* A tick moves at most one sleeper to the list of its priority.
LEMMA TickFacts ==
  ASSUME IndInv,
         NEW P, P = PlacesOf(ready_after_tick, still_blocked, blocked_next,
                             to_delete_task_list)
  PROVE  /\ ready_after_tick \in ReadyType /\ Exact(ready_after_tick)
         /\ still_blocked \in Seq(Sleeper)
         /\ Injective(P) /\ In(P) = In(Places)
         /\ \/ ready_after_tick = ready
            \/ \E x \in Task : Appended(ready_after_tick, ready, attr[x].priority, x)
<1>1. /\ ready \in ReadyType /\ Exact(ready)
      /\ blocked_curr \in Seq(Sleeper) /\ blocked_next \in Seq(Sleeper)
      /\ to_delete_task_list \in Seq(Task)
      /\ Injective(Places)
      /\ \A l \in {CURR} : l \in PlaceName /\ Places[l] = TasksOf(blocked_curr)
  <2>1. /\ ready \in ReadyType /\ Exact(ready)
        /\ blocked_curr \in Seq(Sleeper) /\ blocked_next \in Seq(Sleeper)
        /\ to_delete_task_list \in Seq(Task)
        /\ Injective(Places)
    BY ListFacts DEF IndInv
  <2> QED BY <2>1, PlacesOfType DEF Places, IsPlaces
<1>2. CASE ~timed_out
  BY <1>1, <1>2 DEF ready_after_tick, still_blocked, Places
<1>3. CASE timed_out
  <2> DEFINE x == Head(blocked_curr).task
             p == attr[x].priority
             F == PlacesOf(ready, Tail(blocked_curr), blocked_next, to_delete_task_list)
  <2>1. /\ blocked_curr # <<>>
        /\ still_blocked = Tail(blocked_curr)
        /\ ready_after_tick = tasklist_append(ready, p, x)
    BY <1>3 DEF timed_out, still_blocked, ready_after_tick
  <2>2. x \in Task /\ Tail(blocked_curr) \in Seq(Sleeper)
    <3>1. Head(blocked_curr) \in Sleeper /\ Tail(blocked_curr) \in Seq(Sleeper)
      BY <1>1, <2>1
    <3> QED BY <3>1 DEF Sleeper
  <2>3. Injective(F) /\ In(F) = In(Places) \ {x}
    BY <1>1, <2>1, WakePlace DEF Places
  <2>4. x \in In(Places)
    <3>1. TasksOf(blocked_curr) # <<>> /\ Head(TasksOf(blocked_curr)) = x
          /\ TasksOf(blocked_curr) \in Seq(Task)
      BY <1>1, <2>1, TasksOfTail, TasksOfType
    <3>2. x \in Range(TasksOf(blocked_curr))
      BY <3>1, TailRange
    <3> QED BY <1>1, <3>2 DEF In
  <2> HIDE DEF x
  <2>5. p \in Priority
    BY <2>2 DEF IndInv, TypeOK, KernelTypeOK, Attribute
  <2>6. /\ ready_after_tick \in ReadyType /\ Exact(ready_after_tick)
        /\ Appended(ready_after_tick, ready, p, x)
    <3> HIDE DEF p
    <3> QED BY <1>1, <2>1, <2>2, <2>5, AppendReady, AppendReadyTasks
  <2>7. Injective(P) /\ In(P) = In(F) \union {x}
    <3> DEFINE curr == Tail(blocked_curr)
    <3>1. /\ x \notin In(F) /\ Injective(F) /\ curr \in Seq(Sleeper)
          /\ F = PlacesOf(ready, curr, blocked_next, to_delete_task_list)
          /\ P = PlacesOf(ready_after_tick, curr, blocked_next, to_delete_task_list)
          /\ ready_after_tick = tasklist_append(ready, p, x)
      BY <2>1, <2>2, <2>3
    <3> HIDE DEF p, F, curr
    <3> QED BY <1>1, <2>2, <2>5, <3>1, ReadyPlace
  <2> QED BY <2>1, <2>2, <2>3, <2>4, <2>6, <2>7
<1> QED BY <1>2, <1>3

\* SysTick keeps the invariant: a woken task changes its list, and no other does.
LEMMA TickInterruptInv ==
  ASSUME IndInv, TickInterrupt
  PROVE  IndInv'
<1> DEFINE P == PlacesOf(ready_after_tick, still_blocked, blocked_next,
                         to_delete_task_list)
<1>1. /\ started /\ ready' = ready_after_tick
      /\ kernel_ticks' = next_tick
      /\ \/ blocked_curr' = blocked_next /\ blocked_next' = still_blocked
         \/ blocked_curr' = still_blocked /\ blocked_next' = blocked_next
      /\ ready_switch_next' \in BOOLEAN
      /\ pendsv' = (pendsv \/ need_switch)
      /\ kernel_current_task' = kernel_current_task /\ attr' = attr
      /\ task_suspended_count' = task_suspended_count
  BY DEF TickInterrupt, SysTick
<1>2. /\ started' = started /\ pc' = pc /\ ret' = ret /\ resume_time' = resume_time
      /\ prev_wake_time' = prev_wake_time /\ new_task' = new_task /\ in_use' = in_use
      /\ task_structures_pos' = task_structures_pos
      /\ to_delete_task_list' = to_delete_task_list
  BY DEF TickInterrupt, taskVars
<1>3. /\ ready_after_tick \in ReadyType /\ Exact(ready_after_tick)
      /\ still_blocked \in Seq(Sleeper)
      /\ Injective(P) /\ In(P) = In(Places)
      /\ \/ ready_after_tick = ready
         \/ \E x \in Task : Appended(ready_after_tick, ready, attr[x].priority, x)
  BY TickFacts
<1> HIDE DEF P
<1>4. /\ blocked_next \in Seq(Sleeper) /\ to_delete_task_list \in Seq(Task)
      /\ attr \in [Task -> Attribute]
      /\ task_suspended_count \in Nat /\ pendsv \in BOOLEAN
  BY DEF IndInv, TypeOK, KernelTypeOK
<1>5. next_tick \in Tick
  <2>1. kernel_ticks + 1 \in Int
    BY TickModAssumption DEF IndInv, TypeOK, KernelTypeOK, Tick
  <2> QED BY <2>1, ModTick DEF next_tick
<1>6. need_switch => task_suspended_count = 0
  BY DEF need_switch
<1>7. pendsv' \in BOOLEAN /\ (~pendsv' => ~pendsv)
      /\ (task_suspended_count > 0 => ~need_switch)
  BY <1>1, <1>4, <1>6
<1>8. TypeOK'
  BY <1>1, <1>2, <1>3, <1>4, <1>5, <1>7 DEF IndInv, TypeOK, KernelTypeOK, ReadyType
<1>9. BitmapExact'
  BY <1>1, <1>3 DEF BitmapExact, Exact
<1>10. ReadyAtOwnPriority'
  <2>1. ASSUME NEW q \in Priority, NEW u \in Range(ready_after_tick.list[q])
        PROVE  attr[u].priority = q
    <3>1. CASE u \in Range(ready.list[q])
      BY <3>1 DEF IndInv, ReadyAtOwnPriority, ReadyTasks
    <3>2. CASE u \notin Range(ready.list[q])
      <4>1. PICK x \in Task : Appended(ready_after_tick, ready, attr[x].priority, x)
        BY <1>3, <3>2
      <4>2. q = attr[x].priority /\ u = x
        BY <3>2, <4>1 DEF Appended
      <4> QED BY <4>2
    <3> QED BY <3>1, <3>2
  <2> QED BY <1>1, <2>1 DEF ReadyAtOwnPriority, ReadyTasks
<1>11. \A q \in Priority :
         /\ Range(ready.list[q]) \subseteq Range(ready_after_tick.list[q])
         /\ ready.list[q] # <<>> => /\ ready_after_tick.list[q] # <<>>
                                    /\ Head(ready_after_tick.list[q]) = Head(ready.list[q])
  BY <1>3 DEF Appended
<1>12. IdleReady'
  <2>1. TASKPRIO_IDLE \in Priority
    BY DEF TASKPRIO_IDLE, Priority
  <2> QED BY <1>1, <1>2, <1>11, <2>1 DEF IndInv, IdleReady, ReadyTasks
<1>13. OnePlace'
  <2>1. Injective(Places') /\ In(Places') = In(P)
    <3>1. CASE blocked_curr' = still_blocked /\ blocked_next' = blocked_next
      BY <1>1, <1>2, <1>3, <3>1 DEF Places, P
    <3>2. CASE blocked_curr' = blocked_next /\ blocked_next' = still_blocked
      <4>1. Places' = PlacesOf(ready_after_tick, blocked_next, still_blocked,
                               to_delete_task_list)
        BY <1>1, <1>2, <3>2 DEF Places
      <4> QED BY <1>3, <1>4, <4>1, CyclePlaces DEF P
    <3> QED BY <1>1, <3>1, <3>2
  <2> QED BY <1>2, <1>3, <2>1 DEF IndInv, OnePlace
<1>14. CurrentIsFront'
  <2> SUFFICES ASSUME kernel_current_task # NoTask, ~pendsv',
                      pc[kernel_current_task] # "yield"
               PROVE  tasklist_get_front_task(ready_after_tick, CurrentPriority)
                        = kernel_current_task
    BY <1>1, <1>2 DEF CurrentIsFront, CurrentPriority
  <2>1. tasklist_get_front_task(ready, CurrentPriority) = kernel_current_task
    BY <1>7 DEF IndInv, CurrentIsFront
  <2>2. ready.list[CurrentPriority] # <<>>
    BY <2>1 DEF tasklist_get_front_task
  <2>3. CurrentPriority \in Priority
    BY <1>4 DEF CurrentPriority, Attribute, IndInv, TypeOK, KernelTypeOK
  <2> QED BY <1>11, <2>1, <2>2, <2>3 DEF tasklist_get_front_task
<1>15. DeletedNeverRuns'
  BY <1>1, <1>2, <1>7 DEF IndInv, DeletedNeverRuns
<1>16. Boot' /\ Slots'
  BY <1>1, <1>2 DEF IndInv, Boot, Slots
<1>17. Idle'
  BY <1>1, <1>2 DEF IndInv, Idle
<1>18. Allocated' /\ Leaving'
  BY <1>2 DEF IndInv, Allocated, Leaving
<1>19. Suspended'
  BY <1>1, <1>2, <1>4, <1>7 DEF IndInv, Suspended
<1> QED BY <1>8, <1>9, <1>10, <1>12, <1>13, <1>14, <1>15, <1>16, <1>17, <1>18, <1>19
        DEF IndInv

\* PendSV moves the current task to the end of its list or nothing.
LEMMA RotatedFacts ==
  ASSUME IndInv, kernel_current_task \in Task
  PROVE  /\ rotated \in ReadyType /\ Exact(rotated)
         /\ \A q \in Priority : Range(rotated.list[q]) = Range(ready.list[q])
         /\ Injective(PlacesOf(rotated, blocked_curr, blocked_next, to_delete_task_list))
         /\ In(PlacesOf(rotated, blocked_curr, blocked_next, to_delete_task_list)) = In(Places)
<1> DEFINE p == CurrentPriority
           t == kernel_current_task
           r == tasklist_remove_front(ready, p)
<1>1. /\ ready \in ReadyType /\ Exact(ready)
      /\ blocked_curr \in Seq(Sleeper) /\ blocked_next \in Seq(Sleeper)
      /\ to_delete_task_list \in Seq(Task)
      /\ Injective(Places)
  BY ListFacts DEF IndInv
<1>2. p \in Priority /\ t # NoTask /\ t \in Task
  BY TaskIsNat DEF CurrentPriority, Attribute, IndInv, TypeOK, KernelTypeOK
<1>3. CASE tasklist_get_front_task(ready, p) # t
  BY <1>1, <1>3 DEF rotated, Places
<1>4. CASE tasklist_get_front_task(ready, p) = t
  <2>1. /\ ready.list[p] # <<>> /\ Head(ready.list[p]) = t
        /\ rotated = tasklist_append(r, p, t)
    BY <1>2, <1>4 DEF tasklist_get_front_task, rotated
  <2>2. ready.list[p] \in Seq(Task)
    BY <1>1, <1>2 DEF ReadyType
  <2>3. /\ t \in Range(ready.list[p])
    BY <2>1, <2>2, TailRange
  <2>4. t \in In(Places)
    BY <1>2, <2>3, ReadyIsCreated
  <2> HIDE DEF p, t
  <2>5. r \in ReadyType /\ Exact(r)
    BY <1>1, <1>2, <2>1, RemoveReady
  <2>6. \A q \in Priority :
          /\ Range(r.list[q]) \subseteq Range(ready.list[q])
          /\ \A u \in Range(ready.list[q]) : u # t => u \in Range(r.list[q])
    BY <1>1, <1>2, <2>1, RemoveReadyTasks
  <2> DEFINE F == PlacesOf(r, blocked_curr, blocked_next, to_delete_task_list)
             G == PlacesOf(rotated, blocked_curr, blocked_next, to_delete_task_list)
  <2>7. Injective(F) /\ In(F) = In(Places) \ {t}
    BY <1>1, <1>2, <2>1, UnreadyPlace DEF Places
  <2> HIDE DEF r
  <2>8. /\ rotated \in ReadyType /\ Exact(rotated) /\ Appended(rotated, r, p, t)
    BY <1>2, <2>1, <2>5, AppendReady, AppendReadyTasks
  <2>9. Injective(G) /\ In(G) = In(F) \union {t}
    <3>1. t \notin In(F) /\ Injective(F)
      BY <2>7
    <3>2. F = PlacesOf(r, blocked_curr, blocked_next, to_delete_task_list)
          /\ G = PlacesOf(rotated, blocked_curr, blocked_next, to_delete_task_list)
      OBVIOUS
    <3> HIDE DEF F, G
    <3> QED BY <1>1, <1>2, <2>1, <2>5, <3>1, <3>2, ReadyPlace
  <2> HIDE DEF F
  <2>10. In(G) = In(Places)
    BY <2>4, <2>7, <2>9
  <2>11. ASSUME NEW q \in Priority PROVE Range(rotated.list[q]) = Range(ready.list[q])
    <3>1. CASE q = p
      BY <1>2, <2>3, <2>6, <2>8, <3>1 DEF Appended
    <3>2. CASE q # p
      <4>1. r.list[q] = ready.list[q]
        BY <1>1, <1>2, <2>1, <3>2, RemoveReady DEF r
      <4> QED BY <2>8, <3>2, <4>1 DEF Appended
    <3> QED BY <3>1, <3>2
  <2> QED BY <2>8, <2>9, <2>10, <2>11
<1> QED BY <1>3, <1>4

\* PendSV keeps the invariant: the task it picks is ready and at the front.
LEMMA ContextSwitchInv ==
  ASSUME IndInv, ContextSwitch
  PROVE  IndInv'
<1> DEFINE h == tasklist_get_highest_priority(rotated)
           next == kernel_current_task'
<1>1. /\ pendsv /\ ready' = rotated /\ pendsv' = FALSE
      /\ next = tasklist_get_front_task(rotated, h)
      /\ kernel_ticks' = kernel_ticks /\ attr' = attr
      /\ blocked_curr' = blocked_curr /\ blocked_next' = blocked_next
      /\ ready_switch_next' = ready_switch_next
      /\ task_suspended_count' = task_suspended_count
  BY DEF ContextSwitch, PendSV
<1>2. /\ started' = started /\ pc' = pc /\ ret' = ret /\ resume_time' = resume_time
      /\ prev_wake_time' = prev_wake_time /\ new_task' = new_task /\ in_use' = in_use
      /\ task_structures_pos' = task_structures_pos
      /\ to_delete_task_list' = to_delete_task_list
  BY DEF ContextSwitch, taskVars
<1>3. started /\ kernel_current_task \in Task
  BY <1>1 DEF IndInv, Boot
<1>4. task_suspended_count = 0
  BY <1>1 DEF IndInv, Suspended, TypeOK, KernelTypeOK
<1>5. /\ rotated \in ReadyType /\ Exact(rotated)
      /\ \A q \in Priority : Range(rotated.list[q]) = Range(ready.list[q])
      /\ Injective(PlacesOf(rotated, blocked_curr, blocked_next, to_delete_task_list))
      /\ In(PlacesOf(rotated, blocked_curr, blocked_next, to_delete_task_list)) = In(Places)
  BY <1>3, RotatedFacts
<1>6. TASKPRIO_IDLE \in Priority /\ rotated.list[TASKPRIO_IDLE] # <<>>
  <2>1. TASKPRIO_IDLE \in Priority
    BY DEF TASKPRIO_IDLE, Priority
  <2>2. IdleTask \in Range(rotated.list[TASKPRIO_IDLE])
    BY <1>3, <1>5, <2>1 DEF IndInv, IdleReady, ReadyTasks
  <2> QED BY <2>1, <2>2 DEF Range
<1>7. h \in Priority /\ rotated.list[h] # <<>>
  BY <1>5, <1>6, HighestPriority
<1> HIDE DEF h
<1>8. next = Head(rotated.list[h]) /\ next \in Range(ready.list[h])
  <2>1. next = Head(rotated.list[h])
    BY <1>1, <1>7 DEF tasklist_get_front_task
  <2>2. rotated.list[h] \in Seq(Task)
    BY <1>5, <1>7 DEF ReadyType
  <2>3. next \in Range(rotated.list[h])
    BY <1>7, <2>1, <2>2, TailRange
  <2> QED BY <1>5, <1>7, <2>1, <2>3
<1>9. next \in Task /\ pc[next] # "unused" /\ attr[next].priority = h
  BY <1>7, <1>8, ReadyIsCreated DEF IndInv, ReadyAtOwnPriority, ReadyTasks
<1>10. pc[next] # "deleted"
  <2>1. /\ Places \in PlacesType /\ Injective(Places)
        /\ h \in PlaceName /\ Places[h] = ready.list[h]
        /\ EXTRA \in PlaceName /\ Places[EXTRA] = to_delete_task_list
    BY <1>7, ListFacts DEF IndInv
  <2>2. EXTRA # h
    BY <1>7, PlaceNames
  <2>3. next \notin Range(to_delete_task_list)
    BY <1>8, <2>1, <2>2, OneList
  <2> QED BY <1>9, <2>3 DEF IndInv, Leaving
<1>11. TypeOK'
  BY <1>1, <1>2, <1>5, <1>9 DEF IndInv, TypeOK, KernelTypeOK, ReadyType
<1>12. BitmapExact'
  BY <1>1, <1>5 DEF BitmapExact, Exact
<1>13. ReadyAtOwnPriority'
  BY <1>1, <1>5 DEF IndInv, ReadyAtOwnPriority, ReadyTasks
<1>14. IdleReady'
  BY <1>1, <1>2, <1>5, <1>6 DEF IndInv, IdleReady, ReadyTasks
<1>15. OnePlace'
  <2>1. Places' = PlacesOf(rotated, blocked_curr, blocked_next, to_delete_task_list)
    BY <1>1, <1>2 DEF Places
  <2> QED BY <1>2, <1>5, <2>1 DEF IndInv, OnePlace
<1>16. CurrentIsFront'
  BY <1>1, <1>9 DEF CurrentIsFront, CurrentPriority
<1>17. DeletedNeverRuns'
  BY <1>2, <1>10 DEF DeletedNeverRuns
<1>18. Boot'
  BY <1>2, <1>3, <1>9 DEF IndInv, Boot
<1>19. Slots' /\ Idle' /\ Allocated' /\ Leaving'
  BY <1>2 DEF IndInv, Slots, Idle, Allocated, Leaving
<1>20. Suspended'
  BY <1>1, <1>2, <1>4 DEF IndInv, Suspended
<1> QED BY <1>11, <1>12, <1>13, <1>14, <1>15, <1>16, <1>17, <1>18, <1>19, <1>20 DEF IndInv

-----------------------------------------------------------------------------
(* main() *)

\* The invariant holds before main() has created a task.
LEMMA InitInv == Init => IndInv
<1> SUFFICES ASSUME Init PROVE IndInv
  OBVIOUS
<1>1. /\ ready = EmptyReady /\ blocked_curr = <<>> /\ blocked_next = <<>>
      /\ to_delete_task_list = <<>> /\ ~started /\ pendsv = FALSE
      /\ kernel_current_task = NoTask /\ task_suspended_count = 0
      /\ task_structures_pos = 0 /\ kernel_ticks = 0 /\ ready_switch_next = FALSE
      /\ attr = [t \in Task |-> [priority |-> TASKPRIO_IDLE, sched_method |-> "RR"]]
      /\ pc = [t \in Task |-> "unused"] /\ ret = [t \in Task |-> "user"]
      /\ resume_time = [t \in Task |-> 0] /\ prev_wake_time = [t \in Task |-> 0]
      /\ new_task = [t \in Task |-> NoTask] /\ in_use = [t \in Task |-> FALSE]
  BY DEF Init, KernelInit
<1>2. EmptyReady \in ReadyType /\ Exact(EmptyReady)
  BY EmptyExact
<1>3. 0 \in Tick /\ 0 \in 0 .. TASK_MAX_NUM
  BY TickModAssumption, TaskAssumption DEF Tick
<1>4. [priority |-> TASKPRIO_IDLE, sched_method |-> "RR"] \in Attribute
  BY DEF Attribute, TASKPRIO_IDLE, Priority, SchedMethod
<1>5. TypeOK
  <2>1. KernelTypeOK
    <3>1. attr \in [Task -> Attribute]
      BY <1>1, <1>4
    <3>2. ready \in [list : [Priority -> Seq(Task)], bitmap : SUBSET Priority]
      BY <1>1, <1>2 DEF ReadyType
    <3>3. blocked_curr \in Seq(Sleeper) /\ blocked_next \in Seq(Sleeper)
      BY <1>1
    <3>4. /\ kernel_ticks \in Tick /\ kernel_current_task \in Task \union {NoTask}
          /\ ready_switch_next \in BOOLEAN /\ task_suspended_count \in Nat
          /\ pendsv \in BOOLEAN
      BY <1>1, <1>3
    <3> QED BY <3>1, <3>2, <3>3, <3>4 DEF KernelTypeOK
  <2>2. /\ pc \in [Task -> Step] /\ in_use \in [Task -> BOOLEAN]
        /\ ret \in [Task -> {"user", "set_prev_wake", "deleted", "reap"}]
    BY <1>1 DEF Step
  <2>3. /\ resume_time \in [Task -> Tick] /\ prev_wake_time \in [Task -> Tick]
        /\ new_task \in [Task -> Task \union {NoTask}]
    BY <1>1, <1>3
  <2>4. to_delete_task_list \in Seq(Task) /\ started \in BOOLEAN
        /\ task_structures_pos \in 0 .. TASK_MAX_NUM
    <3>1. started = FALSE
      BY DEF Init
    <3>2. <<>> \in Seq(Task)
      OBVIOUS
    <3> QED BY <1>1, <1>3, <3>1, <3>2
  <2> QED BY <2>1, <2>2, <2>3, <2>4 DEF TypeOK
<1>6. BitmapExact
  BY <1>1, <1>2 DEF BitmapExact, Exact
<1>7. \A l \in PlaceName : Places[l] = <<>>
  <2>1. IsPlaces(Places, EmptyReady, <<>>, <<>>, <<>>)
    <3>1. <<>> \in Seq(Task) /\ <<>> \in Seq(Sleeper)
      OBVIOUS
    <3>2. Places = PlacesOf(EmptyReady, <<>>, <<>>, <<>>)
      BY <1>1 DEF Places
    <3> QED BY <1>2, <3>1, <3>2, PlacesOfType
  <2>2. TasksOf(<<>>) = <<>>
    BY DEF TasksOf
  <2>3. \A q \in Priority : EmptyReady.list[q] = <<>>
    BY DEF EmptyReady
  <2> QED BY <2>1, <2>2, <2>3, PlaceNames DEF IsPlaces
<1>8. OnePlace
  <2>1. Injective(Places)
    BY <1>7 DEF Injective
  <2>2. In(Places) = {}
    <3>1. \A l \in PlaceName : Range(Places[l]) = {}
      BY <1>7 DEF Range
    <3> QED BY <3>1 DEF In
  <2>3. \A t \in Task : pc[t] = "unused"
    BY <1>1
  <2> QED BY <2>1, <2>2, <2>3 DEF OnePlace
<1>9. ReadyAtOwnPriority
  <2>1. \A p \in Priority : ready.list[p] = <<>>
    BY <1>1 DEF EmptyReady
  <2>2. \A p \in Priority : Range(ready.list[p]) = {}
    BY <2>1 DEF Range
  <2> QED BY <2>2 DEF ReadyAtOwnPriority, ReadyTasks
<1>10. CurrentIsFront /\ IdleReady /\ DeletedNeverRuns
  BY <1>1 DEF CurrentIsFront, IdleReady, DeletedNeverRuns
<1>11. Boot
  BY <1>1, IdleIsTask DEF Boot
<1>12. Slots /\ Idle /\ Allocated
  BY <1>1 DEF Slots, Idle, Allocated
<1>13. Leaving /\ Suspended
  BY <1>1 DEF Leaving, Suspended, Range
<1> QED BY <1>5, <1>6, <1>8, <1>9, <1>10, <1>11, <1>12, <1>13 DEF IndInv

\* The tasks main() and task_schedule create keep the invariant.
LEMMA BootInv ==
  ASSUME IndInv, MainCreate \/ task_schedule
  PROVE  IndInv'
<1> DEFINE n == task_structures_pos
<1>1. PICK a \in Attribute, entry \in {"user", "reap"} :
        /\ create_at_boot(a, entry)
        /\ n = IdleTask => a.priority = TASKPRIO_IDLE
        /\ entry = "reap" <=> n = IdleTask
        /\ started' <=> n = IdleTask
        /\ n <= IdleTask /\ started' \in BOOLEAN
  <2>1. CASE MainCreate
    <3>1. n \in Nat /\ n < Len(MainAttrs) /\ n # IdleTask
      BY <2>1, LenProperties, MainAttrsAssumption DEF MainCreate, IdleTask, IndInv, TypeOK
    <3>2. MainAttrs[n + 1] \in Attribute
      BY <3>1, MainAttrsAssumption
    <3>3. started' = FALSE
      BY <2>1 DEF MainCreate, IndInv, TypeOK
    <3>4. create_at_boot(MainAttrs[n + 1], "user")
      BY <2>1 DEF MainCreate
    <3>5. n <= IdleTask
      BY <3>1, IdleIsTask DEF IdleTask
    <3> QED BY <3>1, <3>2, <3>3, <3>4, <3>5
  <2>2. CASE task_schedule
    <3>1. [priority |-> TASKPRIO_IDLE, sched_method |-> "RR"] \in Attribute
      BY DEF Attribute, TASKPRIO_IDLE, Priority, SchedMethod
    <3>2. n = IdleTask /\ n <= IdleTask
      BY <2>2, IdleIsTask DEF task_schedule, IdleTask
    <3>3. started' = TRUE
          /\ create_at_boot([priority |-> TASKPRIO_IDLE, sched_method |-> "RR"], "reap")
      BY <2>2 DEF task_schedule
    <3> QED BY <3>1, <3>2, <3>3
  <2> QED BY <2>1, <2>2
<1>2. ~started
  BY DEF MainCreate, task_schedule
<1>3. /\ n \in Task /\ n \in Nat /\ n < TASK_MAX_NUM
  BY <1>1, TaskAssumption, MainAttrsAssumption, LenProperties DEF IdleTask, IndInv, TypeOK
<1>4. /\ ~pendsv /\ task_suspended_count = 0
      /\ kernel_current_task = NoTask <=> n = 0
      /\ \A t \in Task : pc[t] \in {"unused", "user"}
  BY <1>2 DEF IndInv, Boot
<1>5. pc[n] = "unused" /\ ~in_use[n]
  BY <1>3 DEF IndInv, Slots
<1>6. /\ in_use' = [in_use EXCEPT ![n] = TRUE]
      /\ task_structures_pos' = n + 1
      /\ attr' = [attr EXCEPT ![n] = a]
      /\ ready' = tasklist_append(ready, a.priority, n)
      /\ kernel_current_task' = IF kernel_current_task = NoTask THEN n ELSE kernel_current_task
      /\ pc' = [pc EXCEPT ![n] = entry]
      /\ kernel_ticks' = kernel_ticks /\ blocked_curr' = blocked_curr
      /\ blocked_next' = blocked_next /\ ready_switch_next' = ready_switch_next
      /\ task_suspended_count' = task_suspended_count /\ pendsv' = pendsv
      /\ ret' = ret /\ resume_time' = resume_time /\ prev_wake_time' = prev_wake_time
      /\ new_task' = new_task /\ to_delete_task_list' = to_delete_task_list
  BY <1>1, <1>3 DEF create_at_boot, task_new_task_struct
<1>7. /\ attr \in [Task -> Attribute] /\ in_use \in [Task -> BOOLEAN] /\ pc \in [Task -> Step]
      /\ kernel_current_task \in Task \union {NoTask} /\ started \in BOOLEAN
  BY DEF IndInv, TypeOK, KernelTypeOK
<1> HIDE DEF n
<1>8. /\ attr' \in [Task -> Attribute] /\ attr'[n] = a
      /\ \A u \in Task \ {n} : attr'[u] = attr[u]
      /\ in_use' \in [Task -> BOOLEAN] /\ in_use'[n]
      /\ \A u \in Task \ {n} : in_use'[u] = in_use[u]
      /\ pc' \in [Task -> Step] /\ pc'[n] = entry
      /\ \A u \in Task \ {n} : pc'[u] = pc[u]
  BY <1>1, <1>3, <1>6, <1>7 DEF Step
<1> DEFINE p == a.priority
<1>9. p \in Priority
  BY <1>1 DEF Attribute
<1>10. /\ ready \in ReadyType /\ Exact(ready)
       /\ blocked_curr \in Seq(Sleeper) /\ blocked_next \in Seq(Sleeper)
       /\ to_delete_task_list \in Seq(Task)
       /\ Injective(Places)
  BY ListFacts DEF IndInv
<1>11. ready' = tasklist_append(ready, p, n)
  BY <1>6
<1> HIDE DEF p
<1>12. ready' \in ReadyType /\ Exact(ready')
  BY <1>3, <1>9, <1>10, <1>11, AppendReady
<1>13. Appended(ready', ready, p, n)
  BY <1>3, <1>9, <1>10, <1>11, AppendReadyTasks
<1>14. kernel_current_task' \in Task
  BY <1>3, <1>6, <1>7
<1>15. TypeOK'
  <2>1. task_structures_pos' \in 0 .. TASK_MAX_NUM
    BY <1>3, <1>6, TaskAssumption
  <2> QED BY <1>1, <1>6, <1>8, <1>12, <1>14, <2>1 DEF IndInv, TypeOK, KernelTypeOK, ReadyType
<1>16. BitmapExact'
  BY <1>12 DEF BitmapExact, Exact
<1>17. ReadyAtOwnPriority'
  <2>1. ASSUME NEW q \in Priority, NEW u \in Range(ready'.list[q])
        PROVE  attr'[u].priority = q
    <3>1. CASE u = n
      <4>1. n \notin Range(ready.list[q])
        BY <1>5, ReadyIsCreated
      <4> QED BY <1>8, <1>13, <3>1, <4>1 DEF Appended, p
    <3>2. CASE u # n
      <4>1. u \in Range(ready.list[q])
        BY <1>13, <3>2 DEF Appended
      <4>2. u \in Task /\ attr[u].priority = q
        BY <4>1, ReadyIsCreated DEF IndInv, ReadyAtOwnPriority, ReadyTasks
      <4> QED BY <1>8, <3>2, <4>2
    <3> QED BY <3>1, <3>2
  <2> QED BY <2>1 DEF ReadyAtOwnPriority, ReadyTasks
<1>18. OnePlace'
  <2>1. n \notin In(Places)
    BY <1>3, <1>5 DEF IndInv, OnePlace
  <2>2. Places' = PlacesOf(ready', blocked_curr, blocked_next, to_delete_task_list)
    BY <1>6 DEF Places
  <2>3. Injective(Places') /\ In(Places') = In(Places) \union {n}
    BY <1>3, <1>9, <1>10, <1>11, <2>1, <2>2, ReadyPlace DEF Places
  <2>4. \A u \in Task : pc'[u] # "unused" <=> pc[u] # "unused" \/ u = n
    BY <1>1, <1>8
  <2> QED BY <2>3, <2>4 DEF IndInv, OnePlace
<1>19. CurrentIsFront'
  <2>1. CASE kernel_current_task = NoTask
    <3>1. kernel_current_task' = n /\ n = 0 /\ CurrentPriority' = p
      BY <1>4, <1>6, <1>8, <2>1 DEF CurrentPriority, p
    <3>2. ready.list[p] = <<>>
      <4>1. \A u \in Task : pc[u] = "unused"
        BY <1>4, <3>1, TaskIsNat DEF IndInv, Slots, n
      <4>2. Range(ready.list[p]) = {}
        BY <1>9, <4>1, ReadyIsCreated
      <4>3. ready.list[p] \in Seq(Task)
        BY <1>9, <1>10 DEF ReadyType
      <4>4. ASSUME ready.list[p] # <<>> PROVE FALSE
        BY <4>2, <4>3, <4>4, TailRange
      <4> QED BY <4>4
    <3>3. ready'.list[p] = Append(<<>>, n)
      BY <1>3, <1>9, <1>10, <1>11, <3>2, AppendReady
    <3>4. ready'.list[p] # <<>> /\ Head(ready'.list[p]) = n
      BY <3>3
    <3> QED BY <3>1, <3>4 DEF CurrentIsFront, tasklist_get_front_task
  <2>2. CASE kernel_current_task # NoTask
    <3>1. kernel_current_task' = kernel_current_task /\ kernel_current_task \in Task
      BY <1>6, <1>7, <2>2
    <3>2. tasklist_get_front_task(ready, CurrentPriority) = kernel_current_task
      BY <1>4, <2>2, <3>1 DEF IndInv, CurrentIsFront
    <3>3. ready.list[CurrentPriority] # <<>> /\ Head(ready.list[CurrentPriority]) = kernel_current_task
      BY <2>2, <3>2 DEF tasklist_get_front_task
    <3>4. CurrentPriority \in Priority
      BY <1>7, <3>1 DEF CurrentPriority, Attribute
    <3>5. kernel_current_task # n
      <4>1. ready.list[CurrentPriority] \in Seq(Task)
        BY <1>10, <3>4 DEF ReadyType
      <4>2. kernel_current_task \in Range(ready.list[CurrentPriority])
        BY <3>3, <4>1, TailRange
      <4> QED BY <1>5, <3>4, <4>2, ReadyIsCreated
    <3>6. CurrentPriority' = CurrentPriority
      BY <1>8, <3>1, <3>5 DEF CurrentPriority
    <3>7. ready'.list[CurrentPriority] # <<>>
          /\ Head(ready'.list[CurrentPriority]) = kernel_current_task
      BY <1>13, <3>3, <3>4 DEF Appended
    <3> QED BY <3>1, <3>6, <3>7 DEF CurrentIsFront, tasklist_get_front_task
  <2> QED BY <2>1, <2>2
<1>20. IdleReady'
  <2> SUFFICES ASSUME started' PROVE IdleTask \in Range(ready'.list[TASKPRIO_IDLE])
    BY DEF IdleReady, ReadyTasks
  <2>1. n = IdleTask /\ p = TASKPRIO_IDLE
    BY <1>1 DEF n, p
  <2> QED BY <1>13, <2>1 DEF Appended
<1>21. DeletedNeverRuns'
  BY <1>1, <1>4, <1>8 DEF DeletedNeverRuns
<1>22. Boot'
  <2>1. ~started' => /\ task_structures_pos' <= IdleTask
                     /\ kernel_current_task' # NoTask /\ task_structures_pos' # 0
                     /\ \A t \in Task : pc'[t] \in {"unused", "user"}
    <3>1. kernel_current_task' # NoTask
      BY <1>14, TaskIsNat
    <3>2. task_structures_pos' # 0 /\ (n # IdleTask /\ n <= IdleTask => n + 1 <= IdleTask)
      BY <1>3, <1>6, IdleIsTask
    <3>3. ~started' => entry = "user" /\ n # IdleTask /\ n <= IdleTask
      BY <1>1 DEF n
    <3> QED BY <1>4, <1>6, <1>8, <3>1, <3>2, <3>3
  <2>2. started' => task_structures_pos' > IdleTask /\ pc'[kernel_current_task'] # "unused"
    <3>1. started' => task_structures_pos' > IdleTask
      BY <1>1, <1>3, <1>6, IdleIsTask DEF n
    <3>2. pc'[kernel_current_task'] # "unused"
      <4>1. CASE kernel_current_task = NoTask
        BY <1>1, <1>6, <1>8, <4>1
      <4>2. CASE kernel_current_task # NoTask
        <5>1. kernel_current_task' = kernel_current_task /\ kernel_current_task \in Task
          BY <1>6, <1>7, <4>2
        <5>2. pc[kernel_current_task] # "unused"
          <6>1. tasklist_get_front_task(ready, CurrentPriority) = kernel_current_task
            BY <1>4, <4>2, <5>1 DEF IndInv, CurrentIsFront
          <6>2. CurrentPriority \in Priority
            BY <1>7, <5>1 DEF CurrentPriority, Attribute
          <6>3. ready.list[CurrentPriority] \in Seq(Task)
            BY <1>10, <6>2 DEF ReadyType
          <6>4. kernel_current_task \in Range(ready.list[CurrentPriority])
            BY <4>2, <6>1, <6>3, TailRange DEF tasklist_get_front_task
          <6> QED BY <6>2, <6>4, ReadyIsCreated
        <5> QED BY <1>1, <1>8, <5>1, <5>2
      <4> QED BY <4>1, <4>2
    <3> QED BY <3>1, <3>2
  <2> QED BY <1>4, <1>6, <1>14, <2>1, <2>2 DEF Boot
<1>23. Slots'
  <2>1. \A u \in Task : u >= task_structures_pos' => u >= n /\ u # n
    BY <1>3, <1>6, TaskIsNat
  <2> QED BY <1>8, <2>1 DEF IndInv, Slots, n
<1>24. Idle'
  <2>1. started' => pc'[IdleTask] = "reap"
    BY <1>1, <1>8 DEF n
  <2>2. \A u \in Task : u # IdleTask => pc'[u] \notin {"reap", "poll"} /\ ret'[u] # "reap"
    <3>1. entry = "reap" => n = IdleTask
      BY <1>1 DEF n
    <3> QED BY <1>1, <1>6, <1>8, <3>1 DEF IndInv, Idle
  <2> QED BY <2>1, <2>2 DEF Idle
<1>25. \A u \in Task : pc'[u] \notin {"append", "check", "block", "yield", "deleted", "suspended"}
  BY <1>1, <1>4, <1>8
<1>26. Allocated'
  BY <1>25 DEF Allocated
<1>27. Leaving'
  <2>1. \A u \in Task : u \notin Range(to_delete_task_list)
    BY <1>4 DEF IndInv, Leaving
  <2> QED BY <1>6, <1>25, <2>1 DEF Leaving
<1>28. Suspended'
  BY <1>4, <1>6, <1>25 DEF Suspended
<1> QED BY <1>15, <1>16, <1>17, <1>18, <1>19, <1>20, <1>21, <1>22, <1>23, <1>24, <1>26,
           <1>27, <1>28 DEF IndInv

-----------------------------------------------------------------------------
(* The theorems *)

\* Every step of main(), of a task, of SysTick and of PendSV preserves the
\* invariant.
LEMMA NextInv == IndInv /\ [Next]_vars => IndInv'
<1> SUFFICES ASSUME IndInv, [Next]_vars PROVE IndInv'
  OBVIOUS
<1>1. CASE MainCreate \/ task_schedule
  BY <1>1, BootInv
<1>2. CASE TickInterrupt
  BY <1>2, TickInterruptInv
<1>3. CASE ContextSwitch
  BY <1>3, ContextSwitchInv
<1>4. ASSUME NEW t \in Task, TaskStep(t) PROVE IndInv'
  <2>1. CASE \/ \E ticks \in SleepTicks : task_sleep(t, ticks)
             \/ \E interval \in Intervals : task_sleep_until(t, interval)
             \/ ReadTick(t) \/ CheckTimeout(t) \/ CallYield(t) \/ SetPrevWake(t) \/ Poll(t)
    BY <2>1, ControlStepInv
  <2>2. CASE Block(t)
    BY <2>2, BlockInv
  <2>3. CASE Yield(t)
    BY <2>3, YieldInv
  <2>4. CASE task_delete_later(t)
    BY <2>4, DeleteInv
  <2>5. CASE \E a \in NewAttrs : task_create(t, a)
    BY <2>5, CreateInv
  <2>6. CASE AppendNewTask(t)
    BY <2>6, AppendNewTaskInv
  <2>7. CASE task_suspend_all(t) \/ task_resume_all(t)
    BY <2>7, SuspendInv
  <2>8. CASE Reap(t)
    BY <2>8, ReapInv
  <2> QED BY <1>4, <2>1, <2>2, <2>3, <2>4, <2>5, <2>6, <2>7, <2>8 DEF TaskStep
<1>5. CASE UNCHANGED vars
  BY <1>5 DEF IndInv, vars, kernelVars, taskVars, TypeOK, KernelTypeOK, BitmapExact,
       ReadyAtOwnPriority, ReadyTasks, OnePlace, Places, CurrentIsFront, CurrentPriority,
       IdleReady, DeletedNeverRuns, Boot, Slots, Idle, Allocated, Leaving, Suspended
<1> QED BY <1>1, <1>2, <1>3, <1>4, <1>5 DEF Next

\* IndInv holds in every state of every run of the scheduler.
THEOREM Invariance == Spec => []IndInv
<1>1. Init => IndInv
  BY InitInv
<1>2. IndInv /\ [Next]_vars => IndInv'
  BY NextInv
<1> QED BY <1>1, <1>2, PTL DEF Spec

\* The variables keep their types: no list holds anything but tasks, the tick
\* count stays below its modulus, the count of the suspensions never falls
\* below 0 and task_structures_pos never passes the end of the array.
THEOREM TypeCorrect == Spec => []TypeOK
<1>1. IndInv => TypeOK
  BY DEF IndInv
<1> QED BY <1>1, Invariance, PTL

\* The bitmap of the ready lists is exact between any two steps.
THEOREM BitmapAlwaysExact == Spec => []BitmapExact
<1>1. IndInv => BitmapExact
  BY DEF IndInv
<1> QED BY <1>1, Invariance, PTL

\* No task is ever lost, and none is in two lists.
THEOREM AlwaysOnePlace == Spec => []OnePlace
<1>1. IndInv => OnePlace
  BY DEF IndInv
<1> QED BY <1>1, Invariance, PTL

\* The task that is removed by task_do_sleep and task_delete_later, the front
\* one, is the one that called.
THEOREM CallerIsFront == Spec => []CurrentIsFront
<1>1. IndInv => CurrentIsFront
  BY DEF IndInv
<1> QED BY <1>1, Invariance, PTL

\* There is always a task to run.
THEOREM IdleAlwaysReady == Spec => []IdleReady
<1>1. IndInv => IdleReady
  BY DEF IndInv
<1> QED BY <1>1, Invariance, PTL

\* A task that has deleted itself does not run again, and the stack of the
\* running task has not been freed.
THEOREM DeletedTasksAreDead == Spec => [](DeletedNeverRuns /\ StackAlive)
<1>1. IndInv => DeletedNeverRuns
  BY DEF IndInv
<1>2. IndInv => StackAlive
  BY DEF IndInv, Boot, Slots, StackAlive
<1> QED BY <1>1, <1>2, Invariance, PTL

\* Nothing takes the CPU from a task that has suspended the scheduler.
THEOREM SuspensionHolds == Spec => SuspendedNoSwitch
<1>1. IndInv /\ [Next]_vars =>
        [task_suspended_count > 0 => kernel_current_task' = kernel_current_task]_vars
  <2> SUFFICES ASSUME IndInv, Next, task_suspended_count > 0
               PROVE  kernel_current_task' = kernel_current_task
    OBVIOUS
  <2>1. started /\ ~pendsv
    BY DEF IndInv, Suspended
  <2>2. ~MainCreate /\ ~task_schedule /\ ~ContextSwitch
    BY <2>1 DEF MainCreate, task_schedule, ContextSwitch, PendSV
  <2>3. CASE TickInterrupt
    BY <2>3 DEF TickInterrupt, SysTick
  <2>4. ASSUME NEW t \in Task, TaskStep(t)
        PROVE  kernel_current_task' = kernel_current_task
    BY <2>4 DEF TaskStep, task_sleep, task_sleep_until, ReadTick, CheckTimeout, Block,
         CallYield, Yield, SetPrevWake, task_delete_later, task_create, AppendNewTask,
         task_suspend_all, task_resume_all, Reap, Poll, kernelVars
  <2> QED BY <2>2, <2>3, <2>4 DEF Next
<1> QED BY <1>1, Invariance, PTL DEF Spec, SuspendedNoSwitch

-----------------------------------------------------------------------------
(* The sleeps *)


\* What tick_after can tell from a sleep that is over.  task_sleep_until asks
\* for no more, as Distance is never more.
ShortSleeps == \A ticks \in SleepTicks : 2 * ticks <= TickMod

\* The nodes of the blocked lists.
Entries == Range(blocked_curr) \union Range(blocked_next)

\* A sleep until the tick after r is as long as t still has to sleep.
OnTime(r, t) == left[t] > 0 => (r - kernel_ticks) % TickMod = left[t] - 1

InSleep == {"check", "block"}

LeftShort == left \in [Task -> Int] /\ \A t \in Task : 2 * left[t] <= TickMod
EntriesOnTime == \A e \in Entries : OnTime(e.resume_time, e.task)
CallsOnTime == \A t \in Task : pc[t] \in InSleep => OnTime(resume_time[t], t)
LeftSleeps == \A t \in Task : left[t] > 0 => pc[t] \in InSleep \/ t \in Sleeping

\* With IndInv this is inductive.
TimeInd == LeftShort /\ EntriesOnTime /\ CallsOnTime /\ LeftSleeps

-----------------------------------------------------------------------------
(* Tick counts that wrap *)

\* A tick brings a time that is at least one tick away one tick nearer.
LEMMA Nearer ==
  ASSUME NEW r \in Int, NEW now \in Int, NEW d \in Tick, d > 0,
         (r - now) % TickMod = d
  PROVE  (r - ((now + 1) % TickMod)) % TickMod = d - 1
<1>0. r - now \in Int
  OBVIOUS
<1>1. PICK q \in Int : r - now = (q * TickMod) + d
  BY <1>0, Divided, TickModAssumption
<1>2. r - (now + 1) = (q * TickMod) + (d - 1) /\ r - (now + 1) \in Int /\ d - 1 \in Tick
  BY <1>1, Multiple, TickModAssumption DEF Tick
<1>3. (r - (now + 1)) % TickMod = d - 1
  BY <1>2, ModUnique, TickModAssumption DEF Tick
<1>4. now + 1 \in Int
  OBVIOUS
<1> QED BY <1>3, <1>4, ModDiff, TickModAssumption

\* tick_after does not take a time to come for one that is over, if it comes
\* in no more than half the range of the tick count.
LEMMA NotOver ==
  ASSUME NEW r, NEW now, NEW n \in Int, 2 * n <= TickMod,
         (r - now) % TickMod = n - 1
  PROVE  ~tick_after(now, r)
<1>1. 2 * (n - 1) < TickMod /\ TickMod \in Int
  BY TickModAssumption
<1> QED BY <1>1, TickModAssumption DEF tick_after

-----------------------------------------------------------------------------
(* The nodes of the blocked lists *)

\* The tasks that sleep are those of the nodes of the two lists.
LEMMA NodesSleep ==
  ASSUME NEW curr, NEW next
  PROVE  SleepersOf(curr) \union SleepersOf(next) = {e.task : e \in Range(curr) \union Range(next)}
BY DEF SleepersOf, Range

\* The types of the nodes.
LEMMA EntryType == IndInv => Entries \subseteq Sleeper
<1>1. ASSUME NEW list \in Seq(Sleeper) PROVE Range(list) \subseteq Sleeper
  BY DEF Range
<1> QED BY <1>1 DEF Entries, IndInv, TypeOK, KernelTypeOK

\* The nodes of a list after an insertion.
LEMMA InsertRange ==
  ASSUME NEW list \in Seq(Sleeper), NEW e \in Sleeper,
         NEW new, new = task_insert_blocked_list(list, e)
  PROVE  Range(new) = Range(list) \union {e}
<1>1. new \in Seq(Sleeper)
  BY InsertBlocked
<1>2. PICK n \in 1 .. Len(list) + 1 : IsInsert(new, list, n, e)
  BY InsertBlocked
<1>3. /\ Len(list) \in Nat /\ DOMAIN list = 1 .. Len(list)
      /\ Len(new) = Len(list) + 1 /\ DOMAIN new = 1 .. Len(list) + 1
      /\ \A k \in 1 .. Len(list) + 1 :
           new[k] = IF k < n THEN list[k] ELSE IF k = n THEN e ELSE list[k - 1]
  BY <1>1, <1>2 DEF IsInsert
<1>4. ASSUME NEW k \in DOMAIN new PROVE new[k] \in Range(list) \union {e}
  <2>1. CASE k < n
    BY <1>3, <2>1 DEF Range
  <2>2. CASE k = n
    BY <1>3, <2>2
  <2>3. CASE k > n
    <3>1. k - 1 \in DOMAIN list /\ new[k] = list[k - 1]
      BY <1>3, <2>3
    <3> QED BY <3>1 DEF Range
  <2> QED BY <1>3, <2>1, <2>2, <2>3
<1>5. ASSUME NEW k \in DOMAIN list PROVE list[k] \in Range(new)
  <2>1. CASE k < n
    <3>1. k \in DOMAIN new /\ new[k] = list[k]
      BY <1>3, <2>1
    <3> QED BY <3>1 DEF Range
  <2>2. CASE k >= n
    <3>1. k + 1 \in DOMAIN new /\ new[k + 1] = list[k]
      BY <1>3, <2>2
    <3> QED BY <3>1 DEF Range
  <2> QED BY <1>3, <2>1, <2>2
<1>6. e \in Range(new)
  <2>1. n \in DOMAIN new /\ new[n] = e
    BY <1>3
  <2> QED BY <2>1 DEF Range
<1> QED BY <1>4, <1>5, <1>6 DEF Range

\* A task that executes a function of the kernel does not sleep.
LEMMA CallerAwake ==
  ASSUME IndInv, NEW t \in Task, NEW step, AtStep(t, step), step # "yield"
  PROVE  t \notin Sleeping
<1> DEFINE p == CurrentPriority
<1>1. p \in Priority /\ ready.list[p] # <<>> /\ Head(ready.list[p]) = t
  BY FrontFacts
<1>2. /\ ready \in ReadyType
      /\ blocked_curr \in Seq(Sleeper) /\ blocked_next \in Seq(Sleeper)
      /\ to_delete_task_list \in Seq(Task)
      /\ Injective(Places)
  BY ListFacts DEF IndInv
<1>3. IsPlaces(Places, ready, blocked_curr, blocked_next, to_delete_task_list)
  BY <1>2, PlacesOfType DEF Places
<1>4. /\ p \in PlaceName /\ Places[p] = ready.list[p] /\ p \notin {CURR, NEXT}
      /\ Places[CURR] = TasksOf(blocked_curr) /\ CURR \in PlaceName
      /\ Places[NEXT] = TasksOf(blocked_next) /\ NEXT \in PlaceName
  BY <1>1, <1>3, PlaceNames DEF IsPlaces, Priority, CURR, NEXT, PlaceName
<1>5. 1 \in DOMAIN Places[p] /\ Places[p][1] = t
  <2>1. ready.list[p] \in Seq(Task)
    BY <1>1, <1>2 DEF ReadyType
  <2> QED BY <1>1, <1>4, <2>1
<1> HIDE DEF p
<1>6. ASSUME NEW i \in DOMAIN blocked_curr, blocked_curr[i].task = t PROVE FALSE
  <2>1. i \in DOMAIN Places[CURR] /\ Places[CURR][i] = t
    BY <1>4, <1>6 DEF TasksOf
  <2> QED BY <1>2, <1>4, <1>5, <2>1 DEF Injective
<1>7. ASSUME NEW i \in DOMAIN blocked_next, blocked_next[i].task = t PROVE FALSE
  <2>1. i \in DOMAIN Places[NEXT] /\ Places[NEXT][i] = t
    BY <1>4, <1>7 DEF TasksOf
  <2> QED BY <1>2, <1>4, <1>5, <2>1 DEF Injective
<1> QED BY <1>6, <1>7 DEF Sleeping, SleepersOf

\* The atomic block of task_do_sleep adds the caller with its resume_time.
LEMMA BlockEntries ==
  ASSUME IndInv, NEW t \in Task, Block(t)
  PROVE  Entries' = Entries \union {[task |-> t, resume_time |-> resume_time[t]]}
<1> DEFINE e == [task |-> t, resume_time |-> resume_time[t]]
<1>1. AtStep(t, "block") /\ sleep_front(resume_time[t])
  BY DEF Block
<1>2. tasklist_get_front_task(ready, CurrentPriority) = t /\ t # NoTask
  BY <1>1, FrontFacts, TaskIsNat
<1>3. \/ /\ blocked_curr' = task_insert_blocked_list(blocked_curr, e)
         /\ blocked_next' = blocked_next
      \/ /\ blocked_curr' = blocked_curr
         /\ blocked_next' = task_insert_blocked_list(blocked_next, e)
  BY <1>1, <1>2 DEF sleep_front
<1>4. e \in Sleeper /\ blocked_curr \in Seq(Sleeper) /\ blocked_next \in Seq(Sleeper)
  BY DEF IndInv, TypeOK, KernelTypeOK, Sleeper
<1> HIDE DEF e
<1>5. CASE /\ blocked_curr' = task_insert_blocked_list(blocked_curr, e)
           /\ blocked_next' = blocked_next
  <2>1. Range(blocked_curr') = Range(blocked_curr) \union {e}
    BY <1>4, <1>5, InsertRange
  <2> QED BY <1>5, <2>1 DEF Entries, e
<1>6. CASE /\ blocked_curr' = blocked_curr
           /\ blocked_next' = task_insert_blocked_list(blocked_next, e)
  <2>1. Range(blocked_next') = Range(blocked_next) \union {e}
    BY <1>4, <1>6, InsertRange
  <2> QED BY <1>6, <2>1 DEF Entries, e
<1> QED BY <1>3, <1>5, <1>6

\* A tick removes no sleeper but the front one of the current cycle, and that one
\* only if it has timed out.
LEMMA TickEntries ==
  ASSUME IndInv, TickInterrupt
  PROVE  /\ Entries' \subseteq Entries
         /\ \A e \in Entries \ Entries' : timed_out /\ e = Head(blocked_curr)
<1>1. blocked_curr \in Seq(Sleeper) /\ blocked_next \in Seq(Sleeper)
  BY DEF IndInv, TypeOK, KernelTypeOK
<1>2. Entries' = Range(still_blocked) \union Range(blocked_next)
  BY DEF TickInterrupt, SysTick, Entries
<1>3. CASE ~timed_out
  BY <1>2, <1>3 DEF still_blocked, Entries
<1>4. CASE timed_out
  <2>1. blocked_curr # <<>> /\ still_blocked = Tail(blocked_curr)
    BY <1>4 DEF timed_out, still_blocked
  <2>2. /\ Range(Tail(blocked_curr)) \subseteq Range(blocked_curr)
        /\ \A e \in Range(blocked_curr) :
             e # Head(blocked_curr) => e \in Range(Tail(blocked_curr))
    BY <1>1, <2>1, TailRange
  <2> QED BY <1>2, <1>4, <2>1, <2>2 DEF Entries
<1> QED BY <1>3, <1>4

-----------------------------------------------------------------------------
(* The steps *)

\* What a tick does to the ticks a task still has to sleep.
LEMMA CountFalls ==
  ASSUME LeftShort, TimedTick, NEW t \in Task
  PROVE  /\ left'[t] \in Int /\ 2 * left'[t] <= TickMod
         /\ left'[t] > 0 => left'[t] = left[t] - 1
<1> DEFINE a == left[t] - 1
           b == -MaxCount
<1>1. left[t] \in Int /\ 2 * left[t] <= TickMod /\ TickMod \in Nat /\ MaxCount \in Nat
  BY TickModAssumption, TimingAssumption DEF LeftShort
<1>2. Max({a, b}) \in {a, b}
  <2>1. \E x \in {a, b} : \A y \in {a, b} : x >= y
    BY <1>1
  <2> QED BY <2>1 DEF Max
<1>3. left'[t] = CountDown(t)
  BY DEF TimedTick
<1>4. CASE left[t] > 0
  BY <1>1, <1>3, <1>4 DEF CountDown
<1>5. CASE left[t] <= 0
  <2>1. left'[t] \in {a, b, 0}
    BY <1>1, <1>2, <1>3, <1>5 DEF CountDown
  <2> QED BY <1>1, <1>5, <2>1
<1> QED BY <1>1, <1>4, <1>5

\* A tick: every sleep is one tick shorter, and the sleeper that is woken is none
\* that still has to sleep.
LEMMA TickKeeps ==
  ASSUME IndInv, TimeInd, TimedTick
  PROVE  TimeInd'
<1>1. /\ TickInterrupt /\ kernel_ticks \in Int
      /\ kernel_ticks' = (kernel_ticks + 1) % TickMod /\ next_tick = kernel_ticks'
      /\ pc' = pc /\ resume_time' = resume_time
      /\ resume_time \in [Task -> Tick]
      /\ left' = [t \in Task |-> CountDown(t)]
  BY TickModAssumption
     DEF TimedTick, TickInterrupt, SysTick, next_tick, taskVars, IndInv, TypeOK, KernelTypeOK, Tick
<1>2. LeftShort /\ left \in [Task -> Int] /\ \A t \in Task : 2 * left[t] <= TickMod
  BY DEF TimeInd, LeftShort
<1>3. LeftShort'
  <2>1. \A t \in Task : left'[t] \in Int /\ 2 * left'[t] <= TickMod
    BY <1>2, CountFalls
  <2> QED BY <1>1, <2>1 DEF LeftShort
<1>4. ASSUME NEW r \in Tick, NEW t \in Task, OnTime(r, t)
      PROVE  left'[t] > 0 => (r - kernel_ticks') % TickMod = left'[t] - 1
  <2> SUFFICES ASSUME left'[t] > 0 PROVE (r - kernel_ticks') % TickMod = left'[t] - 1
    OBVIOUS
  <2> DEFINE d == left[t] - 1
  <2>1. left'[t] = d /\ left'[t] \in Int /\ left[t] \in Int
    BY <1>2, CountFalls
  <2>2. d \in Tick /\ d > 0
    BY <1>2, <2>1, TickModAssumption DEF Tick
  <2>3. (r - kernel_ticks) % TickMod = d
    BY <1>4, <2>1 DEF OnTime
  <2>4. r \in Int
    BY TickModAssumption DEF Tick
  <2> HIDE DEF d
  <2>5. (r - ((kernel_ticks + 1) % TickMod)) % TickMod = d - 1
    BY <1>1, <2>2, <2>3, <2>4, Nearer
  <2> QED BY <1>1, <2>1, <2>5
<1>5. EntriesOnTime'
  <2>1. ASSUME NEW e \in Entries'
        PROVE  left'[e.task] > 0
                 => (e.resume_time - kernel_ticks') % TickMod = left'[e.task] - 1
    <3>1. e \in Entries /\ e.task \in Task /\ e.resume_time \in Tick
      BY <1>1, TickEntries, EntryType DEF Sleeper
    <3> QED BY <1>4, <3>1 DEF TimeInd, EntriesOnTime
  <2> QED BY <2>1 DEF EntriesOnTime, OnTime
<1>6. CallsOnTime'
  <2>1. ASSUME NEW t \in Task, pc[t] \in InSleep
        PROVE  left'[t] > 0 => (resume_time[t] - kernel_ticks') % TickMod = left'[t] - 1
    BY <1>1, <1>4, <2>1 DEF TimeInd, CallsOnTime
  <2> QED BY <1>1, <2>1 DEF CallsOnTime, OnTime, InSleep
<1>7. ASSUME NEW t \in Task, left'[t] > 0, pc[t] \notin InSleep PROVE t \in Sleeping'
  <2>1. left'[t] = left[t] - 1 /\ left'[t] \in Int /\ 2 * left'[t] <= TickMod /\ left[t] \in Int
    BY <1>2, <1>7, CountFalls
  <2>2. t \in Sleeping
    BY <1>7, <2>1 DEF TimeInd, LeftSleeps
  <2>3. PICK e \in Entries : e.task = t
    BY <2>2, NodesSleep DEF Sleeping, Entries
  <2>4. e.resume_time \in Tick
    BY EntryType DEF Sleeper
  <2>5. (e.resume_time - kernel_ticks') % TickMod = left'[t] - 1
    BY <1>4, <1>7, <2>3, <2>4 DEF TimeInd, EntriesOnTime
  <2>6. ~tick_after(next_tick, e.resume_time)
    BY <1>1, <2>1, <2>5, NotOver
  <2>7. e \in Entries'
    BY <1>1, <2>6, TickEntries DEF timed_out
  <2> QED BY <2>3, <2>7, NodesSleep DEF Sleeping, Entries
<1>8. LeftSleeps'
  BY <1>1, <1>7 DEF LeftSleeps, InSleep
<1> QED BY <1>3, <1>5, <1>6, <1>8 DEF TimeInd

\* A step that changes no sleep and starts or ends none keeps the invariant.
LEMMA OtherKeeps ==
  ASSUME TimeInd,
         left' = left, kernel_ticks' = kernel_ticks,
         blocked_curr' = blocked_curr, blocked_next' = blocked_next,
         \A t \in Task : /\ pc'[t] \in InSleep => pc[t] \in InSleep
                         /\ pc[t] \in InSleep => pc'[t] \in InSleep \/ left[t] <= 0
                         /\ pc'[t] \in InSleep => resume_time'[t] = resume_time[t]
  PROVE  TimeInd'
<1>1. Entries' = Entries /\ Sleeping' = Sleeping
  BY DEF Entries, Sleeping
<1>2. LeftShort' /\ EntriesOnTime'
  BY <1>1 DEF TimeInd, LeftShort, EntriesOnTime, OnTime
<1>3. CallsOnTime'
  <2>1. ASSUME NEW t \in Task, pc'[t] \in InSleep
        PROVE  left[t] > 0 => (resume_time'[t] - kernel_ticks) % TickMod = left[t] - 1
    <3>1. pc[t] \in InSleep /\ resume_time'[t] = resume_time[t]
      BY <2>1
    <3> QED BY <3>1 DEF TimeInd, CallsOnTime, OnTime
  <2> QED BY <2>1 DEF CallsOnTime, OnTime, InSleep
<1>4. LeftSleeps'
  <2>1. ASSUME NEW t \in Task, left[t] > 0 PROVE pc'[t] \in InSleep \/ t \in Sleeping
    <3>1. left[t] \in Int
      BY DEF TimeInd, LeftShort
    <3>2. pc[t] \in InSleep => pc'[t] \in InSleep
      BY <2>1, <3>1
    <3> QED BY <2>1, <3>2 DEF TimeInd, LeftSleeps
  <2> QED BY <1>1, <2>1 DEF LeftSleeps, InSleep
<1> QED BY <1>2, <1>3, <1>4 DEF TimeInd

\* A call: the resume_time it computes is as far away as it has to be.
LEMMA CallKeeps ==
  ASSUME IndInv, TimeInd, NEW t \in Task, AtStep(t, "user"), NEW n \in Int,
         2 * n <= TickMod, left' = [left EXCEPT ![t] = n],
         kernel_ticks' = kernel_ticks, blocked_curr' = blocked_curr,
         blocked_next' = blocked_next, pc' = [pc EXCEPT ![t] = "check"],
         \A u \in Task \ {t} : resume_time'[u] = resume_time[u],
         n > 0 => (resume_time'[t] - kernel_ticks) % TickMod = n - 1
  PROVE  TimeInd'
<1>1. Entries' = Entries /\ Sleeping' = Sleeping /\ t \notin Sleeping
  BY CallerAwake DEF Entries, Sleeping
<1>2. /\ left \in [Task -> Int] /\ \A u \in Task : 2 * left[u] <= TickMod
      /\ pc \in [Task -> Step]
  BY DEF TimeInd, LeftShort, IndInv, TypeOK
<1>3. /\ left'[t] = n /\ pc'[t] = "check"
      /\ \A u \in Task \ {t} : left'[u] = left[u] /\ pc'[u] = pc[u]
      /\ left' \in [Task -> Int]
  BY <1>2
<1>4. LeftShort'
  BY <1>2, <1>3 DEF LeftShort
<1>5. EntriesOnTime'
  <2>1. \A e \in Entries : e.task \in Task \ {t}
    BY <1>1, EntryType, NodesSleep DEF Sleeper, Sleeping, Entries
  <2> QED BY <1>1, <1>3, <2>1 DEF TimeInd, EntriesOnTime, OnTime
<1>6. CallsOnTime'
  BY <1>3 DEF TimeInd, CallsOnTime, OnTime, InSleep
<1>7. LeftSleeps'
  BY <1>1, <1>3 DEF TimeInd, LeftSleeps, InSleep
<1> QED BY <1>4, <1>5, <1>6, <1>7 DEF TimeInd

\* task_sleep and task_sleep_until.
LEMMA CallsKeep ==
  ASSUME ShortSleeps, IndInv, TimeInd, NEW t \in Task, TimedSleep(t) \/ TimedSleepUntil(t)
  PROVE  TimeInd'
<1>1. /\ kernel_ticks \in Int /\ prev_wake_time[t] \in Int
      /\ resume_time \in [Task -> Tick] /\ TickMod \in Nat
  BY TickModAssumption DEF IndInv, TypeOK, KernelTypeOK, Tick
<1>2. ASSUME NEW ticks \in SleepTicks, task_sleep(t, ticks),
             left' = [left EXCEPT ![t] = ticks]
      PROVE  TimeInd'
  <2> DEFINE at == kernel_ticks + ticks - 1
  <2>1. ticks \in Tick /\ ticks \in Int /\ 2 * ticks <= TickMod
    BY ArgumentsAssumption, TickModAssumption DEF ShortSleeps, Tick
  <2>2. /\ AtStep(t, "user") /\ resume_time'[t] = at % TickMod
        /\ pc' = [pc EXCEPT ![t] = "check"]
        /\ kernel_ticks' = kernel_ticks
        /\ blocked_curr' = blocked_curr /\ blocked_next' = blocked_next
        /\ \A u \in Task \ {t} : resume_time'[u] = resume_time[u]
    BY <1>1, <1>2 DEF task_sleep, Goto, kernelVars
  <2>3. ASSUME ticks > 0 PROVE (resume_time'[t] - kernel_ticks) % TickMod = ticks - 1
    <3>1. at \in Int /\ at - kernel_ticks = ticks - 1 /\ ticks - 1 \in Tick
      BY <1>1, <2>1, <2>3 DEF Tick
    <3> HIDE DEF at
    <3>2. ((at % TickMod) - kernel_ticks) % TickMod = (at - kernel_ticks) % TickMod
      BY <1>1, <3>1, ModDiff, TickModAssumption
    <3> QED BY <2>2, <3>1, <3>2, ModSmall, TickModAssumption DEF Tick
  <2> HIDE DEF at
  <2> QED BY <1>2, <2>1, <2>2, <2>3, CallKeeps
<1>3. ASSUME NEW interval \in Intervals, task_sleep_until(t, interval),
             NEW ticks, ticks = Distance(prev_wake_time[t] + interval),
             left' = [left EXCEPT ![t] = ticks]
      PROVE  TimeInd'
  <2> DEFINE target == prev_wake_time[t] + interval
             d == (target - kernel_ticks) % TickMod
             at == prev_wake_time[t] + interval - 1
  <2>1. target \in Int /\ at \in Int /\ at = target - 1
    BY <1>1, ArgumentsAssumption DEF Tick
  <2>2. ticks = IF 2 * d >= TickMod THEN d - TickMod ELSE d
    BY <1>3 DEF Distance
  <2>3. target - kernel_ticks \in Int /\ d \in Tick
    <3>1. target - kernel_ticks \in Int
      BY <1>1, <2>1
    <3> HIDE DEF target
    <3> QED BY <3>1, Divided, TickModAssumption DEF Tick
  <2>4. /\ AtStep(t, "user") /\ resume_time'[t] = at % TickMod
        /\ pc' = [pc EXCEPT ![t] = "check"]
        /\ kernel_ticks' = kernel_ticks
        /\ blocked_curr' = blocked_curr /\ blocked_next' = blocked_next
        /\ \A u \in Task \ {t} : resume_time'[u] = resume_time[u]
    BY <1>1, <1>3 DEF task_sleep_until, Goto, kernelVars
  <2> HIDE DEF at, target
  <2>5. ticks \in Int /\ 2 * ticks <= TickMod /\ (ticks > 0 => ticks = d)
    <3> HIDE DEF d
    <3> QED BY <1>1, <2>2, <2>3 DEF Tick
  <2>6. ASSUME ticks > 0 PROVE (resume_time'[t] - kernel_ticks) % TickMod = ticks - 1
    <3>1. PICK q \in Int : target - kernel_ticks = (q * TickMod) + d
      BY <2>3, Divided, TickModAssumption DEF Tick
    <3>2. d = ticks /\ ticks - 1 \in Tick
      BY <1>1, <2>3, <2>5, <2>6 DEF Tick
    <3> HIDE DEF d
    <3>3. at - kernel_ticks = (q * TickMod) + (ticks - 1) /\ at - kernel_ticks \in Int
      BY <1>1, <2>1, <2>5, <3>1, <3>2, Multiple, TickModAssumption
    <3>4. (at - kernel_ticks) % TickMod = ticks - 1
      BY <3>2, <3>3, ModUnique, TickModAssumption DEF Tick
    <3>5. ((at % TickMod) - kernel_ticks) % TickMod = (at - kernel_ticks) % TickMod
      BY <1>1, <2>1, ModDiff, TickModAssumption
    <3> QED BY <2>4, <3>4, <3>5
  <2> QED BY <1>3, <2>4, <2>5, <2>6, CallKeeps
<1> QED BY <1>2, <1>3 DEF TimedSleep, TimedSleepUntil

\* The test of task_do_sleep lets no task go that still has to sleep.
LEMMA CheckKeeps ==
  ASSUME IndInv, TimeInd, NEW t \in Task, TimedCheck(t)
  PROVE  TimeInd'
<1>1. /\ left' = left /\ CheckTimeout(t) /\ AtStep(t, "check") /\ pc[t] = "check"
      /\ kernel_ticks' = kernel_ticks /\ resume_time' = resume_time
      /\ blocked_curr' = blocked_curr /\ blocked_next' = blocked_next
      /\ pc \in [Task -> Step] /\ left[t] \in Int
  BY DEF TimedCheck, CheckTimeout, AtStep, kernelVars, IndInv, TypeOK, TimeInd, LeftShort
<1>2. pc' = [pc EXCEPT ![t] = IF tick_after(kernel_ticks, resume_time[t]) THEN "yield" ELSE "block"]
  BY <1>1 DEF CheckTimeout, Goto
<1>3. left[t] > 0 => ~tick_after(kernel_ticks, resume_time[t])
  <2> SUFFICES ASSUME left[t] > 0 PROVE ~tick_after(kernel_ticks, resume_time[t])
    OBVIOUS
  <2>1. OnTime(resume_time[t], t)
    BY <1>1 DEF TimeInd, CallsOnTime, InSleep
  <2>2. (resume_time[t] - kernel_ticks) % TickMod = left[t] - 1 /\ 2 * left[t] <= TickMod
    BY <2>1 DEF OnTime, TimeInd, LeftShort
  <2> QED BY <1>1, <2>2, NotOver
<1>4. \A u \in Task \ {t} : pc'[u] = pc[u]
  BY <1>1, <1>2
<1>5. pc'[t] \in {"yield", "block"} /\ (left[t] > 0 => pc'[t] = "block")
  BY <1>1, <1>2, <1>3
<1>6. ASSUME NEW u \in Task
      PROVE  /\ pc'[u] \in InSleep => pc[u] \in InSleep
             /\ pc[u] \in InSleep => pc'[u] \in InSleep \/ left[u] <= 0
             /\ pc'[u] \in InSleep => resume_time'[u] = resume_time[u]
  BY <1>1, <1>4, <1>5 DEF InSleep
<1> QED BY <1>1, <1>6, OtherKeeps

\* The atomic block of task_do_sleep: the sleep goes on in a blocked list.
LEMMA BlockKeeps ==
  ASSUME IndInv, TimeInd, NEW t \in Task, Block(t), left' = left
  PROVE  TimeInd'
<1> DEFINE e == [task |-> t, resume_time |-> resume_time[t]]
<1>1. /\ AtStep(t, "block") /\ pc[t] = "block" /\ pc \in [Task -> Step]
      /\ kernel_ticks' = kernel_ticks /\ resume_time' = resume_time
      /\ pc' = [pc EXCEPT ![t] = "yield"]
  BY DEF Block, AtStep, Goto, IndInv, TypeOK
<1>2. Entries' = Entries \union {e}
  BY BlockEntries
<1>3. Sleeping' = Sleeping \union {t}
  <2>1. Sleeping = {x.task : x \in Entries} /\ Sleeping' = {x.task : x \in Entries'}
    BY NodesSleep DEF Sleeping, Entries
  <2>2. e.task = t
    OBVIOUS
  <2> HIDE DEF e
  <2>3. {x.task : x \in Entries \union {e}} = {x.task : x \in Entries} \union {e.task}
    OBVIOUS
  <2> QED BY <1>2, <2>1, <2>2, <2>3
<1>4. pc'[t] = "yield" /\ \A u \in Task \ {t} : pc'[u] = pc[u]
  BY <1>1
<1>5. OnTime(resume_time[t], t)
  BY <1>1 DEF TimeInd, CallsOnTime, InSleep
<1>6. LeftShort'
  BY DEF TimeInd, LeftShort
<1>7. EntriesOnTime'
  <2>1. ASSUME NEW x \in Entries \union {e} PROVE OnTime(x.resume_time, x.task)
    BY <1>5, <2>1 DEF TimeInd, EntriesOnTime
  <2> HIDE DEF e
  <2> QED BY <1>1, <1>2, <2>1 DEF EntriesOnTime, OnTime
<1>8. CallsOnTime'
  BY <1>1, <1>4 DEF TimeInd, CallsOnTime, OnTime, InSleep
<1>9. LeftSleeps'
  BY <1>3, <1>4 DEF TimeInd, LeftSleeps, InSleep
<1> QED BY <1>6, <1>7, <1>8, <1>9 DEF TimeInd

\* The other steps of a task in a call.
LEMMA OtherStepKeeps ==
  ASSUME IndInv, TimeInd, NEW t \in Task, OtherStep(t)
  PROVE  TimeInd'
<1>1. /\ left' = left /\ pc \in [Task -> Step]
      /\ ret \in [Task -> {"user", "set_prev_wake", "deleted", "reap"}]
      /\ resume_time \in [Task -> Tick]
  BY DEF OtherStep, IndInv, TypeOK
<1>2. CASE Block(t)
  BY <1>1, <1>2, BlockKeeps
<1>3. ASSUME pc[t] \notin InSleep, pc'[t] \notin InSleep,
             \A u \in Task \ {t} : /\ pc'[u] \in InSleep <=> pc[u] \in InSleep
                                   /\ resume_time'[u] = resume_time[u],
             kernel_ticks' = kernel_ticks,
             blocked_curr' = blocked_curr, blocked_next' = blocked_next
      PROVE  TimeInd'
  <2>1. \A u \in Task : /\ pc'[u] \in InSleep => pc[u] \in InSleep
                        /\ pc[u] \in InSleep => pc'[u] \in InSleep \/ left[u] <= 0
                        /\ pc'[u] \in InSleep => resume_time'[u] = resume_time[u]
    BY <1>3
  <2> QED BY <1>1, <1>3, <2>1, OtherKeeps
<1>4. CASE Yield(t) \/ SetPrevWake(t) \/ Poll(t)
  <2>1. /\ kernel_ticks' = kernel_ticks
        /\ blocked_curr' = blocked_curr /\ blocked_next' = blocked_next
        /\ \A u \in Task \ {t} : pc'[u] = pc[u] /\ resume_time'[u] = resume_time[u]
    BY <1>1, <1>4 DEF Yield, SetPrevWake, Poll, Goto, kernelVars
  <2>2. pc[t] \notin InSleep /\ pc'[t] \notin InSleep
    BY <1>1, <1>4 DEF Yield, SetPrevWake, Poll, Goto, AtStep, InSleep
  <2> QED BY <1>3, <2>1, <2>2
<1>5. CASE Reap(t)
  <2>1. /\ kernel_ticks' = kernel_ticks /\ resume_time' = resume_time
        /\ blocked_curr' = blocked_curr /\ blocked_next' = blocked_next
        /\ pc[t] = "reap" /\ t = IdleTask
    BY <1>5, AtStepFacts DEF Reap, AtStep, kernelVars
  <2>2. CASE to_delete_task_list = <<>>
    <3>1. pc' = [pc EXCEPT ![t] = "poll"]
      BY <1>5, <2>2 DEF Reap, Goto
    <3>2. pc'[t] = "poll" /\ \A u \in Task \ {t} : pc'[u] = pc[u]
      BY <1>1, <3>1
    <3> QED BY <1>3, <2>1, <3>2 DEF InSleep
  <2>3. CASE to_delete_task_list # <<>>
    <3> DEFINE dead == Head(to_delete_task_list)
    <3>1. dead \in Task /\ dead \in Range(to_delete_task_list)
      BY <2>3, TailRange DEF IndInv, TypeOK
    <3>2. pc[dead] \in {"deleted", "yield"}
      BY <3>1 DEF IndInv, Leaving
    <3>3. pc' = [pc EXCEPT ![t] = "poll", ![dead] = "unused"]
      BY <1>5, <2>3 DEF Reap
    <3> HIDE DEF dead
    <3>4. pc'[t] \in {"poll", "unused"} /\ pc'[dead] = "unused"
          /\ \A u \in Task \ {t, dead} : pc'[u] = pc[u]
      BY <1>1, <3>1, <3>3
    <3>5. pc[t] \notin InSleep /\ pc'[t] \notin InSleep
          /\ \A u \in Task \ {t} : pc'[u] \in InSleep <=> pc[u] \in InSleep
      BY <2>1, <3>2, <3>4 DEF InSleep
    <3> QED BY <1>3, <2>1, <3>5
  <2> QED BY <2>2, <2>3
<1> QED BY <1>2, <1>4, <1>5 DEF OtherStep

\* main() and task_schedule.
LEMMA BootKeeps ==
  ASSUME IndInv, TimeInd, TimedBoot
  PROVE  TimeInd'
<1> DEFINE new == task_structures_pos
<1>1. /\ left' = left /\ kernel_ticks' = kernel_ticks /\ resume_time' = resume_time
      /\ blocked_curr' = blocked_curr /\ blocked_next' = blocked_next
      /\ \/ pc' = [pc EXCEPT ![new] = "user"]
         \/ pc' = [pc EXCEPT ![new] = "reap"]
      /\ ~started /\ pc \in [Task -> Step]
  BY DEF TimedBoot, MainCreate, task_schedule, create_at_boot, IndInv, TypeOK
<1>2. \A t \in Task : pc[t] \in {"unused", "user"}
  BY <1>1 DEF IndInv, Boot
<1>3. \A t \in Task : pc'[t] \in {"user", "reap", "unused"}
  BY <1>1, <1>2
<1>4. \A t \in Task : pc[t] \notin InSleep /\ pc'[t] \notin InSleep
  BY <1>2, <1>3 DEF InSleep
<1> QED BY <1>1, <1>4, OtherKeeps

-----------------------------------------------------------------------------
(* The theorem *)

\* Every step keeps it.
LEMMA TimingInductive ==
  ASSUME ShortSleeps, IndInv, TimeInd, [TimingNext]_timingVars
  PROVE  TimeInd'
<1>1. CASE TimedBoot
  BY <1>1, BootKeeps
<1>2. CASE TimedTick
  BY <1>2, TickKeeps
<1>3. ASSUME left' = left, kernel_ticks' = kernel_ticks, pc' = pc, resume_time' = resume_time,
             blocked_curr' = blocked_curr, blocked_next' = blocked_next
      PROVE  TimeInd'
  BY <1>3, OtherKeeps
<1>4. CASE TimedSwitch
  BY <1>3, <1>4 DEF TimedSwitch, ContextSwitch, PendSV, taskVars
<1>5. ASSUME NEW t \in Task, TimedCheck(t) \/ OtherStep(t) PROVE TimeInd'
  BY <1>5, CheckKeeps, OtherStepKeeps
<1>6. ASSUME NEW t \in Task, TimedSleep(t) \/ TimedSleepUntil(t) PROVE TimeInd'
  BY <1>6, CallsKeep
<1>7. ASSUME NEW t \in Task, TimedRead(t) PROVE TimeInd'
  BY <1>3, <1>7 DEF TimedRead, ReadTick, kernelVars
<1>8. CASE UNCHANGED timingVars
  BY <1>3, <1>8 DEF timingVars, vars, kernelVars, taskVars
<1> QED BY <1>1, <1>2, <1>4, <1>5, <1>6, <1>7, <1>8 DEF TimingNext, InCall

\* The history variables constrain no step: TimingSpec only chooses among the
\* steps of Scheduler.
LEMMA TimingSteps == [TimingNext]_timingVars => [Next]_vars
BY DEF TimingNext, timingVars, TimedBoot, TimedTick, TimedSwitch, InCall, TimedCheck,
   OtherStep, TimedSleep, TimedSleepUntil, TimedRead, Next, TaskStep

\* No sleep is going on when main() starts.
LEMMA TimingStarts == TimingInit => IndInv /\ TimeInd
<1> SUFFICES ASSUME TimingInit PROVE IndInv /\ TimeInd
  OBVIOUS
<1>1. IndInv
  BY InitInv DEF TimingInit
<1>2. Entries = {}
  BY DEF TimingInit, Init, KernelInit, Entries, Range
<1>3. \A t \in Task : left[t] = 0
  BY DEF TimingInit
<1>4. LeftShort
  BY <1>3, TickModAssumption DEF TimingInit, LeftShort
<1> QED BY <1>1, <1>2, <1>3, <1>4 DEF TimeInd, EntriesOnTime, CallsOnTime, LeftSleeps, OnTime

\* No task is back from task_sleep or task_sleep_until before its time, whatever
\* the others do and wherever the tick count wraps.
THEOREM NeverBackEarly == ShortSleeps => (TimingSpec => []NoEarlyReturn)
<1> SUFFICES ASSUME ShortSleeps PROVE TimingSpec => []NoEarlyReturn
  OBVIOUS
<1>1. TimingInit => IndInv /\ TimeInd
  BY TimingStarts
<1>2. IndInv /\ TimeInd /\ [TimingNext]_timingVars => IndInv' /\ TimeInd'
  BY TimingInductive, TimingSteps, NextInv
<1>3. IndInv /\ TimeInd => NoEarlyReturn
  <2> SUFFICES ASSUME IndInv, TimeInd, started, ~pendsv,
                      pc[kernel_current_task] \in {"user", "set_prev_wake"}
               PROVE  left[kernel_current_task] <= 0
    BY DEF NoEarlyReturn
  <2> DEFINE t == kernel_current_task
  <2>1. t \in Task /\ AtStep(t, pc[t]) /\ pc[t] # "yield" /\ pc[t] \notin InSleep
    BY DEF IndInv, Boot, AtStep, InSleep
  <2>2. t \notin Sleeping
    BY <2>1, CallerAwake
  <2>3. ~(left[t] > 0) /\ left[t] \in Int
    BY <2>1, <2>2 DEF TimeInd, LeftSleeps, LeftShort
  <2> QED BY <2>3
<1> QED BY <1>1, <1>2, <1>3, PTL DEF TimingSpec

-----------------------------------------------------------------------------
(* How late a sleeper may be *)

\* The sleepers in the order they will be woken in.
Queue == blocked_curr \o blocked_next

\* What may become of left[t] before t is woken, if t is behind its resume_time by
\* lag ticks more than it was told to sleep: it was late when it was inserted.
InBound(n, lag) == n >= -1 \/ (n > -Longest /\ lag = 0)

\* A sleeper with n ticks left whose resume_time is d ticks away.
Waiting(n, d) ==
  LET lag == n - 1 - d
  IN  /\ lag >= 0
      /\ lag > 0 => lag < MaxDelay /\ n <= 0
      /\ InBound(n, lag)

\* The one that is second in the queue, behind one with m ticks left, which
\* takes m ticks and one at least to be woken.
Second(m, n, d) == InBound(n - 1, n - 1 - d) /\ InBound(n - m, n - 1 - d)

\* A task with n ticks left in task_do_sleep, before the test and after it.
Caller(n, d) ==
  /\ d >= -MaxDelay - 1
  /\ IF n > 0 THEN d = n - 1 ELSE d < 0
Tested(n, d) == n >= 0 /\ d >= -MaxDelay

LeftLongest == \A t \in Task : left[t] <= Longest

QueueInBound ==
  /\ \A e \in Entries : Waiting(left[e.task], Distance(e.resume_time))
  /\ \A i, j \in DOMAIN Queue :
       i < j => Second(left[Queue[i].task], left[Queue[j].task],
                       Distance(Queue[j].resume_time))

\* The lists are swapped as soon as the first one is empty in the new cycle, and
\* no sleeper of the next cycle comes before it.
CycleKept ==
  /\ ready_switch_next => blocked_curr # <<>>
  /\ ~ready_switch_next =>
       \A e \in Range(blocked_next) : left[e.task] > TickMod - kernel_ticks

\* Nobody is inserted in front of a sleeper that is late because it had to wait.
NoneInFront ==
  blocked_curr # <<>> /\ left[Head(blocked_curr).task] < 0 =>
    \A t \in Task : pc[t] = "block" => Distance(resume_time[t]) >= 0

CallsInBound ==
  \A t \in Task :
    /\ pc[t] \in InSleep => Caller(left[t], Distance(resume_time[t]))
    /\ pc[t] = "block" => Tested(left[t], Distance(resume_time[t]))

SleepersOut == \A t \in Sleeping : pc[t] \notin InSleep

\* With IndInv and TimeInd this is inductive.
LateInd ==
  /\ LeftLongest /\ QueueInBound /\ CycleKept /\ NoneInFront
  /\ CallsInBound /\ SleepersOut

\* No argument of the calls is greater than Longest, and there is one that is
\* not 0.
LEMMA LongestFacts ==
  ASSUME TwoSleepers
  PROVE  /\ Longest \in Nat /\ Longest > 0
         /\ \A n \in SleepTicks \union Intervals : n \in Nat /\ n <= Longest
         /\ MaxCount \in Nat /\ MaxDelay \in Nat /\ TickMod \in Nat
<1> DEFINE S == SleepTicks \union Intervals
           T == {TickMod - n : n \in S}
<1>1. TickMod \in Nat /\ S \subseteq 0 .. TickMod - 1 /\ MaxCount \in Nat /\ MaxDelay \in Nat
  BY ArgumentsAssumption, TickModAssumption, TimingAssumption DEF Tick
<1>2. \A n \in S : n \in Nat /\ TickMod - n \in Nat
  BY <1>1
<1>3. PICK n \in S : n > 0
  BY DEF TwoSleepers
<1>4. T \in SUBSET Nat /\ T # {}
  BY <1>2, <1>3
<1>5. Min(T) \in T /\ \A k \in T : Min(T) <= k
  <2> HIDE DEF T
  <2> QED BY <1>4, LeastExists
<1>6. PICK m \in S : Min(T) = TickMod - m
  BY <1>5
<1>7. \A k \in S : m >= k
  <2> SUFFICES ASSUME NEW k \in S PROVE m >= k
    OBVIOUS
  <2>1. TickMod - k \in T
    OBVIOUS
  <2>2. TickMod - m <= TickMod - k
    BY <1>5, <1>6, <2>1
  <2> QED BY <1>1, <1>2, <2>2
<1>8. Longest \in S /\ \A k \in S : Longest >= k
  BY <1>7 DEF Longest, Max
<1> QED BY <1>1, <1>2, <1>3, <1>8

-----------------------------------------------------------------------------
(* Distances on the circle of the tick counts *)

Dist(target, now) ==
  LET d == (target - now) % TickMod
  IN  IF 2 * d >= TickMod THEN d - TickMod ELSE d

\* A distance is between minus a half and a half of the range.
LEMMA DistType ==
  ASSUME NEW r \in Int, NEW now \in Int
  PROVE  /\ Dist(r, now) \in Int
         /\ 2 * Dist(r, now) < TickMod /\ -TickMod <= 2 * Dist(r, now)
         /\ \E q \in Int : r - now = (q * TickMod) + Dist(r, now)
<1> DEFINE d == (r - now) % TickMod
<1>0. r - now \in Int
  OBVIOUS
<1>1. d \in 0 .. TickMod - 1 /\ TickMod \in Nat
  BY <1>0, Divided, TickModAssumption
<1>2. PICK q \in Int : r - now = (q * TickMod) + d
  BY <1>0, Divided, TickModAssumption
<1>3. Dist(r, now) = IF 2 * d >= TickMod THEN d - TickMod ELSE d
  BY DEF Dist
<1> HIDE DEF d
<1>4. CASE 2 * d >= TickMod
  <2>1. Dist(r, now) = d - TickMod
    BY <1>3, <1>4
  <2>2. (q + 1) * TickMod = (q * TickMod) + TickMod /\ q + 1 \in Int
    BY <1>1
  <2>3. q * TickMod \in Int /\ (q + 1) * TickMod \in Int
    BY <1>1
  <2>4. r - now = ((q + 1) * TickMod) + (d - TickMod)
    BY <1>1, <1>2, <2>2, <2>3
  <2>5. d - TickMod \in Int /\ 2 * (d - TickMod) < TickMod /\ -TickMod <= 2 * (d - TickMod)
    BY <1>1, <1>4
  <2>6. \E k \in Int : r - now = (k * TickMod) + (d - TickMod)
    BY <2>2, <2>4
  <2> QED BY <2>1, <2>5, <2>6
<1>5. CASE ~(2 * d >= TickMod)
  <2>1. Dist(r, now) = d
    BY <1>3, <1>5
  <2> QED BY <1>1, <1>2, <1>5, <2>1
<1> QED BY <1>4, <1>5

\* There is one number only in that range that leads from now to r.
LEMMA DistUnique ==
  ASSUME NEW r \in Int, NEW now \in Int, NEW d \in Int, NEW q \in Int,
         r - now = (q * TickMod) + d, 2 * d < TickMod, -TickMod <= 2 * d
  PROVE  Dist(r, now) = d
<1>0. TickMod \in Nat /\ q * TickMod \in Int /\ r - now \in Int /\ TickMod \in Nat \ {0}
  BY TickModAssumption
<1>1. CASE d >= 0
  <2>1. d \in 0 .. TickMod - 1
    BY <1>0, <1>1
  <2>2. (r - now) % TickMod = d
    BY <1>0, <2>1, ModUnique
  <2>3. ~(2 * d >= TickMod)
    BY <1>0
  <2> QED BY <2>2, <2>3 DEF Dist
<1>2. CASE d < 0
  <2> DEFINE m == d + TickMod
  <2>1. m \in 0 .. TickMod - 1 /\ 2 * m >= TickMod /\ m - TickMod = d
    BY <1>0, <1>2
  <2>2. q - 1 \in Int /\ (q - 1) * TickMod = (q * TickMod) - TickMod
    BY <1>0
  <2>3. r - now = ((q - 1) * TickMod) + m
    BY <1>0, <2>2
  <2> HIDE DEF m
  <2>4. (r - now) % TickMod = m
    BY <1>0, <2>1, <2>2, <2>3, ModUnique
  <2> QED BY <2>1, <2>4 DEF Dist
<1> QED BY <1>1, <1>2

\* tick_after tells whether a distance is negative.
LEMMA DistOver ==
  ASSUME NEW r \in Int, NEW now \in Int
  PROVE  tick_after(now, r) <=> Dist(r, now) < 0
<1> DEFINE d == (r - now) % TickMod
<1>0. r - now \in Int
  OBVIOUS
<1>1. d \in 0 .. TickMod - 1 /\ TickMod \in Nat
  BY <1>0, Divided, TickModAssumption
<1>2. Dist(r, now) = IF 2 * d >= TickMod THEN d - TickMod ELSE d
  BY DEF Dist
<1>3. tick_after(now, r) <=> 2 * d >= TickMod
  BY DEF tick_after
<1> HIDE DEF d
<1> QED BY <1>1, <1>2, <1>3

\* A tick makes a distance one less.
LEMMA DistFalls ==
  ASSUME NEW r \in Int, NEW now \in Int, NEW d \in Int, d = Dist(r, now),
         -TickMod <= 2 * (d - 1)
  PROVE  Dist(r, (now + 1) % TickMod) = d - 1
<1>0. TickMod \in Nat \ {0} /\ TickMod \in Int /\ now + 1 \in Int
  BY TickModAssumption
<1>1. 2 * d < TickMod
  BY DistType
<1>2. PICK q \in Int : r - now = (q * TickMod) + d
  BY DistType
<1> DEFINE then == (now + 1) % TickMod
<1>3. PICK p \in Int : now + 1 = (p * TickMod) + then
  BY <1>0, Divided
<1>4. then \in Int
  BY <1>0, Divided
<1> HIDE DEF then
<1>5. /\ q + p \in Int /\ (q + p) * TickMod = (q * TickMod) + (p * TickMod)
      /\ q * TickMod \in Int /\ p * TickMod \in Int
  BY <1>0
<1>6. r - then = ((q + p) * TickMod) + (d - 1)
  <2>1. PICK u \in Int : u = q * TickMod
    BY <1>5
  <2>2. PICK v \in Int : v = p * TickMod
    BY <1>5
  <2>3. r - now = u + d /\ now + 1 = v + then
    BY <1>2, <1>3, <2>1, <2>2
  <2>4. r - then = (u + v) + (d - 1)
    BY <1>4, <2>3
  <2> QED BY <1>5, <2>1, <2>2, <2>4
<1>7. 2 * (d - 1) < TickMod /\ d - 1 \in Int
  BY <1>0, <1>1
<1>8. Dist(r, then) = d - 1
  BY <1>4, <1>5, <1>6, <1>7, DistUnique
<1> QED BY <1>8 DEF then

\* tick_after compares two times like their distances, when these differ by less
\* than half the range.
LEMMA DistCompare ==
  ASSUME NEW x \in Int, NEW y \in Int, NEW now \in Int,
         NEW a \in Int, NEW b \in Int, a = Dist(x, now), b = Dist(y, now),
         2 * (a - b) < TickMod, -TickMod <= 2 * (a - b)
  PROVE  tick_after(y, x) <=> a < b
<1>0. TickMod \in Int
  BY TickModAssumption
<1>1. PICK p \in Int : x - now = (p * TickMod) + a
  BY DistType
<1>2. PICK q \in Int : y - now = (q * TickMod) + b
  BY DistType
<1>3. /\ p - q \in Int /\ (p - q) * TickMod = (p * TickMod) - (q * TickMod)
      /\ q * TickMod \in Int /\ p * TickMod \in Int
  BY <1>0
<1>4. x - y = ((p - q) * TickMod) + (a - b) /\ a - b \in Int
  BY <1>0, <1>1, <1>2, <1>3
<1>5. Dist(x, y) = a - b
  BY <1>3, <1>4, DistUnique
<1>6. tick_after(y, x) <=> Dist(x, y) < 0
  BY DistOver
<1> QED BY <1>5, <1>6

-----------------------------------------------------------------------------
(* The queue of the sleepers *)

\* The queue is one list after the other.
LEMMA QueueType ==
  ASSUME IndInv
  PROVE  /\ blocked_curr \in Seq(Sleeper) /\ blocked_next \in Seq(Sleeper)
         /\ Queue \in Seq(Sleeper) /\ Len(Queue) = Len(blocked_curr) + Len(blocked_next)
         /\ Len(blocked_curr) \in Nat /\ Len(blocked_next) \in Nat
         /\ \A i \in DOMAIN Queue :
              Queue[i] = IF i <= Len(blocked_curr) THEN blocked_curr[i]
                         ELSE blocked_next[i - Len(blocked_curr)]
         /\ Range(Queue) = Entries
<1>1. blocked_curr \in Seq(Sleeper) /\ blocked_next \in Seq(Sleeper)
  BY DEF IndInv, TypeOK, KernelTypeOK
<1>2. /\ Queue \in Seq(Sleeper) /\ Len(Queue) = Len(blocked_curr) + Len(blocked_next)
      /\ Len(blocked_curr) \in Nat /\ Len(blocked_next) \in Nat
      /\ DOMAIN Queue = 1 .. Len(blocked_curr) + Len(blocked_next)
      /\ \A i \in DOMAIN Queue :
              Queue[i] = IF i <= Len(blocked_curr) THEN blocked_curr[i]
                         ELSE blocked_next[i - Len(blocked_curr)]
  BY <1>1, ConcatProperties, LenProperties DEF Queue
<1>3. Range(Queue) = Entries
  BY <1>1, RangeConcatenation DEF Queue, Entries
<1> QED BY <1>1, <1>2, <1>3

\* Three sleepers would be three tasks other than the idle task.
LEMMA TwoInQueue ==
  ASSUME IndInv, TwoSleepers, started
  PROVE  /\ Len(Queue) <= 2
         /\ Len(Queue) = 2 => \A t \in Task : t \in Sleeping \/ t = IdleTask
<1>1. /\ ready \in ReadyType
      /\ blocked_curr \in Seq(Sleeper) /\ blocked_next \in Seq(Sleeper)
      /\ to_delete_task_list \in Seq(Task)
      /\ Injective(Places)
  BY ListFacts DEF IndInv
<1>2. IsPlaces(Places, ready, blocked_curr, blocked_next, to_delete_task_list)
  BY <1>1, PlacesOfType DEF Places
<1>3. /\ Places[TASKPRIO_IDLE] = ready.list[TASKPRIO_IDLE] /\ TASKPRIO_IDLE \in PlaceName
      /\ Places[CURR] = TasksOf(blocked_curr) /\ CURR \in PlaceName
      /\ Places[NEXT] = TasksOf(blocked_next) /\ NEXT \in PlaceName
      /\ TASKPRIO_IDLE \notin {CURR, NEXT} /\ CURR # NEXT
  BY <1>2, PlaceNames DEF IsPlaces, Priority, CURR, NEXT, PlaceName, TASKPRIO_IDLE
<1>4. PICK k \in DOMAIN Places[TASKPRIO_IDLE] : Places[TASKPRIO_IDLE][k] = IdleTask
  BY <1>3 DEF IndInv, IdleReady, ReadyTasks, Range
<1> DEFINE P(i) == IF i <= Len(blocked_curr) THEN CURR ELSE NEXT
           at(i) == IF i <= Len(blocked_curr) THEN i ELSE i - Len(blocked_curr)
<1>5. ASSUME NEW i \in DOMAIN Queue
      PROVE  /\ P(i) \in PlaceName /\ at(i) \in DOMAIN Places[P(i)]
             /\ Places[P(i)][at(i)] = Queue[i].task /\ Queue[i].task \in Task
             /\ P(i) # TASKPRIO_IDLE
  <2>1. DOMAIN Queue = 1 .. Len(blocked_curr) + Len(blocked_next)
        /\ Len(blocked_curr) \in Nat /\ Len(blocked_next) \in Nat
        /\ DOMAIN blocked_curr = 1 .. Len(blocked_curr) /\ DOMAIN blocked_next = 1 .. Len(blocked_next)
    BY QueueType, LenProperties
  <2>2. Queue[i] \in Sleeper
    BY QueueType
  <2>3. CASE i <= Len(blocked_curr)
    BY <1>3, <2>1, <2>2, <2>3, QueueType DEF TasksOf, Sleeper
  <2>4. CASE ~(i <= Len(blocked_curr))
    <3>1. i - Len(blocked_curr) \in DOMAIN blocked_next
      BY <2>1, <2>4
    <3>2. Queue[i] = blocked_next[i - Len(blocked_curr)]
      BY <2>4, QueueType
    <3> QED BY <1>3, <2>2, <2>4, <3>1, <3>2 DEF TasksOf, Sleeper
  <2> QED BY <2>3, <2>4
<1>6. ASSUME NEW i \in DOMAIN Queue, NEW j \in DOMAIN Queue, Queue[i].task = Queue[j].task
      PROVE  i = j
  <2>1. P(i) = P(j) /\ at(i) = at(j)
    <3> HIDE DEF P, at
    <3> QED BY <1>1, <1>5, <1>6 DEF Injective
  <2>2. i \in Nat /\ j \in Nat /\ Len(blocked_curr) \in Nat /\ i >= 1 /\ j >= 1
    BY QueueType
  <2> QED BY <1>3, <2>1, <2>2
<1>7. ASSUME NEW i \in DOMAIN Queue PROVE Queue[i].task # IdleTask
  <2> HIDE DEF P, at
  <2> QED BY <1>1, <1>3, <1>4, <1>5 DEF Injective
<1> HIDE DEF P, at
<1>8. Task \subseteq {0, 1, 2} /\ IdleTask \in Task
  BY TaskAssumption, IdleIsTask DEF TwoSleepers
<1>9. DOMAIN Queue = 1 .. Len(Queue) /\ Len(Queue) \in Nat
  BY QueueType
<1>10. Len(Queue) <= 2
  <2> SUFFICES ASSUME Len(Queue) >= 3 PROVE FALSE
    BY <1>9
  <2>1. 1 \in DOMAIN Queue /\ 2 \in DOMAIN Queue /\ 3 \in DOMAIN Queue
    BY <1>9
  <2>2. /\ Queue[1].task # Queue[2].task /\ Queue[1].task # Queue[3].task
        /\ Queue[2].task # Queue[3].task
    BY <1>6, <2>1
  <2>3. {Queue[1].task, Queue[2].task, Queue[3].task, IdleTask} \subseteq {0, 1, 2}
    BY <1>5, <1>8, <2>1
  <2> QED BY <1>7, <2>1, <2>2, <2>3
<1>11. ASSUME Len(Queue) = 2, NEW t \in Task PROVE t \in Sleeping \/ t = IdleTask
  <2>1. 1 \in DOMAIN Queue /\ 2 \in DOMAIN Queue
    BY <1>9, <1>11
  <2>2. Queue[1].task # Queue[2].task
    BY <1>6, <2>1
  <2>3. {Queue[1].task, Queue[2].task, IdleTask, t} \subseteq {0, 1, 2}
    BY <1>5, <1>8, <2>1
  <2>4. t \in {Queue[1].task, Queue[2].task, IdleTask}
    BY <1>7, <2>1, <2>2, <2>3
  <2>5. Queue[1] \in Entries /\ Queue[2] \in Entries
    BY <2>1, QueueType DEF Range
  <2>6. Queue[1].task \in Sleeping /\ Queue[2].task \in Sleeping
    BY <2>5, NodesSleep DEF Sleeping, Entries
  <2> QED BY <2>4, <2>6
<1> QED BY <1>10, <1>11

\* A tick takes the first one out of the queue, or nobody.  Swapping the lists
\* changes nothing there.
LEMMA TickQueue ==
  ASSUME IndInv, TickInterrupt
  PROVE  /\ ~timed_out => Queue' = Queue
         /\ Range(Queue') = Entries'
         /\ timed_out => /\ Len(blocked_curr) > 0 /\ Len(Queue') = Len(Queue) - 1
                         /\ DOMAIN Queue' = 1 .. Len(Queue) - 1
                         /\ \A k \in 1 .. Len(Queue) - 1 : Queue'[k] = Queue[k + 1]
<1>1. /\ blocked_curr \in Seq(Sleeper) /\ blocked_next \in Seq(Sleeper)
      /\ still_blocked \in Seq(Sleeper)
      /\ ~timed_out => still_blocked = blocked_curr
      /\ timed_out => /\ Len(blocked_curr) > 0 /\ Len(still_blocked) = Len(blocked_curr) - 1
                      /\ \A k \in 1 .. Len(still_blocked) : still_blocked[k] = blocked_curr[k + 1]
  <2>1. blocked_curr \in Seq(Sleeper) /\ blocked_next \in Seq(Sleeper)
    BY QueueType
  <2>2. CASE timed_out
    <3>1. blocked_curr # <<>> /\ still_blocked = Tail(blocked_curr)
      BY <2>2 DEF timed_out, still_blocked
    <3> QED BY <2>1, <2>2, <3>1
  <2> QED BY <2>1, <2>2 DEF still_blocked
<1>2. Queue' = still_blocked \o blocked_next
  <2>1. CASE switch_cycle
    <3>1. blocked_curr' = blocked_next /\ blocked_next' = <<>> /\ still_blocked = <<>>
      BY <2>1 DEF TickInterrupt, SysTick, switch_cycle
    <3> QED BY <1>1, <3>1 DEF Queue
  <2>2. CASE ~switch_cycle
    BY <2>2 DEF TickInterrupt, SysTick, Queue
  <2> QED BY <2>1, <2>2
<1>3. Len(still_blocked \o blocked_next) = Len(still_blocked) + Len(blocked_next)
  BY <1>1
<1>4. Len(blocked_curr) \in Nat /\ Len(blocked_next) \in Nat /\ Len(still_blocked) \in Nat
      /\ Len(Queue) = Len(blocked_curr) + Len(blocked_next)
  BY <1>1, QueueType
<1>5. ~timed_out => Queue' = Queue
  BY <1>1, <1>2 DEF Queue
<1>6. ASSUME timed_out PROVE Len(Queue') = Len(Queue) - 1
  <2>1. Len(Queue') = Len(still_blocked) + Len(blocked_next)
    BY <1>2, <1>3
  <2>2. Len(still_blocked) = Len(blocked_curr) - 1
    BY <1>1, <1>6
  <2> HIDE DEF Queue
  <2> QED BY <1>4, <2>1, <2>2
<1>7. ASSUME timed_out
      PROVE  /\ DOMAIN Queue' = 1 .. Len(Queue) - 1
             /\ \A k \in 1 .. Len(Queue) - 1 : Queue'[k] = Queue[k + 1]
  <2>1. /\ Len(still_blocked) = Len(blocked_curr) - 1 /\ Len(blocked_curr) > 0
        /\ \A k \in 1 .. Len(still_blocked) : still_blocked[k] = blocked_curr[k + 1]
    BY <1>1, <1>7
  <2>2. /\ DOMAIN Queue' = 1 .. Len(still_blocked) + Len(blocked_next)
        /\ \A k \in 1 .. Len(still_blocked) + Len(blocked_next) :
             Queue'[k] = IF k <= Len(still_blocked) THEN still_blocked[k]
                         ELSE blocked_next[k - Len(still_blocked)]
    BY <1>1, <1>2, ConcatProperties
  <2>3. DOMAIN Queue' = 1 .. Len(Queue) - 1 /\ Len(Queue) \in Nat
    BY <1>4, <2>1, <2>2
  <2>4. ASSUME NEW k \in 1 .. Len(Queue) - 1 PROVE Queue'[k] = Queue[k + 1]
    <3>1. /\ k \in 1 .. Len(still_blocked) + Len(blocked_next) /\ k + 1 \in 1 .. Len(Queue)
          /\ k <= Len(still_blocked) <=> k + 1 <= Len(blocked_curr)
      BY <1>4, <2>1
    <3>2. k - Len(still_blocked) = (k + 1) - Len(blocked_curr)
      BY <1>4, <2>1
    <3>3. Queue[k + 1] = IF k + 1 <= Len(blocked_curr) THEN blocked_curr[k + 1]
                         ELSE blocked_next[(k + 1) - Len(blocked_curr)]
      BY <3>1, QueueType
    <3>4. CASE k <= Len(still_blocked)
      <4>1. k \in 1 .. Len(still_blocked)
        BY <3>4
      <4> QED BY <2>1, <2>2, <3>1, <3>3, <3>4, <4>1
    <3>5. CASE ~(k <= Len(still_blocked))
      BY <2>2, <3>1, <3>2, <3>3, <3>5
    <3> QED BY <3>4, <3>5
  <2> QED BY <2>3, <2>4
<1>8. Range(Queue') = Entries'
  <2>1. blocked_curr' \in Seq(Sleeper) /\ blocked_next' \in Seq(Sleeper)
    BY <1>1 DEF TickInterrupt, SysTick
  <2> QED BY <2>1, RangeConcatenation DEF Queue, Entries
<1> QED BY <1>1, <1>5, <1>6, <1>7, <1>8

\* Where a node is inserted into a list of at most one.
LEMMA InsertFew ==
  ASSUME NEW list \in Seq(Sleeper), Len(list) <= 1, NEW x \in Sleeper,
         NEW new, new = task_insert_blocked_list(list, x)
  PROVE  /\ new \in Seq(Sleeper) /\ Len(new) = Len(list) + 1
         /\ Len(list) = 0 => new[1] = x
         /\ Len(list) = 1 =>
              IF tick_after(list[1].resume_time, x.resume_time)
                THEN new[1] = x /\ new[2] = list[1]
                ELSE new[1] = list[1] /\ new[2] = x
<1>1. PICK n \in 1 .. Len(list) + 1 : IsInsert(new, list, n, x)
  BY InsertBlocked
<1>2. /\ new \in Seq(Sleeper) /\ Len(new) = Len(list) + 1 /\ Len(list) \in Nat
      /\ n \in 1 .. Len(list) + 1
      /\ \A k \in 1 .. Len(list) + 1 :
           new[k] = IF k < n THEN list[k] ELSE IF k = n THEN x ELSE list[k - 1]
  <2>1. new \in Seq(Sleeper) /\ Len(list) \in Nat
    BY InsertBlocked
  <2> QED BY <1>1, <2>1 DEF IsInsert
<1>3. CASE Len(list) = 0
  BY <1>2, <1>3
<1>4. CASE Len(list) = 1
  <2> DEFINE later == Later(list, x.resume_time)
             m == IF later = {} THEN Len(list) + 1 ELSE Min(later)
  <2>1. DOMAIN list = {1}
    BY <1>4
  <2>2. m = IF tick_after(list[1].resume_time, x.resume_time) THEN 1 ELSE 2
    <3>1. CASE tick_after(list[1].resume_time, x.resume_time)
      <4>1. later = {1}
        BY <2>1, <3>1 DEF Later
      <4>2. Min({1}) = 1
        BY DEF Min
      <4> QED BY <3>1, <4>1, <4>2
    <3>2. CASE ~tick_after(list[1].resume_time, x.resume_time)
      <4>1. later = {}
        BY <2>1, <3>2 DEF Later
      <4> QED BY <1>4, <3>2, <4>1
    <3> QED BY <3>1, <3>2
  <2>3. new = InsertAt(list, m, x)
    BY DEF task_insert_blocked_list
  <2> HIDE DEF m
  <2>4. m \in 1 .. Len(list) + 1
    BY <1>4, <2>2
  <2>5. IsInsert(new, list, m, x)
    BY <2>3, <2>4, InsertAtInserts
  <2>6. \A k \in {1, 2} : new[k] = IF k < m THEN list[k] ELSE IF k = m THEN x ELSE list[k - 1]
    BY <1>2, <1>4, <2>5 DEF IsInsert
  <2>7. CASE tick_after(list[1].resume_time, x.resume_time)
    BY <1>2, <1>4, <2>2, <2>6, <2>7
  <2>8. CASE ~tick_after(list[1].resume_time, x.resume_time)
    BY <1>2, <1>4, <2>2, <2>6, <2>8
  <2> QED BY <2>7, <2>8
<1> QED BY <1>2, <1>3, <1>4

\* The caller of task_do_sleep and the one that sleeps already: which of them is
\* first depends on their resume_times, unless they are in different cycles.
LEMMA BlockQueue ==
  ASSUME IndInv, NEW t \in Task, Block(t), Len(Queue) <= 1,
         NEW x \in Sleeper, x = [task |-> t, resume_time |-> resume_time[t]]
  PROVE  /\ Len(Queue') = Len(Queue) + 1 /\ Queue' \in Seq(Sleeper)
         /\ Len(Queue) = 0 => Queue'[1] = x
         /\ Len(Queue) = 1 =>
              \/ /\ Queue'[1] = x /\ Queue'[2] = Queue[1]
                 /\ \/ tick_after(Queue[1].resume_time, x.resume_time)
                    \/ blocked_curr = <<>> /\ Queue[1] \in Range(blocked_next)
              \/ /\ Queue'[1] = Queue[1] /\ Queue'[2] = x
                 /\ \/ ~tick_after(Queue[1].resume_time, x.resume_time)
                    \/ next_cycle(x.resume_time)
         /\ IF next_cycle(x.resume_time)
              THEN /\ blocked_curr' = blocked_curr
                   /\ Range(blocked_next') = Range(blocked_next) \union {x}
              ELSE /\ blocked_next' = blocked_next
                   /\ blocked_curr' = task_insert_blocked_list(blocked_curr, x)
                   /\ blocked_curr' # <<>>
<1>1. AtStep(t, "block") /\ sleep_front(resume_time[t])
  BY DEF Block
<1>2. tasklist_get_front_task(ready, CurrentPriority) = t /\ t # NoTask
  BY <1>1, FrontFacts, TaskIsNat
<1>3. x.task = t /\ x.resume_time = resume_time[t]
  OBVIOUS
<1>4. /\ blocked_next' = IF next_cycle(x.resume_time)
                           THEN task_insert_blocked_list(blocked_next, x) ELSE blocked_next
      /\ blocked_curr' = IF ~next_cycle(x.resume_time)
                           THEN task_insert_blocked_list(blocked_curr, x) ELSE blocked_curr
  BY <1>1, <1>2, <1>3 DEF sleep_front
<1>5. /\ blocked_curr \in Seq(Sleeper) /\ blocked_next \in Seq(Sleeper)
      /\ Queue \in Seq(Sleeper) /\ Len(Queue) = Len(blocked_curr) + Len(blocked_next)
      /\ Len(blocked_curr) \in Nat /\ Len(blocked_next) \in Nat
      /\ \A i \in DOMAIN Queue :
           Queue[i] = IF i <= Len(blocked_curr) THEN blocked_curr[i]
                      ELSE blocked_next[i - Len(blocked_curr)]
  BY QueueType
<1>6. Len(blocked_curr) <= 1 /\ Len(blocked_next) <= 1
  BY <1>5
<1>7. Len(Queue) = 1 =>
        Queue[1] = IF Len(blocked_curr) = 1 THEN blocked_curr[1] ELSE blocked_next[1]
  <2> SUFFICES ASSUME Len(Queue) = 1
               PROVE Queue[1] = IF Len(blocked_curr) = 1 THEN blocked_curr[1] ELSE blocked_next[1]
    OBVIOUS
  <2>1. 1 \in DOMAIN Queue
    BY <1>5
  <2>2. Queue[1] = IF 1 <= Len(blocked_curr) THEN blocked_curr[1]
                   ELSE blocked_next[1 - Len(blocked_curr)]
    BY <1>5, <2>1
  <2>3. Len(blocked_curr) = 1 \/ Len(blocked_curr) = 0
    BY <1>5, <1>6
  <2> QED BY <2>2, <2>3
<1>8. ASSUME NEW a \in Seq(Sleeper), NEW b \in Seq(Sleeper), Len(a) + Len(b) = Len(Queue) + 1,
             Queue' = a \o b
      PROVE  /\ Len(Queue') = Len(Queue) + 1 /\ Queue' \in Seq(Sleeper)
             /\ \A k \in 1 .. Len(Queue) + 1 :
                  Queue'[k] = IF k <= Len(a) THEN a[k] ELSE b[k - Len(a)]
  BY <1>8, ConcatProperties
<1>9. CASE next_cycle(x.resume_time)
  <2> PICK new : new = task_insert_blocked_list(blocked_next, x)
    OBVIOUS
  <2>1. blocked_curr' = blocked_curr /\ blocked_next' = new
    BY <1>4, <1>9
  <2>2. /\ new \in Seq(Sleeper) /\ Len(new) = Len(blocked_next) + 1
        /\ Len(blocked_next) = 0 => new[1] = x
        /\ Len(blocked_next) = 1 =>
              IF tick_after(blocked_next[1].resume_time, x.resume_time)
                THEN new[1] = x /\ new[2] = blocked_next[1]
                ELSE new[1] = blocked_next[1] /\ new[2] = x
    BY ONLY <1>5, <1>6, InsertFew, x \in Sleeper, new = task_insert_blocked_list(blocked_next, x)
  <2>3. Range(new) = Range(blocked_next) \union {x}
    BY <1>5, InsertRange
  <2>4. Queue' = blocked_curr \o new
    BY <2>1 DEF Queue
  <2>5. Len(blocked_curr) + Len(new) = Len(Queue) + 1
    BY <1>5, <2>2
  <2>6. /\ Len(Queue') = Len(Queue) + 1 /\ Queue' \in Seq(Sleeper)
        /\ \A k \in 1 .. Len(Queue) + 1 :
             Queue'[k] = IF k <= Len(blocked_curr) THEN blocked_curr[k]
                         ELSE new[k - Len(blocked_curr)]
    BY <1>5, <1>8, <2>2, <2>4, <2>5
  <2>7. ASSUME Len(Queue) = 0 PROVE Queue'[1] = x
    <3>1. Len(blocked_curr) = 0 /\ Len(blocked_next) = 0
      BY <1>5, <2>7
    <3> QED BY <2>2, <2>6, <2>7, <3>1
  <2>8. ASSUME Len(Queue) = 1, Len(blocked_curr) = 1
        PROVE  Queue'[1] = Queue[1] /\ Queue'[2] = x
    <3>1. Len(blocked_next) = 0
      BY <1>5, <2>8
    <3> QED BY <1>7, <2>2, <2>6, <2>8, <3>1
  <2>9. ASSUME Len(Queue) = 1, Len(blocked_curr) # 1
        PROVE  IF tick_after(Queue[1].resume_time, x.resume_time)
                 THEN Queue'[1] = x /\ Queue'[2] = Queue[1]
                 ELSE Queue'[1] = Queue[1] /\ Queue'[2] = x
    <3>1. Len(blocked_next) = 1 /\ Len(blocked_curr) = 0
      BY <1>5, <1>6, <2>9
    <3>2. Queue'[1] = new[1] /\ Queue'[2] = new[2]
      BY <2>6, <2>9, <3>1
    <3> QED BY <1>7, <2>2, <2>9, <3>1, <3>2
  <2> QED BY <1>9, <2>1, <2>3, <2>6, <2>7, <2>8, <2>9
<1>10. CASE ~next_cycle(x.resume_time)
  <2> PICK new : new = task_insert_blocked_list(blocked_curr, x)
    OBVIOUS
  <2>1. blocked_curr' = new /\ blocked_next' = blocked_next
    BY <1>4, <1>10
  <2>2. /\ new \in Seq(Sleeper) /\ Len(new) = Len(blocked_curr) + 1
        /\ Len(blocked_curr) = 0 => new[1] = x
        /\ Len(blocked_curr) = 1 =>
              IF tick_after(blocked_curr[1].resume_time, x.resume_time)
                THEN new[1] = x /\ new[2] = blocked_curr[1]
                ELSE new[1] = blocked_curr[1] /\ new[2] = x
    BY ONLY <1>5, <1>6, InsertFew, x \in Sleeper, new = task_insert_blocked_list(blocked_curr, x)
  <2>3. new # <<>>
    BY <1>5, <2>2
  <2>4. blocked_curr' = task_insert_blocked_list(blocked_curr, x) /\ blocked_curr' # <<>>
    BY <2>1, <2>3
  <2>5. Queue' = new \o blocked_next
    BY <2>1 DEF Queue
  <2>6. Len(new) + Len(blocked_next) = Len(Queue) + 1
    BY <1>5, <2>2
  <2>7. /\ Len(Queue') = Len(Queue) + 1 /\ Queue' \in Seq(Sleeper)
        /\ \A k \in 1 .. Len(Queue) + 1 :
             Queue'[k] = IF k <= Len(new) THEN new[k] ELSE blocked_next[k - Len(new)]
    BY <1>5, <1>8, <2>2, <2>5, <2>6
  <2>8. ASSUME Len(Queue) = 0 PROVE Queue'[1] = x
    <3>1. Len(blocked_curr) = 0 /\ Len(blocked_next) = 0
      BY <1>5, <2>8
    <3> QED BY <2>2, <2>7, <2>8, <3>1
  <2>9. ASSUME Len(Queue) = 1, Len(blocked_curr) = 1
        PROVE  IF tick_after(Queue[1].resume_time, x.resume_time)
                 THEN Queue'[1] = x /\ Queue'[2] = Queue[1]
                 ELSE Queue'[1] = Queue[1] /\ Queue'[2] = x
    <3>1. Queue'[1] = new[1] /\ Queue'[2] = new[2]
      BY <2>2, <2>7, <2>9
    <3> QED BY <1>7, <2>2, <2>9, <3>1
  <2>10. ASSUME Len(Queue) = 1, Len(blocked_curr) # 1
        PROVE  /\ Queue'[1] = x /\ Queue'[2] = Queue[1]
               /\ blocked_curr = <<>> /\ Queue[1] \in Range(blocked_next)
    <3>1. Len(blocked_next) = 1 /\ Len(blocked_curr) = 0
      BY <1>5, <1>6, <2>10
    <3>2. Queue'[1] = new[1] /\ Queue'[2] = blocked_next[1]
      BY <2>2, <2>7, <2>10, <3>1
    <3>3. blocked_curr = <<>> /\ 1 \in DOMAIN blocked_next
      BY <1>5, <3>1
    <3>4. blocked_next[1] \in Range(blocked_next)
      BY <3>3 DEF Range
    <3> QED BY <1>7, <2>2, <2>10, <3>1, <3>2, <3>3, <3>4
  <2> QED BY <1>10, <2>1, <2>4, <2>7, <2>8, <2>9, <2>10
<1> QED BY <1>9, <1>10

-----------------------------------------------------------------------------
(* What the steps do to the bounds *)

LEMMA DistanceIs ==
  ASSUME NEW CONSTANT r
  PROVE  /\ Distance(r) = Dist(r, kernel_ticks)
         /\ Distance(r)' = Dist(r, kernel_ticks')
BY DEF Distance, Dist

\* The types of what is compared.
LEMMA LateTypes ==
  ASSUME IndInv, TimeInd, TwoSleepers
  PROVE  /\ kernel_ticks \in Nat /\ kernel_ticks < TickMod
         /\ left \in [Task -> Int] /\ pc \in [Task -> Step]
         /\ resume_time \in [Task -> Tick]
         /\ \A r \in Tick : r \in Int /\ Distance(r) \in Int
         /\ \A t \in Task : resume_time[t] \in Int /\ Distance(resume_time[t]) \in Int
         /\ \A e \in Entries : /\ e.task \in Task /\ e.resume_time \in Tick
                               /\ e.resume_time \in Int /\ Distance(e.resume_time) \in Int
                               /\ e.task \in Sleeping
<1>1. /\ kernel_ticks \in Tick /\ resume_time \in [Task -> Tick] /\ pc \in [Task -> Step]
      /\ left \in [Task -> Int] /\ TickMod \in Nat
  BY TickModAssumption DEF IndInv, TypeOK, KernelTypeOK, TimeInd, LeftShort
<1>2. Tick \subseteq Int /\ kernel_ticks \in Nat /\ kernel_ticks < TickMod
  BY <1>1 DEF Tick
<1>3. \A r \in Tick : Distance(r) \in Int
  BY <1>2, DistanceIs, DistType
<1>4. ASSUME NEW e \in Entries
      PROVE  e.task \in Task /\ e.resume_time \in Tick /\ e.task \in Sleeping
  <2>1. e \in Sleeper
    BY EntryType
  <2>2. e.task \in Sleeping
    BY NodesSleep DEF Entries, Sleeping
  <2> QED BY <2>1, <2>2 DEF Sleeper
<1>5. \A t \in Task : resume_time[t] \in Tick
  BY <1>1
<1> QED BY <1>1, <1>2, <1>3, <1>4, <1>5

\* The distance of a sleeper's resume_time is none that tick_after would mistake,
\* neither now nor at the next tick.
LEMMA WaitingBounds ==
  ASSUME TwoSleepers, NEW n \in Int, NEW d \in Int, n <= Longest, Waiting(n, d)
  PROVE  /\ d < Longest /\ -TickMod <= 2 * (d - 1)
         /\ n > 0 => d = n - 1
         /\ n <= 0 => d < 0
<1>1. Longest \in Nat /\ MaxDelay \in Nat /\ TickMod \in Nat /\ Longest > 0
  BY LongestFacts
<1>2. 2 * (Longest + MaxDelay + 1) <= TickMod /\ 4 * Longest <= TickMod /\ MaxDelay > 0
  BY DEF TwoSleepers
<1>3. n - 1 - d >= 0 /\ (n - 1 - d > 0 => n - 1 - d < MaxDelay /\ n <= 0)
      /\ (n >= -1 \/ (n > -Longest /\ n - 1 - d = 0))
  BY DEF Waiting, InBound
<1> QED BY <1>1, <1>2, <1>3

\* One tick less for a sleeper that is in bounds afterwards.
LEMMA WaitingFalls ==
  ASSUME NEW n \in Int, NEW d \in Int, Waiting(n, d), InBound(n - 1, n - 1 - d)
  PROVE  Waiting(n - 1, d - 1)
<1>1. (n - 1) - 1 - (d - 1) = n - 1 - d
  OBVIOUS
<1> QED BY <1>1 DEF Waiting, InBound

\* A sleeper with a tick at least after the next one is in bounds there.
LEMMA StillInBound ==
  ASSUME NEW n \in Int, NEW lag \in Int, n >= 0
  PROVE  InBound(n, lag)
BY DEF InBound

\* The sleepers of a queue whose first one takes at least two ticks more.
LEMMA SecondFalls ==
  ASSUME TwoSleepers, NEW m \in Int, NEW n \in Int, NEW d \in Int, Second(m, n, d), m >= 2
  PROVE  Second(m - 1, n - 1, d - 1)
<1>1. (n - 1) - 1 - (d - 1) = n - 1 - d /\ (n - 1) - (m - 1) = n - m
  OBVIOUS
<1>2. InBound(n - m, n - 1 - d)
  BY DEF Second
<1>3. (n - 1) - 1 >= n - m
  OBVIOUS
<1>4. InBound((n - 1) - 1, n - 1 - d)
  <2>1. Longest \in Int
    BY LongestFacts
  <2> QED BY <1>2, <1>3, <2>1 DEF InBound
<1> QED BY <1>1, <1>2, <1>4 DEF Second

\* A tick for a sleeper that is not woken.
LEMMA TickEntry ==
  ASSUME IndInv, TimeInd, LateInd, TwoSleepers, TimedTick, NEW CONSTANT e \in Entries,
         NEW n, n = left[e.task], NEW d, d = Distance(e.resume_time),
         InBound(n - 1, n - 1 - d)
  PROVE  /\ left'[e.task] = n - 1 /\ Distance(e.resume_time)' = d - 1
         /\ Waiting(n - 1, d - 1)
<1>1. /\ e.task \in Task /\ e.resume_time \in Int /\ e.task \in Sleeping
      /\ n \in Int /\ d \in Int /\ kernel_ticks \in Int
  BY LateTypes
<1>2. n <= Longest /\ Waiting(n, d)
  BY <1>1 DEF LateInd, LeftLongest, QueueInBound
<1>3. -TickMod <= 2 * (d - 1)
  BY <1>1, <1>2, WaitingBounds
<1>4. kernel_ticks' = (kernel_ticks + 1) % TickMod /\ left'[e.task] = CountDown(e.task)
  BY <1>1 DEF TimedTick, TickInterrupt, SysTick, next_tick
<1>5. d = Dist(e.resume_time, kernel_ticks)
  BY DistanceIs
<1>6. Dist(e.resume_time, kernel_ticks') = d - 1
  BY <1>1, <1>3, <1>4, <1>5, DistFalls
<1>7. CountDown(e.task) = n - 1
  <2>1. CASE n > 0
    BY <2>1 DEF CountDown
  <2>2. CASE ~(n > 0)
    <3>1. CountDown(e.task) = Max({n - 1, -MaxCount})
      BY <1>1, <2>2 DEF CountDown
    <3>2. n - 1 >= -MaxCount /\ MaxCount \in Nat
      <4>1. Longest \in Nat /\ Longest > 0 /\ MaxCount \in Nat /\ Longest <= MaxCount
        BY LongestFacts DEF TwoSleepers
      <4>2. n - 1 >= -1 \/ n - 1 > -Longest
        BY DEF InBound
      <4> QED BY <1>1, <4>1, <4>2
    <3> DEFINE a == n - 1
               b == -MaxCount
    <3>3. a \in Int /\ b \in Int /\ a >= b
      BY <1>1, <3>2
    <3> HIDE DEF a, b
    <3>4. Max({a, b}) = a
      BY <3>3 DEF Max
    <3> QED BY <3>1, <3>4 DEF a, b
  <2> QED BY <2>1, <2>2
<1>8. Waiting(n - 1, d - 1)
  BY <1>1, <1>2, WaitingFalls
<1> QED BY <1>4, <1>6, <1>7, <1>8, DistanceIs

\* The first sleeper of the current cycle has at least two ticks more when it is
\* not woken, and so has everybody when the list is empty.
LEMMA TickFirst ==
  ASSUME IndInv, TimeInd, LateInd, TwoSleepers, TimedTick, ~timed_out
  PROVE  /\ blocked_curr # <<>> => 1 \in DOMAIN Queue /\ Queue[1] = Head(blocked_curr)
                                   /\ left[Queue[1].task] >= 2
         /\ \A e \in Range(blocked_next) : ~ready_switch_next => left[e.task] >= 2
<1>1. ASSUME blocked_curr # <<>>
      PROVE  1 \in DOMAIN Queue /\ Queue[1] = Head(blocked_curr) /\ left[Queue[1].task] >= 2
  <2> DEFINE f == Head(blocked_curr)
  <2>1. f \in Range(blocked_curr) /\ 1 \in DOMAIN Queue /\ Queue[1] = f
    <3>1. blocked_curr \in Seq(Sleeper) /\ Len(blocked_curr) >= 1
      BY <1>1, QueueType
    <3>2. 1 \in DOMAIN Queue /\ Queue[1] = blocked_curr[1]
      BY <3>1, QueueType
    <3> QED BY <1>1, <3>1, <3>2 DEF Range
  <2>2. f \in Entries
    BY <2>1 DEF Entries
  <2> HIDE DEF f
  <2> DEFINE n == left[f.task]
             d == Distance(f.resume_time)
  <2>3. f.task \in Task /\ f.resume_time \in Int /\ n \in Int /\ d \in Int /\ kernel_ticks \in Int
    BY <2>2, LateTypes
  <2>4. n <= Longest /\ Waiting(n, d)
    BY <2>2, <2>3 DEF LateInd, LeftLongest, QueueInBound
  <2>5. ~tick_after(next_tick, f.resume_time)
    BY <1>1 DEF timed_out, f
  <2>6. d = Dist(f.resume_time, kernel_ticks) /\ next_tick = (kernel_ticks + 1) % TickMod
        /\ next_tick \in Int
    <3>1. next_tick = (kernel_ticks + 1) % TickMod /\ kernel_ticks + 1 \in Int
      BY <2>3 DEF next_tick
    <3>2. next_tick \in Int
      BY <3>1, Divided, TickModAssumption
    <3> QED BY <3>1, <3>2, DistanceIs
  <2> HIDE DEF n, d
  <2>7. (n <= 0 => d < 0) /\ (n > 0 => d = n - 1) /\ -TickMod <= 2 * (d - 1)
    BY <2>3, <2>4, WaitingBounds
  <2>8. Dist(f.resume_time, next_tick) = d - 1
    BY <2>3, <2>6, <2>7, DistFalls
  <2>9. ~(d - 1 < 0)
    BY <2>3, <2>5, <2>6, <2>8, DistOver
  <2>10. n >= 2
    BY <2>3, <2>7, <2>9
  <2> QED BY <2>1, <2>10 DEF n, f
<1>2. ASSUME NEW e \in Range(blocked_next), ~ready_switch_next PROVE left[e.task] >= 2
  <2>1. left[e.task] > TickMod - kernel_ticks
    BY <1>2 DEF LateInd, CycleKept
  <2>2. e \in Entries
    BY DEF Entries
  <2>3. kernel_ticks \in Int /\ TickMod \in Int /\ left[e.task] \in Int /\ kernel_ticks < TickMod
    BY <2>2, LateTypes, TickModAssumption
  <2> QED BY <2>1, <2>3
<1> QED BY <1>1, <1>2

\* A sleeper that stays in the queue is in bounds at the next tick.
LEMMA TickStays ==
  ASSUME IndInv, TimeInd, LateInd, TwoSleepers, TimedTick, NEW CONSTANT e \in Entries'
  PROVE  e \in Entries /\ InBound(left[e.task] - 1, left[e.task] - 1 - Distance(e.resume_time))
<1>1. e \in Entries
  BY TickEntries DEF TimedTick
<1>2. left[e.task] \in Int /\ Distance(e.resume_time) \in Int
  BY <1>1, LateTypes
<1> DEFINE n == left[e.task]
           lag == n - 1 - Distance(e.resume_time)
<1>3. n \in Int /\ lag \in Int
  BY <1>2
<1> HIDE DEF n, lag
<1>4. Queue \in Seq(Sleeper) /\ DOMAIN Queue = 1 .. Len(Queue) /\ Len(Queue) \in Nat
  BY QueueType
<1>5. PICK i \in DOMAIN Queue : Queue[i] = e
  BY <1>1, QueueType DEF Range
<1>6. ASSUME i # 1 PROVE InBound(n - 1, lag)
  <2>1. 1 \in DOMAIN Queue /\ 1 < i
    BY <1>4, <1>6
  <2>2. Second(left[Queue[1].task], left[Queue[i].task], Distance(Queue[i].resume_time))
    BY <1>5, <2>1 DEF LateInd, QueueInBound
  <2> QED BY <1>5, <2>2 DEF Second, n, lag
<1>7. ASSUME n >= 2 PROVE InBound(n - 1, lag)
  <2>1. n - 1 \in Int /\ n - 1 >= 0
    BY <1>3, <1>7
  <2> QED BY <1>3, <2>1, StillInBound
<1>8. CASE timed_out
  <2>1. TickInterrupt /\ started
    BY DEF TimedTick, TickInterrupt
  <2>3. PICK k \in DOMAIN Queue' : Queue'[k] = e
    <3>1. Range(Queue') = Entries'
      BY <2>1, TickQueue
    <3> QED BY <3>1 DEF Range
  <2>4. k \in 1 .. Len(Queue) - 1 /\ Queue[k + 1] = e
    BY <1>8, <2>1, <2>3, TickQueue
  <2>5. 1 \in DOMAIN Queue /\ k + 1 \in DOMAIN Queue /\ 1 < k + 1
    BY <1>4, <2>4
  <2>6. Second(left[Queue[1].task], left[Queue[k + 1].task], Distance(Queue[k + 1].resume_time))
    BY <2>5 DEF LateInd, QueueInBound
  <2> QED BY <1>1, <2>4, <2>6 DEF Second, n, lag
<1>9. CASE ~timed_out
  <2>1. CASE blocked_curr # <<>>
    <3>1. 1 \in DOMAIN Queue /\ left[Queue[1].task] >= 2
      BY <1>9, <2>1, TickFirst
    <3>2. i = 1 => n >= 2
      BY <1>5, <3>1 DEF n
    <3> QED BY <1>1, <1>6, <1>7, <3>2 DEF n, lag
  <2>2. CASE blocked_curr = <<>>
    <3>1. e \in Range(blocked_next) /\ ~ready_switch_next
      BY <1>1, <2>2 DEF Entries, Range, LateInd, CycleKept
    <3>2. n >= 2
      BY <1>9, <3>1, TickFirst DEF n
    <3> QED BY <1>1, <1>7, <3>2 DEF n, lag
  <2> QED BY <2>1, <2>2
<1> QED BY <1>8, <1>9

\* A tick, for the tasks in task_do_sleep: they are awake.
LEMMA TickCalls ==
  ASSUME IndInv, TimeInd, LateInd, TwoSleepers, TimedTick
  PROVE  CallsInBound'
<1>1. /\ pc' = pc /\ resume_time' = resume_time /\ CalledInTime
      /\ kernel_ticks' = (kernel_ticks + 1) % TickMod
      /\ left' = [t \in Task |-> CountDown(t)]
  BY DEF TimedTick, TickInterrupt, SysTick, next_tick, taskVars
<1>2. ASSUME NEW t \in Task, pc[t] \in InSleep
      PROVE  /\ Caller(left'[t], Dist(resume_time[t], kernel_ticks'))
             /\ pc[t] = "block" => Tested(left'[t], Dist(resume_time[t], kernel_ticks'))
  <2> DEFINE n == left[t]
             d == Distance(resume_time[t])
  <2>1. n \in Int /\ d \in Int /\ resume_time[t] \in Int /\ kernel_ticks \in Int
        /\ d = Dist(resume_time[t], kernel_ticks)
    BY LateTypes, DistanceIs
  <2>2. Caller(n, d) /\ (pc[t] = "block" => Tested(n, d))
    BY <1>2 DEF LateInd, CallsInBound
  <2>3. d > -MaxDelay
    BY <1>1, <1>2 DEF CalledInTime, InSleep
  <2>4. t \notin Sleeping
    BY <1>2 DEF LateInd, SleepersOut
  <2>5. left'[t] = IF n > 0 THEN n - 1 ELSE 0
    BY <1>1, <2>4 DEF CountDown
  <2> HIDE DEF n, d
  <2>6. MaxDelay \in Nat /\ Longest \in Nat /\ TickMod \in Nat
        /\ 2 * (Longest + MaxDelay + 1) <= TickMod
    BY LongestFacts DEF TwoSleepers
  <2>7. -TickMod <= 2 * (d - 1)
    BY <2>1, <2>3, <2>6
  <2>8. Dist(resume_time[t], kernel_ticks') = d - 1
    BY <1>1, <2>1, <2>7, DistFalls
  <2>9. Caller(left'[t], d - 1)
    BY <2>1, <2>2, <2>3, <2>5, <2>6 DEF Caller
  <2>10. Tested(left'[t], d - 1)
    BY <2>1, <2>3, <2>5, <2>6 DEF Tested
  <2> QED BY <2>8, <2>9, <2>10
<1> QED BY <1>1, <1>2, DistanceIs DEF CallsInBound, InSleep

\* A tick.
LEMMA TickLate ==
  ASSUME IndInv, TimeInd, LateInd, TwoSleepers, TimedTick
  PROVE  LateInd'
<1>1. /\ TickInterrupt /\ started /\ pc' = pc /\ resume_time' = resume_time
      /\ kernel_ticks' = next_tick /\ next_tick = (kernel_ticks + 1) % TickMod
      /\ left' = [t \in Task |-> CountDown(t)]
  BY DEF TimedTick, TickInterrupt, SysTick, next_tick, taskVars
<1>2. LeftLongest'
  <2>1. ASSUME NEW t \in Task PROVE left'[t] <= Longest
    <3>1. left[t] \in Int /\ left[t] <= Longest /\ Longest \in Nat
      BY LateTypes, LongestFacts DEF LateInd, LeftLongest
    <3>2. left'[t] \in Int /\ (left'[t] > 0 => left'[t] = left[t] - 1)
      BY CountFalls DEF TimeInd
    <3> QED BY <3>1, <3>2
  <2> QED BY <2>1 DEF LeftLongest
<1>3. ASSUME NEW CONSTANT e \in Entries'
      PROVE  /\ e \in Entries
             /\ left'[e.task] = left[e.task] - 1
             /\ Distance(e.resume_time)' = Distance(e.resume_time) - 1
             /\ Waiting(left[e.task] - 1, Distance(e.resume_time) - 1)
  BY TickEntry, TickStays
<1>4. \A e \in Entries : left[e.task] \in Int /\ Distance(e.resume_time) \in Int
  BY LateTypes
<1>5. QueueInBound'
  <2>1. \A e \in Entries' : Waiting(left'[e.task], Distance(e.resume_time)')
    BY <1>3
  <2>2. ASSUME NEW CONSTANT i \in DOMAIN Queue', NEW CONSTANT j \in DOMAIN Queue', i < j
        PROVE  Second(left'[Queue'[i].task], left'[Queue'[j].task],
                      Dist(Queue'[j].resume_time, kernel_ticks'))
    <3>1. Len(Queue) <= 2 /\ Len(Queue) \in Nat /\ DOMAIN Queue = 1 .. Len(Queue)
      BY <1>1, TwoInQueue, QueueType
    <3>2. ~timed_out /\ Queue' = Queue
      <4>1. CASE timed_out
        <5>1. i \in 1 .. Len(Queue) - 1 /\ j \in 1 .. Len(Queue) - 1
          BY <1>1, <4>1, TickQueue
        <5> QED BY <2>2, <3>1, <5>1
      <4> QED BY <1>1, <4>1, TickQueue
    <3>3. i = 1 /\ j = 2 /\ 1 \in DOMAIN Queue /\ 2 \in DOMAIN Queue
      BY <2>2, <3>1, <3>2
    <3> DEFINE f == Queue[1]
               e == Queue[2]
    <3>4. f \in Entries' /\ e \in Entries' /\ f \in Entries /\ e \in Entries
      <4>1. Range(Queue) = Entries' /\ Range(Queue) = Entries
        BY <1>1, <3>2, TickQueue, QueueType
      <4> QED BY <3>3, <4>1 DEF Range
    <3>5. Second(left[f.task], left[e.task], Distance(e.resume_time))
      BY <3>3 DEF LateInd, QueueInBound
    <3>6. left[f.task] >= 2
      <4>1. CASE blocked_curr # <<>>
        BY <3>2, <4>1, TickFirst
      <4>2. CASE blocked_curr = <<>>
        <5>1. f \in Range(blocked_next) /\ ~ready_switch_next
          BY <3>4, <4>2 DEF Entries, Range, LateInd, CycleKept
        <5> QED BY <3>2, <5>1, TickFirst
      <4> QED BY <4>1, <4>2
    <3> HIDE DEF f, e
    <3>7. Second(left[f.task] - 1, left[e.task] - 1, Distance(e.resume_time) - 1)
      BY <1>4, <3>4, <3>5, <3>6, SecondFalls
    <3>8. left'[f.task] = left[f.task] - 1 /\ left'[e.task] = left[e.task] - 1
          /\ Dist(e.resume_time, kernel_ticks') = Distance(e.resume_time) - 1
      BY <1>3, <3>4, DistanceIs
    <3>9. Queue'[i] = f /\ Queue'[j] = e
      BY <3>2, <3>3 DEF f, e
    <3> QED BY <3>7, <3>8, <3>9
  <2>3. ASSUME NEW CONSTANT i \in DOMAIN Queue', NEW CONSTANT j \in DOMAIN Queue', i < j
        PROVE  Second(left[Queue[i].task], left[Queue[j].task],
                       Distance(Queue[j].resume_time))'
    BY <2>2, <2>3 DEF Distance, Dist, Second
  <2> QED BY <2>1, <2>3 DEF QueueInBound
<1>6. CycleKept'
  <2>1. /\ blocked_curr' = IF switch_cycle THEN blocked_next ELSE still_blocked
        /\ blocked_next' = IF switch_cycle THEN still_blocked ELSE blocked_next
        /\ ready_switch_next' = ((ready_switch_next \/ next_tick = 0) /\ ~switch_cycle)
    BY <1>1 DEF TickInterrupt, SysTick
  <2>2. ready_switch_next' => blocked_curr' # <<>>
    BY <2>1 DEF switch_cycle
  <2>3. ASSUME ~ready_switch_next', NEW CONSTANT e \in Range(blocked_next')
        PROVE  left'[e.task] > TickMod - kernel_ticks'
    <3>1. ~switch_cycle
      BY <2>1, <2>3 DEF switch_cycle, Range
    <3>2. ~ready_switch_next /\ next_tick # 0 /\ blocked_next' = blocked_next
      BY <2>1, <2>3, <3>1
    <3>3. e \in Entries' /\ e \in Entries /\ left[e.task] > TickMod - kernel_ticks
      BY <2>3, <3>2 DEF Entries, LateInd, CycleKept
    <3>4. left'[e.task] = left[e.task] - 1 /\ left[e.task] \in Int
      BY <1>3, <1>4, <3>3
    <3>5. kernel_ticks' = kernel_ticks + 1
      <4>1. kernel_ticks \in Nat /\ kernel_ticks < TickMod /\ TickMod \in Nat \ {0}
        BY LateTypes, TickModAssumption
      <4>2. CASE kernel_ticks + 1 < TickMod
        <5>1. kernel_ticks + 1 \in 0 .. TickMod - 1
          BY <4>1, <4>2
        <5> QED BY <1>1, <4>1, <5>1, ModSmall
      <4>3. CASE kernel_ticks + 1 = TickMod
        <5>1. TickMod % TickMod = 0
          <6>1. TickMod = (1 * TickMod) + 0 /\ 0 \in 0 .. TickMod - 1
            BY <4>1
          <6> QED BY <4>1, <6>1, ModUnique
        <5> QED BY <1>1, <3>2, <4>3, <5>1
      <4> QED BY <4>1, <4>2, <4>3
    <3> QED BY <3>3, <3>4, <3>5, LateTypes, TickModAssumption
  <2> QED BY <2>2, <2>3 DEF CycleKept
<1>7. NoneInFront'
  <2> SUFFICES ASSUME blocked_curr' # <<>>, left'[Head(blocked_curr').task] < 0,
                      NEW CONSTANT t \in Task, pc[t] = "block"
               PROVE  FALSE
    BY <1>1 DEF NoneInFront
  <2> DEFINE f == Head(blocked_curr')
  <2>1. f \in Range(blocked_curr') /\ f \in Entries' /\ f \in Entries
    <3>1. blocked_curr' \in Seq(Sleeper)
      <4>1. blocked_curr \in Seq(Sleeper) /\ blocked_next \in Seq(Sleeper)
        BY QueueType
      <4>2. still_blocked \in Seq(Sleeper)
        BY <4>1 DEF still_blocked, timed_out
      <4> QED BY <1>1, <4>1, <4>2 DEF TickInterrupt, SysTick
    <3>2. f \in Range(blocked_curr')
      BY <3>1, TailRange
    <3>3. f \in Entries'
      BY <3>2 DEF Entries
    <3> HIDE DEF f
    <3> QED BY <1>3, <3>2, <3>3
  <2>2. left'[f.task] = left[f.task] - 1 /\ left[f.task] \in Int /\ left'[f.task] < 0
    <3>1. left'[f.task] < 0
      OBVIOUS
    <3> HIDE DEF f
    <3> QED BY <1>3, <1>4, <2>1, <3>1
  <2>3. CASE timed_out
    <3>1. Len(Queue) = 2
      <4>1. Range(Queue') = Entries' /\ DOMAIN Queue' = 1 .. Len(Queue) - 1
        BY <1>1, <2>3, TickQueue
      <4>2. Range(Queue') # {}
        BY <2>1, <4>1
      <4>3. 1 .. Len(Queue) - 1 # {}
        BY <4>1, <4>2 DEF Range
      <4>4. PICK n \in Nat : n = Len(Queue)
        BY QueueType
      <4>5. n <= 2 /\ 1 .. n - 1 # {}
        BY <1>1, <4>3, <4>4, TwoInQueue
      <4>6. n = 2
        BY <4>5
      <4> QED BY <4>4, <4>6
    <3>2. t \in Sleeping \/ t = IdleTask
      BY <1>1, <3>1, TwoInQueue
    <3>3. t \notin Sleeping
      BY DEF LateInd, SleepersOut, InSleep
    <3>4. t # IdleTask
      BY <1>1 DEF IndInv, Idle
    <3> QED BY <3>2, <3>3, <3>4
  <2>4. CASE ~timed_out
    <3>1. left[f.task] >= 2
      <4>1. CASE blocked_curr # <<>>
        <5>1. ~switch_cycle /\ still_blocked = blocked_curr
          BY <2>4, <4>1 DEF switch_cycle, still_blocked
        <5>2. f = Head(blocked_curr)
          BY <1>1, <5>1 DEF TickInterrupt, SysTick
        <5>3. Queue[1] = f /\ left[Queue[1].task] >= 2
          BY <2>4, <4>1, <5>2, TickFirst
        <5> QED BY <5>3
      <4>2. CASE blocked_curr = <<>>
        <5>1. f \in Range(blocked_next) /\ ~ready_switch_next
          BY <2>1, <4>2 DEF Entries, Range, LateInd, CycleKept
        <5> HIDE DEF f
        <5> QED BY <2>4, <5>1, TickFirst
      <4> QED BY <4>1, <4>2
    <3> HIDE DEF f
    <3> QED BY <2>2, <3>1
  <2> QED BY <2>3, <2>4
<1>8. CallsInBound'
  BY TickCalls
<1>9. SleepersOut'
  <2>1. ASSUME NEW t \in Sleeping' PROVE t \in Sleeping
    <3>1. PICK e \in Entries' : e.task = t
      BY <2>1, NodesSleep DEF Sleeping, Entries
    <3>2. e \in Entries
      BY <1>1, TickEntries
    <3> QED BY <3>1, <3>2, NodesSleep DEF Sleeping, Entries
  <2> QED BY <1>1, <2>1 DEF LateInd, SleepersOut, InSleep
<1> QED BY <1>2, <1>5, <1>6, <1>7, <1>8, <1>9 DEF LateInd

\* A step that changes neither the sleepers nor the tick count: a caller may come
\* to its atomic block, if its time is not over.
LEMMA QuietLate ==
  ASSUME IndInv, TimeInd, LateInd, TwoSleepers,
         left' = left, kernel_ticks' = kernel_ticks, ready_switch_next' = ready_switch_next,
         blocked_curr' = blocked_curr, blocked_next' = blocked_next,
         \A t \in Task : pc'[t] \in InSleep =>
           /\ resume_time'[t] = resume_time[t]
           /\ \/ pc'[t] = pc[t]
              \/ pc[t] = "check" /\ ~tick_after(kernel_ticks, resume_time[t])
  PROVE  LateInd'
<1>1. Entries' = Entries /\ Sleeping' = Sleeping /\ Queue' = Queue
  BY DEF Entries, Sleeping, Queue
<1>2. LeftLongest'
  BY DEF LateInd, LeftLongest
<1>3. QueueInBound'
  <2>1. \A e \in Entries' : Waiting(left'[e.task], Dist(e.resume_time, kernel_ticks'))
    BY <1>1, DistanceIs DEF LateInd, QueueInBound
  <2>2. \A i, j \in DOMAIN Queue' :
          i < j => Second(left'[Queue'[i].task], left'[Queue'[j].task],
                          Dist(Queue'[j].resume_time, kernel_ticks'))
    BY <1>1, DistanceIs DEF LateInd, QueueInBound
  <2> QED BY <2>1, <2>2 DEF QueueInBound, Distance, Dist
<1>4. CycleKept'
  BY DEF LateInd, CycleKept
<1>5. ASSUME NEW t \in Task, pc'[t] \in InSleep
      PROVE  /\ Caller(left'[t], Dist(resume_time'[t], kernel_ticks'))
             /\ pc'[t] = "block" => /\ Tested(left'[t], Dist(resume_time'[t], kernel_ticks'))
                                    /\ \/ pc[t] = "block"
                                       \/ Dist(resume_time'[t], kernel_ticks') >= 0
  <2> DEFINE n == left[t]
             d == Distance(resume_time[t])
  <2>1. n \in Int /\ d \in Int /\ resume_time[t] \in Int /\ kernel_ticks \in Int
        /\ d = Dist(resume_time[t], kernel_ticks)
    BY LateTypes, DistanceIs
  <2>2. resume_time'[t] = resume_time[t] /\ pc[t] \in InSleep
        /\ (pc'[t] = pc[t] \/ (pc[t] = "check" /\ ~tick_after(kernel_ticks, resume_time[t])))
    BY <1>5 DEF InSleep
  <2>3. Caller(n, d) /\ (pc[t] = "block" => Tested(n, d))
    BY <2>2 DEF LateInd, CallsInBound
  <2>4. tick_after(kernel_ticks, resume_time[t]) <=> d < 0
    BY <2>1, DistOver
  <2> HIDE DEF n, d
  <2>5. MaxDelay \in Nat
    BY LongestFacts
  <2>6. d >= 0 => Tested(n, d)
    BY <2>1, <2>3, <2>5 DEF Caller, Tested
  <2>7. Dist(resume_time'[t], kernel_ticks') = d /\ left'[t] = n
    BY <2>1, <2>2 DEF n
  <2>8. pc[t] = "block" \/ (pc'[t] = "block" => d >= 0)
    BY <2>1, <2>2, <2>4 DEF InSleep
  <2> QED BY <2>3, <2>6, <2>7, <2>8
<1>6. CallsInBound'
  BY <1>5 DEF CallsInBound, InSleep, Distance, Dist
<1>7. NoneInFront'
  <2> SUFFICES ASSUME blocked_curr # <<>>, left[Head(blocked_curr).task] < 0,
                      NEW CONSTANT t \in Task, pc'[t] = "block"
               PROVE  Dist(resume_time'[t], kernel_ticks') >= 0
    BY DEF NoneInFront, Distance, Dist
  <2>1. CASE pc[t] = "block"
    <3>1. Distance(resume_time[t]) >= 0
      BY <2>1 DEF LateInd, NoneInFront
    <3>2. resume_time'[t] = resume_time[t]
      BY DEF InSleep
    <3> QED BY <3>1, <3>2, DistanceIs
  <2> QED BY <1>5, <2>1 DEF InSleep
<1>8. SleepersOut'
  <2>1. ASSUME NEW t \in Sleeping, t \in Task PROVE pc'[t] \notin InSleep
    BY <2>1 DEF LateInd, SleepersOut, InSleep
  <2>2. Sleeping \subseteq Task
    <3>1. ASSUME NEW t \in Sleeping PROVE t \in Task
      <4>1. PICK e \in Entries : e.task = t
        BY NodesSleep DEF Sleeping, Entries
      <4> QED BY <4>1, LateTypes
    <3> QED BY <3>1
  <2> QED BY <1>1, <2>1, <2>2 DEF SleepersOut, InSleep
<1> QED BY <1>2, <1>3, <1>4, <1>6, <1>7, <1>8 DEF LateInd

\* A call for n ticks from now, or -n ticks ago.
LEMMA CallLate ==
  ASSUME IndInv, TimeInd, LateInd, TwoSleepers, NEW t \in Task, AtStep(t, "user"),
         NEW n \in Int, n <= Longest, n >= -MaxDelay,
         left' = [left EXCEPT ![t] = n], pc' = [pc EXCEPT ![t] = "check"],
         kernel_ticks' = kernel_ticks, ready_switch_next' = ready_switch_next,
         blocked_curr' = blocked_curr, blocked_next' = blocked_next,
         \A u \in Task \ {t} : resume_time'[u] = resume_time[u],
         Dist(resume_time'[t], kernel_ticks) = n - 1
  PROVE  LateInd'
<1>1. Entries' = Entries /\ Sleeping' = Sleeping /\ Queue' = Queue /\ t \notin Sleeping
  BY CallerAwake DEF Entries, Sleeping, Queue
<1>2. /\ left'[t] = n /\ pc'[t] = "check" /\ left' \in [Task -> Int]
      /\ \A u \in Task \ {t} : left'[u] = left[u] /\ pc'[u] = pc[u]
  BY LateTypes
<1>3. \A e \in Entries : e.task \in Task \ {t} /\ left'[e.task] = left[e.task]
  BY <1>1, <1>2, LateTypes
<1>4. LeftLongest'
  BY <1>2 DEF LateInd, LeftLongest
<1>5. QueueInBound'
  <2>1. \A e \in Entries' : Waiting(left'[e.task], Dist(e.resume_time, kernel_ticks'))
    BY <1>1, <1>3, DistanceIs DEF LateInd, QueueInBound
  <2>2. ASSUME NEW i \in DOMAIN Queue', NEW j \in DOMAIN Queue', i < j
        PROVE  Second(left'[Queue'[i].task], left'[Queue'[j].task],
                      Dist(Queue'[j].resume_time, kernel_ticks'))
    <3>1. Queue[i] \in Entries /\ Queue[j] \in Entries
      BY <1>1, <2>2, QueueType DEF Range
    <3>2. Second(left[Queue[i].task], left[Queue[j].task], Distance(Queue[j].resume_time))
      BY <1>1, <2>2 DEF LateInd, QueueInBound
    <3> QED BY <1>1, <1>3, <3>1, <3>2, DistanceIs
  <2> QED BY <2>1, <2>2 DEF QueueInBound, Distance, Dist
<1>6. CycleKept'
  <2>1. \A e \in Range(blocked_next) : left'[e.task] = left[e.task]
    BY <1>3 DEF Entries
  <2> QED BY <2>1 DEF LateInd, CycleKept
<1>7. NoneInFront'
  <2> SUFFICES ASSUME blocked_curr # <<>>, left'[Head(blocked_curr).task] < 0,
                      NEW CONSTANT u \in Task, pc'[u] = "block"
               PROVE  Dist(resume_time'[u], kernel_ticks') >= 0
    BY DEF NoneInFront, Distance, Dist
  <2>1. u # t /\ pc[u] = "block"
    BY <1>2
  <2>2. Head(blocked_curr) \in Entries
    BY QueueType, TailRange DEF Entries
  <2>3. left[Head(blocked_curr).task] < 0
    BY <1>3, <2>2
  <2>4. Distance(resume_time[u]) >= 0
    BY <2>1, <2>3 DEF LateInd, NoneInFront
  <2> QED BY <2>1, <2>4, DistanceIs
<1>8. CallsInBound'
  <2>1. Caller(left'[t], Dist(resume_time'[t], kernel_ticks'))
    <3>1. n - 1 >= -MaxDelay - 1 /\ (n <= 0 => n - 1 < 0)
      BY LongestFacts
    <3> QED BY <1>2, <3>1 DEF Caller
  <2>2. ASSUME NEW u \in Task, pc'[u] \in InSleep
        PROVE  /\ Caller(left'[u], Dist(resume_time'[u], kernel_ticks'))
               /\ pc'[u] = "block" => Tested(left'[u], Dist(resume_time'[u], kernel_ticks'))
    <3>1. CASE u = t
      BY <1>2, <2>1, <3>1
    <3>2. CASE u # t
      <4>1. left'[u] = left[u] /\ pc'[u] = pc[u] /\ resume_time'[u] = resume_time[u]
        BY <1>2, <3>2
      <4>2. /\ Caller(left[u], Distance(resume_time[u]))
            /\ pc[u] = "block" => Tested(left[u], Distance(resume_time[u]))
        BY <2>2, <4>1 DEF LateInd, CallsInBound
      <4> QED BY <4>1, <4>2, DistanceIs
    <3> QED BY <3>1, <3>2
  <2> QED BY <2>2 DEF CallsInBound, InSleep, Distance, Dist
<1>9. SleepersOut'
  <2>1. ASSUME NEW u \in Sleeping PROVE pc'[u] \notin InSleep
    <3>1. PICK e \in Entries : e.task = u
      BY NodesSleep DEF Sleeping, Entries
    <3>2. u \in Task \ {t}
      BY <1>3, <3>1
    <3> QED BY <1>2, <3>2 DEF LateInd, SleepersOut
  <2> QED BY <1>1, <2>1 DEF SleepersOut, InSleep
<1> QED BY <1>4, <1>5, <1>6, <1>7, <1>8, <1>9 DEF LateInd

\* task_sleep and task_sleep_until.
LEMMA CallsLate ==
  ASSUME IndInv, TimeInd, LateInd, TwoSleepers, NEW t \in Task,
         TimedSleep(t) \/ TimedSleepUntil(t)
  PROVE  LateInd'
<1>1. /\ kernel_ticks \in Int /\ prev_wake_time[t] \in Int
      /\ resume_time \in [Task -> Tick] /\ TickMod \in Nat /\ TickMod \in Nat \ {0}
      /\ Longest \in Nat /\ MaxDelay \in Nat
      /\ 2 * (Longest + MaxDelay + 1) <= TickMod /\ MaxDelay > 0
  BY TickModAssumption, LongestFacts DEF IndInv, TypeOK, KernelTypeOK, Tick, TwoSleepers
<1>2. ASSUME NEW at \in Int, NEW q \in Int, NEW n \in Int, n <= Longest, n >= -MaxDelay,
             at - kernel_ticks = (q * TickMod) + (n - 1)
      PROVE  Dist(at % TickMod, kernel_ticks) = n - 1
  <2>1. PICK p \in Int : at = (p * TickMod) + (at % TickMod)
    BY <1>1, Divided
  <2>2. at % TickMod \in Int /\ p * TickMod \in Int /\ q * TickMod \in Int
    BY <1>1, Divided
  <2>3. q - p \in Int /\ (q - p) * TickMod = (q * TickMod) - (p * TickMod)
    BY <1>1
  <2>4. PICK r \in Int : r = at % TickMod
    BY <2>2
  <2>5. PICK u \in Int : u = q * TickMod
    BY <2>2
  <2>6. PICK v \in Int : v = p * TickMod
    BY <2>2
  <2>7. PICK m \in Int : m = n - 1
    BY <1>2
  <2>8. at = v + r
    BY <2>1, <2>4, <2>6
  <2>9. at - kernel_ticks = u + m
    BY <1>2, <2>5, <2>7
  <2>10. r - kernel_ticks = (u - v) + m
    BY <1>1, <2>8, <2>9
  <2>11. PICK w \in Int : w = q - p
    BY <2>3
  <2>12. r - kernel_ticks = (w * TickMod) + m
    BY <2>3, <2>5, <2>6, <2>10, <2>11
  <2>13. 2 * m < TickMod /\ -TickMod <= 2 * m
    BY <1>1, <1>2, <2>7
  <2>14. Dist(r, kernel_ticks) = m
    BY <1>1, <2>12, <2>13, DistUnique
  <2> QED BY <2>4, <2>7, <2>14
<1>3. ASSUME NEW ticks \in SleepTicks, task_sleep(t, ticks),
             left' = [left EXCEPT ![t] = ticks]
      PROVE  LateInd'
  <2> DEFINE at == kernel_ticks + ticks - 1
  <2>1. ticks \in Nat /\ ticks \in Int /\ ticks <= Longest /\ ticks >= -MaxDelay
    BY <1>1, LongestFacts
  <2>2. /\ AtStep(t, "user") /\ resume_time'[t] = at % TickMod
        /\ pc' = [pc EXCEPT ![t] = "check"]
        /\ kernel_ticks' = kernel_ticks /\ ready_switch_next' = ready_switch_next
        /\ blocked_curr' = blocked_curr /\ blocked_next' = blocked_next
        /\ \A u \in Task \ {t} : resume_time'[u] = resume_time[u]
    BY <1>1, <1>3 DEF task_sleep, Goto, kernelVars
  <2>3. at \in Int /\ 0 \in Int /\ at - kernel_ticks = (0 * TickMod) + (ticks - 1)
    BY <1>1, <2>1
  <2> HIDE DEF at
  <2>4. Dist(at % TickMod, kernel_ticks) = ticks - 1
    BY <1>2, <2>1, <2>3
  <2> QED BY <1>3, <2>1, <2>2, <2>4, CallLate
<1>4. ASSUME NEW interval \in Intervals, task_sleep_until(t, interval),
             NEW ticks, ticks = Distance(prev_wake_time[t] + interval),
             ticks \in -MaxDelay .. interval,
             left' = [left EXCEPT ![t] = ticks]
      PROVE  LateInd'
  <2> DEFINE target == prev_wake_time[t] + interval
             at == prev_wake_time[t] + interval - 1
  <2>1. interval \in Nat /\ interval <= Longest
    BY LongestFacts
  <2>2. target \in Int /\ at \in Int /\ at = target - 1
    BY <1>1, <2>1
  <2>3. ticks \in Int /\ ticks <= Longest /\ ticks >= -MaxDelay
    BY <1>1, <1>4, <2>1
  <2>4. /\ AtStep(t, "user") /\ resume_time'[t] = at % TickMod
        /\ pc' = [pc EXCEPT ![t] = "check"]
        /\ kernel_ticks' = kernel_ticks /\ ready_switch_next' = ready_switch_next
        /\ blocked_curr' = blocked_curr /\ blocked_next' = blocked_next
        /\ \A u \in Task \ {t} : resume_time'[u] = resume_time[u]
    BY <1>1, <1>4 DEF task_sleep_until, Goto, kernelVars
  <2>5. ticks = Dist(target, kernel_ticks)
    BY <1>4, DistanceIs
  <2> HIDE DEF at, target
  <2>6. PICK q \in Int : target - kernel_ticks = (q * TickMod) + ticks
    BY <1>1, <2>2, <2>5, DistType
  <2>7. q * TickMod \in Int
    BY <1>1
  <2>8. at - kernel_ticks = (q * TickMod) + (ticks - 1)
    BY <1>1, <2>2, <2>3, <2>6, <2>7
  <2>9. Dist(at % TickMod, kernel_ticks) = ticks - 1
    BY <1>2, <2>2, <2>3, <2>8
  <2> QED BY <1>4, <2>3, <2>4, <2>9, CallLate
<1> QED BY <1>3, <1>4 DEF TimedSleep, TimedSleepUntil

\* The atomic block of task_do_sleep: the number of ticks of the new sleeper and
\* its place in the queue.
LEMMA BlockLate ==
  ASSUME IndInv, TimeInd, LateInd, TwoSleepers, NEW CONSTANT t \in Task, Block(t), left' = left
  PROVE  LateInd'
<1>1. /\ AtStep(t, "block") /\ started /\ pc[t] = "block" /\ t \notin Sleeping
      /\ kernel_ticks' = kernel_ticks /\ resume_time' = resume_time
      /\ ready_switch_next' = ready_switch_next
      /\ pc' = [pc EXCEPT ![t] = "yield"]
  BY CallerAwake DEF Block, AtStep, Goto
<1>2. t \in Task /\ resume_time[t] \in Tick
  BY LateTypes
<1>3. PICK x \in Sleeper : x = [task |-> t, resume_time |-> resume_time[t]]
  BY <1>2 DEF Sleeper
<1>4. x.task = t /\ x.resume_time = resume_time[t]
  BY <1>3
<1> DEFINE n == left[t]
           d == Distance(resume_time[t])
<1>5. n \in Int /\ d \in Int /\ resume_time[t] \in Int /\ kernel_ticks \in Int
      /\ d = Dist(resume_time[t], kernel_ticks)
  BY LateTypes, DistanceIs
<1>6. Caller(n, d) /\ Tested(n, d) /\ n <= Longest
  BY <1>1 DEF LateInd, CallsInBound, LeftLongest, InSleep
<1> HIDE DEF n, d
<1>7. /\ MaxDelay \in Nat /\ Longest \in Nat /\ TickMod \in Nat /\ MaxDelay > 0 /\ Longest > 0
      /\ 2 * (Longest + MaxDelay + 1) <= TickMod /\ 4 * Longest <= TickMod
  BY LongestFacts DEF TwoSleepers
<1>8. /\ n >= 0 /\ d >= -MaxDelay /\ d < Longest
      /\ n > 0 => d = n - 1
      /\ n = 0 => d < 0
      /\ d >= 0 => n > 0
  BY <1>5, <1>6, <1>7 DEF Caller, Tested
<1>9. Waiting(n, d)
  BY <1>5, <1>7, <1>8 DEF Waiting, InBound
<1>10. Len(Queue) <= 1 /\ Len(Queue) \in Nat /\ DOMAIN Queue = 1 .. Len(Queue)
  <2>1. Len(Queue) <= 2 /\ Len(Queue) \in Nat /\ DOMAIN Queue = 1 .. Len(Queue)
    BY <1>1, TwoInQueue, QueueType
  <2>2. Len(Queue) # 2
    <3>1. t # IdleTask
      BY <1>1, AtStepFacts
    <3> QED BY <1>1, <3>1, TwoInQueue
  <2> QED BY <2>1, <2>2
<1>11. Entries' = Entries \union {x}
  BY <1>3, BlockEntries
<1>12. /\ Len(Queue') = Len(Queue) + 1 /\ Queue' \in Seq(Sleeper)
       /\ Len(Queue) = 1 =>
              \/ /\ Queue'[1] = x /\ Queue'[2] = Queue[1]
                 /\ \/ tick_after(Queue[1].resume_time, x.resume_time)
                    \/ blocked_curr = <<>> /\ Queue[1] \in Range(blocked_next)
              \/ /\ Queue'[1] = Queue[1] /\ Queue'[2] = x
                 /\ \/ ~tick_after(Queue[1].resume_time, x.resume_time)
                    \/ next_cycle(x.resume_time)
       /\ IF next_cycle(x.resume_time)
            THEN /\ blocked_curr' = blocked_curr
                 /\ Range(blocked_next') = Range(blocked_next) \union {x}
            ELSE /\ blocked_next' = blocked_next
                 /\ blocked_curr' = task_insert_blocked_list(blocked_curr, x)
                 /\ blocked_curr' # <<>>
  BY <1>3, <1>10, BlockQueue
<1>13. next_cycle(x.resume_time) => d >= 0 /\ n > TickMod - kernel_ticks
  <2> SUFFICES ASSUME next_cycle(x.resume_time)
               PROVE  d >= 0 /\ n > TickMod - kernel_ticks
    OBVIOUS
  <2>1. resume_time[t] < kernel_ticks /\ ~tick_after(kernel_ticks, resume_time[t])
    BY <1>4 DEF next_cycle
  <2>2. d >= 0
    BY <1>5, <2>1, DistOver
  <2>3. PICK q \in Int : resume_time[t] - kernel_ticks = (q * TickMod) + d
    BY <1>5, DistType
  <2>4. q <= -1
    <3>1. q >= 0 => q * TickMod >= 0
      <4>1. q = 0 => q * TickMod = 0
        BY <1>7
      <4>2. q >= 1 => q * TickMod >= TickMod
        BY Multiple, TickModAssumption
      <4> QED BY <1>7, <4>1, <4>2
    <3>2. q * TickMod \in Int
      BY <1>7
    <3>3. PICK u \in Int : u = q * TickMod
      BY <3>2
    <3>4. resume_time[t] - kernel_ticks = u + d
      BY <2>3, <3>3
    <3>5. ~(u >= 0)
      BY <1>5, <2>1, <2>2, <3>4
    <3> QED BY <3>1, <3>3, <3>5
  <2>5. q * TickMod <= -TickMod /\ q * TickMod \in Int
    BY <2>4, Multiple, TickModAssumption
  <2>6. PICK u \in Int : u = q * TickMod
    BY <2>5
  <2>7. resume_time[t] - kernel_ticks = u + d /\ u <= -TickMod /\ resume_time[t] >= 0
    BY <1>2, <2>3, <2>5, <2>6 DEF Tick
  <2>8. d >= TickMod - kernel_ticks
    BY <1>5, <1>7, <2>7
  <2>9. n = d + 1
    BY <1>5, <1>8, <2>2
  <2> QED BY <1>5, <1>7, <2>2, <2>8, <2>9
<1>14. LeftLongest'
  BY DEF LateInd, LeftLongest
<1>15. Dist(x.resume_time, kernel_ticks') = d /\ left'[x.task] = n
  BY <1>1, <1>4, <1>5 DEF n
<1>16. \A e \in Entries' : Waiting(left'[e.task], Dist(e.resume_time, kernel_ticks'))
  <2>1. \A e \in Entries : Waiting(left'[e.task], Dist(e.resume_time, kernel_ticks'))
    BY <1>1, DistanceIs DEF LateInd, QueueInBound
  <2> QED BY <1>9, <1>11, <1>15, <2>1
<1>17. ASSUME Len(Queue) = 1
       PROVE  Second(left'[Queue'[1].task], left'[Queue'[2].task],
                     Dist(Queue'[2].resume_time, kernel_ticks'))
  <2> DEFINE e == Queue[1]
             m == left[e.task]
             c == Distance(e.resume_time)
  <2>1. e \in Entries /\ 1 \in DOMAIN Queue
    BY <1>10, <1>17, QueueType DEF Range
  <2>2. m \in Int /\ c \in Int /\ e.resume_time \in Int /\ e.task \in Task
        /\ c = Dist(e.resume_time, kernel_ticks)
    BY <2>1, LateTypes, DistanceIs
  <2>3. Waiting(m, c) /\ m <= Longest
    BY <2>1, <2>2 DEF LateInd, LeftLongest, QueueInBound
  <2>4. c < Longest /\ (m > 0 => c = m - 1) /\ (m <= 0 => c < 0)
    BY <2>2, <2>3, WaitingBounds
  <2>5. /\ blocked_curr = <<>> /\ e \in Range(blocked_next) => m >= 2
        /\ m < 0 => d >= 0
    <3>1. CASE blocked_curr = <<>>
      <4>1. e \in Range(blocked_next) /\ ~ready_switch_next
        BY <2>1, <3>1 DEF Entries, Range, LateInd, CycleKept
      <4>2. m > TickMod - kernel_ticks
        BY <4>1 DEF LateInd, CycleKept
      <4>3. kernel_ticks \in Nat /\ kernel_ticks < TickMod
        BY LateTypes
      <4>4. m >= 2
        BY <1>7, <2>2, <4>2, <4>3
      <4> QED BY <2>2, <4>4
    <3>2. CASE blocked_curr # <<>>
      <4>1. e = Head(blocked_curr)
        <5>1. blocked_curr \in Seq(Sleeper) /\ Len(blocked_curr) \in Nat
          BY QueueType
        <5>2. Len(blocked_curr) >= 1
          BY <3>2, <5>1
        <5>3. Queue[1] = blocked_curr[1]
          BY <2>1, <5>1, <5>2, QueueType
        <5> QED BY <3>2, <5>1, <5>3
      <4>2. m < 0 => d >= 0
        BY <1>1, <3>2, <4>1 DEF LateInd, NoneInFront, d
      <4> QED BY <3>2, <4>2
    <3> QED BY <3>1, <3>2
  <2>6. left'[e.task] = m /\ Dist(e.resume_time, kernel_ticks') = c
    BY <1>1, <2>2
  <2> HIDE DEF e, m, c
  <2>7. m - 1 - c >= 0 /\ (m - 1 - c > 0 => m - 1 - c < MaxDelay /\ m <= 0)
        /\ (m >= -1 \/ (m > -Longest /\ m - 1 - c = 0))
    BY <2>3 DEF Waiting, InBound
  <2>8. 2 * (d - c) < TickMod /\ -TickMod <= 2 * (d - c)
    BY <1>5, <1>7, <1>8, <2>2, <2>4, <2>7
  <2>9. tick_after(e.resume_time, x.resume_time) <=> d < c
    BY <1>4, <1>5, <2>2, <2>8, DistCompare
  <2>10. CASE /\ Queue'[1] = x /\ Queue'[2] = e
              /\ \/ tick_after(e.resume_time, x.resume_time)
                 \/ blocked_curr = <<>> /\ e \in Range(blocked_next)
    <3>1. d < c \/ m >= 2
      BY <2>5, <2>9, <2>10
    <3>2. m >= 0
      BY <1>5, <2>2, <2>4, <2>5, <3>1
    <3>3. m - 1 >= -1
      BY <2>2, <3>2
    <3>4. m - n >= -1 \/ (m - n > -Longest /\ m - 1 - c = 0)
      <4>1. CASE m >= 2
        BY <1>5, <1>6, <1>7, <2>2, <2>4, <4>1
      <4>2. CASE d < c
        BY <1>5, <1>8, <2>2, <2>4, <3>2, <4>2
      <4> QED BY <3>1, <4>1, <4>2
    <3>5. Second(n, m, c)
      BY <3>3, <3>4 DEF Second, InBound
    <3> QED BY <1>15, <2>6, <2>10, <3>5
  <2>11. CASE /\ Queue'[1] = e /\ Queue'[2] = x
              /\ \/ ~tick_after(e.resume_time, x.resume_time)
                 \/ next_cycle(x.resume_time)
    <3>1. ~(d < c) \/ n >= 2
      <4>1. kernel_ticks \in Nat /\ kernel_ticks < TickMod
        BY LateTypes
      <4>2. next_cycle(x.resume_time) => n >= 2
        BY <1>5, <1>7, <1>13, <4>1
      <4> QED BY <2>9, <2>11, <4>2
    <3>2. n - 1 >= -1
      BY <1>5, <1>8
    <3>3. n - m >= -1 \/ (n - m > -Longest /\ n - 1 - d = 0)
      <4>1. CASE n >= 2
        BY <1>5, <1>7, <1>8, <2>2, <2>3, <4>1
      <4>2. CASE ~(d < c)
        BY <1>5, <1>7, <1>8, <2>2, <2>3, <2>4, <4>2
      <4> QED BY <3>1, <4>1, <4>2
    <3>4. Second(m, n, d)
      BY <3>2, <3>3 DEF Second, InBound
    <3> QED BY <1>15, <2>6, <2>11, <3>4
  <2> QED BY <1>12, <1>17, <2>10, <2>11 DEF e
<1>18. QueueInBound'
  <2>1. DOMAIN Queue' = 1 .. Len(Queue) + 1
    BY <1>12
  <2>2. ASSUME NEW i \in DOMAIN Queue', NEW j \in DOMAIN Queue', i < j
        PROVE  Second(left'[Queue'[i].task], left'[Queue'[j].task],
                      Dist(Queue'[j].resume_time, kernel_ticks'))
    <3>1. i = 1 /\ j = 2 /\ Len(Queue) = 1
      BY <1>10, <2>1, <2>2
    <3> QED BY <1>17, <3>1
  <2> QED BY <1>16, <2>2 DEF QueueInBound, Distance, Dist
<1>19. CycleKept'
  <2>1. ready_switch_next => blocked_curr' # <<>>
    BY <1>12 DEF LateInd, CycleKept
  <2>2. ASSUME ~ready_switch_next, NEW e \in Range(blocked_next')
        PROVE  left[e.task] > TickMod - kernel_ticks
    <3>1. CASE next_cycle(x.resume_time)
      <4>1. e \in Range(blocked_next) \/ e = x
        BY <1>12, <2>2, <3>1
      <4> QED BY <1>4, <1>13, <2>2, <3>1, <4>1 DEF LateInd, CycleKept, n
    <3>2. CASE ~next_cycle(x.resume_time)
      BY <1>12, <2>2, <3>2 DEF LateInd, CycleKept
    <3> QED BY <3>1, <3>2
  <2> QED BY <1>1, <2>1, <2>2 DEF CycleKept
<1>20. pc'[t] = "yield" /\ \A u \in Task \ {t} : pc'[u] = pc[u]
  BY <1>1, LateTypes
<1>21. CallsInBound'
  <2>1. ASSUME NEW u \in Task, pc'[u] \in InSleep
        PROVE  /\ Caller(left'[u], Dist(resume_time'[u], kernel_ticks'))
               /\ pc'[u] = "block" => Tested(left'[u], Dist(resume_time'[u], kernel_ticks'))
    <3>1. u # t /\ pc'[u] = pc[u]
      BY <1>20, <2>1 DEF InSleep
    <3>2. /\ Caller(left[u], Distance(resume_time[u]))
          /\ pc[u] = "block" => Tested(left[u], Distance(resume_time[u]))
      BY <2>1, <3>1 DEF LateInd, CallsInBound
    <3> QED BY <1>1, <3>1, <3>2, DistanceIs
  <2> QED BY <2>1 DEF CallsInBound, InSleep, Distance, Dist
<1>22. SleepersOut'
  <2>1. ASSUME NEW u \in Sleeping' PROVE pc'[u] \notin InSleep
    <3>1. PICK e \in Entries' : e.task = u
      BY <2>1, NodesSleep DEF Sleeping, Entries
    <3>2. CASE e = x
      BY <1>4, <1>20, <3>1, <3>2 DEF InSleep
    <3>3. CASE e \in Entries
      <4>1. u \in Sleeping /\ u \in Task
        BY <3>1, <3>3, LateTypes
      <4>2. u # t
        BY <1>1, <4>1
      <4> QED BY <1>20, <4>1, <4>2 DEF LateInd, SleepersOut
    <3> QED BY <1>11, <3>1, <3>2, <3>3
  <2> QED BY <2>1 DEF SleepersOut, InSleep
<1>23. NoneInFront'
  <2> SUFFICES ASSUME blocked_curr' # <<>>, left[Head(blocked_curr').task] < 0,
                      NEW CONSTANT u \in Task, pc'[u] = "block"
               PROVE  Dist(resume_time[u], kernel_ticks) >= 0
    BY <1>1 DEF NoneInFront, Distance, Dist
  <2>1. u # t /\ pc[u] = "block"
    BY <1>20
  <2>2. /\ blocked_curr \in Seq(Sleeper) /\ Len(blocked_curr) \in Nat
        /\ Len(blocked_curr) <= 1 /\ DOMAIN blocked_curr = 1 .. Len(blocked_curr)
    <3>1. Len(Queue) = Len(blocked_curr) + Len(blocked_next)
          /\ Len(blocked_curr) \in Nat /\ Len(blocked_next) \in Nat
      BY QueueType
    <3> QED BY <1>10, <3>1, QueueType
  <2>3. Range(blocked_curr') \subseteq Range(blocked_curr) \union {x}
        /\ blocked_curr' \in Seq(Sleeper)
    <3>1. CASE next_cycle(x.resume_time)
      BY <1>12, <2>2, <3>1
    <3>2. CASE ~next_cycle(x.resume_time)
      BY <1>12, <2>2, <3>2, InsertRange, InsertBlocked
    <3> QED BY <3>1, <3>2
  <2> DEFINE f == Head(blocked_curr')
  <2>4. f \in Range(blocked_curr')
    BY <2>3, TailRange
  <2>5. left[f.task] < 0
    OBVIOUS
  <2> HIDE DEF f
  <2>6. f # x
    BY <1>4, <1>5, <1>8, <2>5 DEF n
  <2>7. f \in Range(blocked_curr)
    BY <2>3, <2>4, <2>6
  <2>8. blocked_curr # <<>> /\ f = Head(blocked_curr)
    <3>1. PICK k \in DOMAIN blocked_curr : blocked_curr[k] = f
      BY <2>7 DEF Range
    <3>2. k = 1
      BY <2>2, <3>1
    <3> QED BY <2>2, <3>1, <3>2
  <2>9. Distance(resume_time[u]) >= 0
    BY <2>1, <2>5, <2>8 DEF LateInd, NoneInFront
  <2> QED BY <2>9, DistanceIs
<1> QED BY <1>14, <1>18, <1>19, <1>21, <1>22, <1>23 DEF LateInd

\* The steps of a task in a call.
LEMMA InCallLate ==
  ASSUME IndInv, TimeInd, LateInd, TwoSleepers, NEW CONSTANT t \in Task,
         TimedCheck(t) \/ OtherStep(t)
  PROVE  LateInd'
<1>1. /\ left' = left /\ pc \in [Task -> Step]
      /\ ret \in [Task -> {"user", "set_prev_wake", "deleted", "reap"}]
      /\ resume_time \in [Task -> Tick]
  BY DEF TimedCheck, OtherStep, IndInv, TypeOK
<1>2. CASE Block(t)
  BY <1>1, <1>2, BlockLate
<1>3. CASE TimedCheck(t)
  <2>1. /\ pc[t] = "check" /\ resume_time' = resume_time
        /\ kernel_ticks' = kernel_ticks /\ ready_switch_next' = ready_switch_next
        /\ blocked_curr' = blocked_curr /\ blocked_next' = blocked_next
        /\ pc' = [pc EXCEPT ![t] = IF tick_after(kernel_ticks, resume_time[t])
                                   THEN "yield" ELSE "block"]
    BY <1>3 DEF TimedCheck, CheckTimeout, AtStep, Goto, kernelVars
  <2>2. /\ pc'[t] = IF tick_after(kernel_ticks, resume_time[t]) THEN "yield" ELSE "block"
        /\ \A u \in Task \ {t} : pc'[u] = pc[u]
    BY <1>1, <2>1
  <2>3. ASSUME NEW u \in Task, pc'[u] \in InSleep
        PROVE  /\ resume_time'[u] = resume_time[u]
               /\ \/ pc'[u] = pc[u]
                  \/ pc[u] = "check" /\ ~tick_after(kernel_ticks, resume_time[u])
    BY <2>1, <2>2, <2>3 DEF InSleep
  <2> QED BY <1>1, <2>1, <2>3, QuietLate
<1>4. ASSUME kernel_ticks' = kernel_ticks, ready_switch_next' = ready_switch_next,
             blocked_curr' = blocked_curr, blocked_next' = blocked_next,
             pc'[t] \notin InSleep,
             \A u \in Task \ {t} : pc'[u] \in InSleep =>
               pc'[u] = pc[u] /\ resume_time'[u] = resume_time[u]
      PROVE  LateInd'
  <2>1. ASSUME NEW u \in Task, pc'[u] \in InSleep
        PROVE  /\ resume_time'[u] = resume_time[u]
               /\ \/ pc'[u] = pc[u]
                  \/ pc[u] = "check" /\ ~tick_after(kernel_ticks, resume_time[u])
    BY <1>4, <2>1
  <2> QED BY <1>1, <1>4, <2>1, QuietLate
<1>5. CASE Yield(t) \/ SetPrevWake(t) \/ Poll(t)
  <2>1. /\ kernel_ticks' = kernel_ticks /\ ready_switch_next' = ready_switch_next
        /\ blocked_curr' = blocked_curr /\ blocked_next' = blocked_next
        /\ \A u \in Task \ {t} : pc'[u] = pc[u] /\ resume_time'[u] = resume_time[u]
    BY <1>1, <1>5 DEF Yield, SetPrevWake, Poll, Goto, kernelVars
  <2>2. pc'[t] \notin InSleep
    BY <1>1, <1>5 DEF Yield, SetPrevWake, Poll, Goto, AtStep, InSleep
  <2> QED BY <1>4, <2>1, <2>2
<1>6. CASE Reap(t)
  <2>1. /\ kernel_ticks' = kernel_ticks /\ ready_switch_next' = ready_switch_next
        /\ resume_time' = resume_time
        /\ blocked_curr' = blocked_curr /\ blocked_next' = blocked_next
        /\ \/ pc' = [pc EXCEPT ![t] = "poll"]
           \/ pc' = [pc EXCEPT ![t] = "poll", ![Head(to_delete_task_list)] = "unused"]
    BY <1>6 DEF Reap, Goto, kernelVars
  <2>2. pc'[t] \in {"poll", "unused"}
    BY <1>1, <2>1
  <2>3. \A u \in Task \ {t} : pc'[u] = pc[u] \/ pc'[u] = "unused"
    BY <1>1, <2>1
  <2> QED BY <1>4, <2>1, <2>2, <2>3 DEF InSleep
<1> QED BY <1>2, <1>3, <1>5, <1>6 DEF OtherStep

\* Every step keeps the bounds.
LEMMA LateInductive ==
  ASSUME TwoSleepers, IndInv, TimeInd, LateInd, [TimingNext]_timingVars
  PROVE  LateInd'
<1>1. CASE TimedTick
  BY <1>1, TickLate
<1>2. CASE TimedBoot
  <2> DEFINE new == task_structures_pos
  <2>1. /\ left' = left /\ kernel_ticks' = kernel_ticks /\ resume_time' = resume_time
        /\ ready_switch_next' = ready_switch_next
        /\ blocked_curr' = blocked_curr /\ blocked_next' = blocked_next
        /\ \/ pc' = [pc EXCEPT ![new] = "user"]
           \/ pc' = [pc EXCEPT ![new] = "reap"]
        /\ pc \in [Task -> Step]
    BY <1>2 DEF TimedBoot, MainCreate, task_schedule, create_at_boot, IndInv, TypeOK
  <2>2. \A u \in Task : pc'[u] = pc[u] \/ pc'[u] \in {"user", "reap"}
    BY <2>1
  <2>3. \A u \in Task : pc'[u] \in InSleep => resume_time'[u] = resume_time[u] /\ pc'[u] = pc[u]
    BY <2>1, <2>2 DEF InSleep
  <2> HIDE DEF new
  <2> QED BY <2>1, <2>3, QuietLate
<1>3. ASSUME left' = left, kernel_ticks' = kernel_ticks, pc' = pc, resume_time' = resume_time,
             ready_switch_next' = ready_switch_next,
             blocked_curr' = blocked_curr, blocked_next' = blocked_next
      PROVE  LateInd'
  BY <1>3, QuietLate
<1>4. CASE TimedSwitch
  BY <1>3, <1>4 DEF TimedSwitch, ContextSwitch, PendSV, taskVars
<1>5. ASSUME NEW CONSTANT t \in Task, TimedCheck(t) \/ OtherStep(t) PROVE LateInd'
  BY <1>5, InCallLate
<1>6. ASSUME NEW t \in Task, TimedSleep(t) \/ TimedSleepUntil(t) PROVE LateInd'
  BY <1>6, CallsLate
<1>7. ASSUME NEW t \in Task, TimedRead(t) PROVE LateInd'
  BY <1>3, <1>7 DEF TimedRead, ReadTick, kernelVars
<1>8. CASE UNCHANGED timingVars
  BY <1>3, <1>8 DEF timingVars, vars, kernelVars, taskVars
<1> QED BY <1>1, <1>2, <1>4, <1>5, <1>6, <1>7, <1>8 DEF TimingNext, InCall

\* Nobody sleeps when main() starts.
LEMMA LateStarts ==
  ASSUME TwoSleepers, TimingInit
  PROVE  LateInd
<1>1. /\ blocked_curr = <<>> /\ blocked_next = <<>> /\ ~ready_switch_next
      /\ \A t \in Task : left[t] = 0 /\ pc[t] = "unused"
  BY DEF TimingInit, Init, KernelInit
<1>2. Entries = {} /\ Sleeping = {} /\ Range(blocked_next) = {}
  BY <1>1 DEF Entries, Sleeping, SleepersOf, Range
<1>3. DOMAIN Queue = {}
  BY <1>1 DEF Queue
<1>4. QueueInBound
  BY <1>2, <1>3 DEF QueueInBound
<1>5. LeftLongest
  <2>1. 0 <= Longest
    BY LongestFacts
  <2> QED BY <1>1, <2>1 DEF LeftLongest
<1> QED BY <1>1, <1>2, <1>4, <1>5
        DEF LateInd, CycleKept, NoneInFront, CallsInBound, SleepersOut, InSleep

\* A sleeper of two is late by no more than the longest sleep: it may have to
\* wait for the one before it, and where the tick count wraps for the one that is
\* left of the old cycle, whatever the order of the calls, of the ticks and of the
\* switches between them.
THEOREM LatenessIsBounded == TwoSleepers => (TimingSpec => []BoundedLateness)
<1> SUFFICES ASSUME TwoSleepers PROVE TimingSpec => []BoundedLateness
  OBVIOUS
<1>1. ShortSleeps
  <2>1. ASSUME NEW n \in SleepTicks PROVE 2 * n <= TickMod
    <3>1. n \in Nat /\ n <= Longest /\ Longest \in Nat /\ TickMod \in Nat /\ 4 * Longest <= TickMod
      BY LongestFacts DEF TwoSleepers
    <3> QED BY <3>1
  <2> QED BY <2>1 DEF ShortSleeps
<1>2. TimingInit => IndInv /\ TimeInd /\ LateInd
  BY TimingStarts, LateStarts
<1>3. IndInv /\ TimeInd /\ LateInd /\ [TimingNext]_timingVars => IndInv' /\ TimeInd' /\ LateInd'
  BY <1>1, TimingInductive, TimingSteps, NextInv, LateInductive
<1>4. IndInv /\ TimeInd /\ LateInd => BoundedLateness
  <2> SUFFICES ASSUME IndInv, TimeInd, LateInd, NEW t \in Sleeping
               PROVE  -left[t] <= Longest
    BY DEF BoundedLateness, Longest
  <2>1. PICK e \in Entries : e.task = t
    BY NodesSleep DEF Sleeping, Entries
  <2>2. t \in Task /\ left[t] \in Int
    BY <2>1, LateTypes
  <2>3. Waiting(left[t], Distance(e.resume_time))
    BY <2>1 DEF LateInd, QueueInBound
  <2>4. left[t] >= -1 \/ left[t] > -Longest
    BY <2>3 DEF Waiting, InBound
  <2> QED BY <2>2, <2>4, LongestFacts
<1> QED BY <1>2, <1>3, <1>4, PTL DEF TimingSpec

=============================================================================
