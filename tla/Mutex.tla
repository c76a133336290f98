------------------------------- MODULE Mutex -------------------------------
(***************************************************************************)
(* One mutex (kernel/mutex.c) on top of its semaphore.  The task that gets *)
(* the lock exchanges its priority for that of the ceiling, and exchanges  *)
(* them back before it releases the semaphore.                             *)
(*                                                                         *)
(* mpc[t] names the next step of t in mutex_lock or mutex_unlock while it  *)
(* holds the semaphore; a task without the semaphore is at "lock_owner".   *)
(*                                                                         *)
(* The exchange puts the owner at the tail of the list of its new priority *)
(* and does not yield.  alone is a history: nobody else has been in the    *)
(* list when that happened, so that the owner is in front of it.  What is  *)
(* promised is promised as long as that is so.                             *)
(***************************************************************************)
EXTENDS Semaphore

\* The systems in which the semaphore is that of a mutex.
MutexUses == {u \in Uses : u.mutex}

\* ceiling is the argument of mutex_init, which makes a binary semaphore; the
\* functions of the mutex acquire it, try to, and release it.
ASSUME MutexAssumption ==
  \A u \in MutexUses : /\ u.ceiling \in Priority /\ u.init = 1 /\ u.max = 1
                       /\ u.calls = {"acquire", "release"}

Ceiling == use.ceiling

VARIABLES
  owner,
  ceiling_priority,
  mpc,
  alone

mutexVars == <<owner, ceiling_priority, mpc>>
allVars == <<vars, mutexVars>>

MutexStep == {"lock_owner", "lock_suspend", "lock_swap", "lock_resume", "locked",
              "unlock_suspend", "unlock_swap", "unlock_resume", "unlock_owner",
              "release"}

\* The types of the mutex.
MutexTypeOK ==
  /\ TypeOK
  /\ owner \in Task \union {NoTask}
  /\ ceiling_priority \in Priority
  /\ mpc \in [Task -> MutexStep]
  /\ alone \in BOOLEAN

MutexInit ==
  /\ Init /\ use \in MutexUses
  /\ owner = NoTask
  /\ ceiling_priority = Ceiling
  /\ mpc = [t \in Task |-> "lock_owner"]
  /\ alone = TRUE

-----------------------------------------------------------------------------

AtMutexStep(t, step) == AtStep(t, "held") /\ mpc[t] = step
MutexGoto(t, step) == mpc' = [mpc EXCEPT ![t] = step]

LockOwner(t) ==
  /\ AtMutexStep(t, "lock_owner")
  /\ owner' = t
  /\ MutexGoto(t, "lock_suspend")
  /\ UNCHANGED <<vars, ceiling_priority>>

\* Mutant of swap: the owner changes its priority and stays in its list.
SwapAttributeOnly ==
  /\ attr' = [attr EXCEPT ![owner].priority = ceiling_priority]
  /\ ceiling_priority' = attr[owner].priority
  /\ UNCHANGED ready

\* Mutant of swap: the ceiling is not exchanged for the owner's priority.
SwapCeilingKept ==
  LET p     == attr[owner].priority
      front == tasklist_get_front_task(ready, p)
  IN  /\ attr' = [attr EXCEPT ![owner].priority = ceiling_priority]
      /\ ready' = tasklist_append(tasklist_remove_front(ready, p), ceiling_priority, front)
      /\ UNCHANGED ceiling_priority

\* mutex_swap_priority_with_task between suspending and resuming the scheduler.
\* It takes the front task of the owner's list for the owner.  The code reads the
\* owner and its priority before it suspends the scheduler; nobody but the owner
\* changes them.
swap ==
  LET p     == attr[owner].priority
      front == tasklist_get_front_task(ready, p)
  IN  IF front = NoTask
        THEN UNCHANGED <<attr, ready, ceiling_priority>>
        ELSE /\ attr' = [attr EXCEPT ![owner].priority = ceiling_priority]
             /\ ready' = tasklist_append(tasklist_remove_front(ready, p),
                                         ceiling_priority, front)
             /\ ceiling_priority' = p

SwapSuspend(t) ==
  /\ \/ AtMutexStep(t, "lock_suspend") /\ MutexGoto(t, "lock_swap")
     \/ AtMutexStep(t, "unlock_suspend") /\ MutexGoto(t, "unlock_swap")
  /\ task_suspend_all
  /\ UNCHANGED <<pc, semVars, localVars, owner, ceiling_priority>>

Swap(t) ==
  /\ \/ AtMutexStep(t, "lock_swap") /\ MutexGoto(t, "lock_resume")
     \/ AtMutexStep(t, "unlock_swap") /\ MutexGoto(t, "unlock_resume")
  /\ swap
  /\ UNCHANGED <<kernel_ticks, kernel_current_task, blocked_curr, blocked_next,
                 ready_switch_next, task_suspended_count, pendsv,
                 pc, semVars, localVars, owner>>

\* The owner finds nobody in the list it goes to.
SwapsAlone ==
  \A t \in Task : AtMutexStep(t, "lock_swap") \/ AtMutexStep(t, "unlock_swap")
                    => ReadyTasks(ceiling_priority) \subseteq {t}

SwapResume(t) ==
  /\ \/ AtMutexStep(t, "lock_resume") /\ MutexGoto(t, "locked")
     \/ AtMutexStep(t, "unlock_resume") /\ MutexGoto(t, "unlock_owner")
  /\ task_resume_all
  /\ UNCHANGED <<pc, semVars, localVars, owner, ceiling_priority>>

mutex_unlock(t) ==
  /\ AtMutexStep(t, "locked")
  /\ owner = t
  /\ MutexGoto(t, "unlock_suspend")
  /\ UNCHANGED <<vars, owner, ceiling_priority>>

UnlockOwner(t) ==
  /\ AtMutexStep(t, "unlock_owner")
  /\ owner' = NoTask
  /\ MutexGoto(t, "release")
  /\ UNCHANGED <<vars, ceiling_priority>>

\* The first step of semaphore_release.
UnlockRelease(t) ==
  /\ mpc[t] = "release"
  /\ ReleaseSuspend(t)
  /\ MutexGoto(t, "lock_owner")
  /\ UNCHANGED <<owner, ceiling_priority>>

-----------------------------------------------------------------------------

\* A task sleeps without the lock or with it, not in the functions of the mutex.
MutexSleep(t) ==
  /\ AtStep(t, "held") => mpc[t] = "locked"
  /\ Sleep(t)

\* The steps of a call that has begun, and those of a task that sleeps.  A call
\* begins with AcquireSuspend, TryAcquire or mutex_unlock.
InMutexCall(t) ==
  \/ LockOwner(t) \/ SwapSuspend(t) \/ Swap(t) \/ SwapResume(t)
  \/ UnlockOwner(t) \/ UnlockRelease(t)
  \/ /\ \/ AcquireDec(t) \/ AcquireTest(t) \/ AcquireResume(t) \/ AcquireYield(t)
        \/ TryTest(t) \/ TryTake(t) \/ TryYield(t) \/ (TryTime(t) /\ pc'[t] # "out")
        \/ ReleaseInc(t) \/ ReleaseWake(t) \/ ReleaseResume(t)
        \/ MutexSleep(t) \/ SleepYield(t)
     /\ UNCHANGED mutexVars

-----------------------------------------------------------------------------

(* How a system uses the mutex *)

\* Where the owner is alone whatever the others do: no task has the priority of the
\* ceiling, and a task that takes the lock has its priority for itself.  mutex.h has
\* the ceiling at the highest priority of the tasks that take the lock.
CeilingSound(u) ==
  /\ Sound(u)
  /\ \A t \in Task : u.attr[t].priority # u.ceiling
  /\ \A t \in User : Takes(u, t) =>
       \A s \in Task \ {t} : u.attr[s].priority # u.attr[t].priority

\* The tasks between the assignments to owner in mutex_lock and mutex_unlock.
InMutex ==
  {t \in User : /\ pc[t] \in {"held", "held_sleep_yield"}
                /\ mpc[t] \notin {"lock_owner", "release"}}

\* The owner is the one task that has the lock: mutex_get_owner tells a task
\* whether it is the owner, and the assertion of mutex_unlock holds.
OwnerHasLock == alone => InMutex = {owner} \ {NoTask}

\* When nobody has the lock every task has its own priority back, and the mutex
\* its ceiling.
PrioritiesRestored ==
  alone /\ (\A t \in User :
             mpc[t] \in {"lock_owner", "lock_suspend", "lock_swap", "unlock_owner", "release"})
    => ceiling_priority = Ceiling /\ attr = AttrOf

\* Every task is in one list and there once, except that a task with the lock
\* changes its list: it is ready, it sleeps or it waits for the semaphore.
NobodyLost ==
  \A t \in Task :
    Cardinality({p \in Priority : t \in ReadyTasks(p)})
      + (IF t \in Sleeping THEN 1 ELSE 0)
      + (IF t \in Range(waiting) THEN 1 ELSE 0) = 1

\* The types, and the lists agree with the priorities that were exchanged.
MutexInv == alone => MutexTypeOK /\ NobodyLost /\ ReadyAtOwnPriority

\* No priority inversion: while a task has the lock and does not sleep with it,
\* no other task of a priority below the ceiling gets the CPU.
NoInversion ==
  [][\A t \in User :
       alone /\ mpc[t] = "locked" /\ t \notin Sleeping /\ kernel_current_task' # kernel_current_task
         => \/ kernel_current_task' = t
            \/ AttrOf[kernel_current_task'].priority >= Ceiling]_allVars

\* The task that calls task_sleep is the one that sleeps.
SleepsItself ==
  [][\A t \in User : alone /\ pc[t] \in {"out", "held"} /\ pc'[t] \in {"sleep_yield", "held_sleep_yield"}
       => t \in SleepersOf(blocked_curr') \union SleepersOf(blocked_next')]_allVars

=============================================================================
