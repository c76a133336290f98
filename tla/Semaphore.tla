----------------------------- MODULE Semaphore -----------------------------
(***************************************************************************)
(* One semaphore (kernel/semaphore.c), the tasks and the interrupt         *)
(* handlers that use it.  pc[t] = "held" is the code of a task between     *)
(* acquiring the semaphore and releasing it.                               *)
(***************************************************************************)
EXTENDS Sync

\* init and max are the arguments of semaphore_init_counting, both 1 for
\* semaphore_init_binary; calls are what tasks and handlers do; acquirers are the
\* tasks that call semaphore_acquire; timeouts[t] are the arguments t calls
\* semaphore_try_acquire with.
ASSUME SemaphoreAssumption ==
  \A u \in Uses :
    /\ u.max \in Nat \ {0} /\ u.init \in 0 .. u.max
    /\ u.timeouts \in [User -> SUBSET Tick]

Calls == use.calls
MaxValue == use.max
Timeouts == use.timeouts

VARIABLES
  state,
  waiting,        \* tasks_waiting_to_acquire
  timeout,        \* the parameter of semaphore_try_acquire
  current_tick    \* its local variable

semVars == <<state, waiting>>
localVars == <<timeout, current_tick>>
vars == <<kernelVars, semVars, pc, localVars>>

Step == {"out", "held", "sleep_yield", "held_sleep_yield",
         "acq_dec", "acq_test", "acq_resume", "acq_resume_yield", "acq_yield",
         "try_test", "try_take", "try_time", "try_yield",
         "rel_inc", "rel_wake", "rel_resume"}

\* The types: the state is never below minus the number of tasks.
TypeOK ==
  /\ KernelTypeOK
  /\ use \in Uses
  /\ state \in -Len(Created) .. MaxValue
  /\ waiting \in Seq(Task)
  /\ pc \in [Task -> Step]
  /\ timeout \in [Task -> Tick]
  /\ current_tick \in [Task -> Tick]

Init ==
  /\ use \in Uses
  /\ KernelStarted(Created, AttrOf)
  /\ state = use.init
  /\ waiting = <<>>
  /\ pc = [t \in Task |-> "out"]
  /\ timeout = [t \in Task |-> 0]
  /\ current_tick = [t \in Task |-> 0]

-----------------------------------------------------------------------------
(* semaphore_acquire *)

AcquireSuspend(t) ==
  /\ "acquire" \in Calls /\ t \in use.acquirers
  /\ AtStep(t, "out") /\ t \in User
  /\ task_suspend_all
  /\ Goto(t, "acq_dec")
  /\ UNCHANGED <<semVars, localVars>>

AcquireDec(t) ==
  /\ AtStep(t, "acq_dec")
  /\ state' = state - 1
  /\ Goto(t, "acq_test")
  /\ UNCHANGED <<kernelVars, waiting, localVars>>

\* Mutant of must_wait: one task too many gets the semaphore.
MustWaitLate == state < -1

must_wait == state < 0

AcquireTest(t) ==
  /\ AtStep(t, "acq_test")
  /\ IF must_wait
       THEN /\ wait_front(waiting, queue_list_push(waiting, front_task))
            /\ Goto(t, "acq_resume_yield")
       ELSE Goto(t, "acq_resume") /\ UNCHANGED <<kernelVars, waiting>>
  /\ UNCHANGED <<state, localVars>>

AcquireResume(t) ==
  /\ \/ AtStep(t, "acq_resume") /\ Goto(t, "held")
     \/ AtStep(t, "acq_resume_yield") /\ Goto(t, "acq_yield")
  /\ task_resume_all
  /\ UNCHANGED <<semVars, localVars>>

\* The task goes on from here once it has been woken.
AcquireYield(t) ==
  /\ AtStep(t, "acq_yield")
  /\ task_yield
  /\ Goto(t, "held")
  /\ UNCHANGED <<semVars, localVars>>

-----------------------------------------------------------------------------
(* semaphore_try_acquire *)

TryAcquire(t) ==
  /\ AtStep(t, "out") /\ t \in User
  /\ \E n \in Timeouts[t] : timeout' = [timeout EXCEPT ![t] = n]
  /\ current_tick' = [current_tick EXCEPT ![t] = kernel_ticks]
  /\ Goto(t, "try_test")
  /\ UNCHANGED <<kernelVars, semVars>>

available == state - 1 >= 0

\* The state is tested outside of the atomic block that decrements it.
TryTest(t) ==
  /\ AtStep(t, "try_test")
  /\ Goto(t, IF available THEN "try_take" ELSE "try_time")
  /\ UNCHANGED <<kernelVars, semVars, localVars>>

LocalsDead(t) ==
  /\ timeout' = [timeout EXCEPT ![t] = 0]
  /\ current_tick' = [current_tick EXCEPT ![t] = 0]

TryTake(t) ==
  /\ AtStep(t, "try_take")
  /\ state' = state - 1
  /\ Goto(t, "held")
  /\ LocalsDead(t)
  /\ UNCHANGED <<kernelVars, waiting>>

\* Mutant of next_timeout: the time that has passed is not counted.
TimeoutKept(t) == timeout[t]

next_timeout(t) == timeout[t] - 1

\* The tick count is read once here and twice by the code.  When the tick comes
\* between its readings the call does what it does when the tick comes just before.
TryTime(t) ==
  /\ AtStep(t, "try_time")
  /\ CASE timeout[t] = 0 ->
            Goto(t, "out") /\ LocalsDead(t)
       [] timeout[t] > 0 /\ ~tick_after(kernel_ticks, (current_tick[t] + 1) % TickMod) ->
            Goto(t, "try_yield") /\ UNCHANGED localVars
       [] OTHER ->
            /\ current_tick' = [current_tick EXCEPT ![t] = kernel_ticks]
            /\ timeout' = [timeout EXCEPT ![t] = next_timeout(t)]
            /\ Goto(t, "try_test")
  /\ UNCHANGED <<kernelVars, semVars>>

TryYield(t) ==
  /\ AtStep(t, "try_yield")
  /\ task_yield
  /\ Goto(t, "try_test")
  /\ UNCHANGED <<semVars, localVars>>

-----------------------------------------------------------------------------
(* semaphore_release *)

ReleaseSuspend(t) ==
  /\ "release" \in Calls
  /\ AtStep(t, "held")
  /\ task_suspend_all
  /\ Goto(t, "rel_inc")
  /\ UNCHANGED <<semVars, localVars>>

incremented == IF state < MaxValue THEN state + 1 ELSE state

ReleaseInc(t) ==
  /\ AtStep(t, "rel_inc")
  /\ state' = incremented
  /\ Goto(t, "rel_wake")
  /\ UNCHANGED <<kernelVars, waiting, localVars>>

\* Mutant of wakes: the last waiting task is forgotten.
WakesBelowZero == state < 0 /\ waiting # <<>>

wakes == state <= 0 /\ waiting # <<>>

ReleaseWake(t) ==
  /\ AtStep(t, "rel_wake")
  /\ IF wakes
       THEN ready' = make_ready(ready, Head(waiting)) /\ waiting' = Tail(waiting)
       ELSE UNCHANGED <<ready, waiting>>
  /\ UnchangedScheduler
  /\ Goto(t, "rel_resume")
  /\ UNCHANGED <<state, localVars>>

ReleaseResume(t) ==
  /\ AtStep(t, "rel_resume")
  /\ task_resume_all
  /\ Goto(t, "out")
  /\ UNCHANGED <<semVars, localVars>>

\* A task that waits for signals acquires again without a release.
Consume(t) ==
  /\ "consume" \in Calls
  /\ AtStep(t, "held")
  /\ Goto(t, "out")
  /\ UNCHANGED <<kernelVars, semVars, localVars>>

\* A task may sleep, with the semaphore or without.
Sleep(t) ==
  /\ \/ sleep_one_tick(t, "out", "sleep_yield")
     \/ sleep_one_tick(t, "held", "held_sleep_yield")
  /\ UNCHANGED <<semVars, localVars>>

SleepYield(t) ==
  /\ \/ sleep_yield(t, "sleep_yield", "out")
     \/ sleep_yield(t, "held_sleep_yield", "held")
  /\ UNCHANGED <<semVars, localVars>>

-----------------------------------------------------------------------------
(* Handlers *)

semaphore_acquire_from_isr ==
  /\ "isr_acquire" \in Calls
  /\ available
  /\ state' = state - 1
  /\ UNCHANGED <<kernelVars, waiting, pc, localVars>>

semaphore_release_from_isr ==
  /\ "isr_release" \in Calls
  /\ state' = incremented
  /\ UNCHANGED <<kernelVars, waiting, pc, localVars>>

\* Bound: a task in semaphore_try_acquire is not kept from the CPU for half the
\* range of the tick count, after which it would not see that time has passed.
TryInTime ==
  \A t \in User : pc[t] \in {"try_test", "try_time", "try_yield"}
    => 2 * ((kernel_ticks - current_tick[t]) % TickMod) < TickMod

TickInterrupt == TryInTime /\ tick_interrupt /\ UNCHANGED <<semVars, localVars>>
ContextSwitch == context_switch /\ UNCHANGED <<semVars, localVars>>
IdleYield == idle_yield /\ UNCHANGED <<semVars, localVars>>

-----------------------------------------------------------------------------

\* What a task chooses to do: it need not.
Call(t) ==
  \/ AcquireSuspend(t) \/ TryAcquire(t) \/ ReleaseSuspend(t) \/ Consume(t)
  \/ Sleep(t)

\* What follows from a call.
InCall(t) ==
  \/ AcquireDec(t) \/ AcquireTest(t) \/ AcquireResume(t) \/ AcquireYield(t)
  \/ TryTest(t) \/ TryTake(t) \/ TryTime(t) \/ TryYield(t)
  \/ ReleaseInc(t) \/ ReleaseWake(t) \/ ReleaseResume(t)
  \/ SleepYield(t)

Next ==
  /\ \/ TickInterrupt
     \/ ContextSwitch
     \/ semaphore_acquire_from_isr
     \/ semaphore_release_from_isr
     \/ IdleYield
     \/ \E t \in Task : Call(t) \/ InCall(t)
  /\ UNCHANGED use

\* The core takes pending interrupts, and a task that gets the CPU again and
\* again makes progress (a time slice is 72000 cycles).
FairSpec ==
  /\ Init /\ [][Next]_<<vars, use>>
  /\ WF_vars(TickInterrupt) /\ WF_vars(ContextSwitch) /\ WF_vars(IdleYield)
  /\ \A t \in Task : SF_vars(InCall(t))

-----------------------------------------------------------------------------
(* How a system uses the semaphore *)

\* t is a task that acquires the semaphore.
Takes(u, t) == ("acquire" \in u.calls /\ t \in u.acquirers) \/ u.timeouts[t] # {}

\* semaphore_try_acquire tests the state and decrements it in two steps.  A task
\* that calls it is more urgent than every other one that acquires the semaphore,
\* and no handler does; and no handler releases a semaphore that tasks wait for:
\* semaphore_release_from_isr wakes none.
Sound(u) ==
  /\ \A t \in User : u.timeouts[t] # {} =>
       /\ "isr_acquire" \notin u.calls
       /\ \A s \in User \ {t} : Takes(u, s) => u.attr[s].priority < u.attr[t].priority
  /\ "isr_release" \in u.calls => "acquire" \notin u.calls

\* A handler that releases the semaphore does it for nobody in particular: then no
\* more tasks acquire it than its maximum.
Few(u) ==
  "isr_release" \notin u.calls \/ Cardinality({t \in User : Takes(u, t)}) <= u.max

Holding == {t \in Task : pc[t] \in {"held", "held_sleep_yield", "rel_inc"} /\ t \notin Range(waiting)}

\* No more tasks hold the semaphore than its maximum allows: with a binary
\* semaphore the code between acquire and release is a critical section.
HoldersBounded == Cardinality(Holding) <= MaxValue

\* While no task is inside a window of the semaphore's functions, a negative
\* state says how many tasks wait and no task waits otherwise: none is left
\* behind, and none waits while the semaphore is free.
WaitersCounted ==
  task_suspended_count = 0 => Len(waiting) = IF state < 0 THEN -state ELSE 0

SemaphoreInv == TypeOK /\ WaitersCounted

\* The semaphore is given on in the order of arrival: if tasks release it again
\* and again, every waiting task gets it.
WaiterServed ==
  []<>(\E u \in User : pc[u] = "rel_wake")
    => \A t \in User : t \in Range(waiting) ~> t \notin Range(waiting)

\* semaphore_try_acquire returns (of a task that is not kept from the CPU).
TryReturns ==
  \A t \in User : pc[t] = "try_test" ~> pc[t] \in {"out", "held"}

=============================================================================
