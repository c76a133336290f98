---------------------------- MODULE SleepTiming ----------------------------
(***************************************************************************)
(* When sleeping tasks wake, and when ready ones run.  The tick count      *)
(* wraps, and a resume_time is one value of it; two history variables      *)
(* measure what was asked for and what happened in ticks that do not wrap. *)
(* They constrain no step of Scheduler.                                    *)
(*                                                                         *)
(* A model's tick count wraps after a few ticks, and a resume_time that is *)
(* half its range old is taken for one to come; with 32 bits that takes 24 *)
(* days.  MaxDelay bounds how late a task may be in its calls.             *)
(***************************************************************************)
EXTENDS Scheduler

CONSTANTS
  Periodic,   \* the tasks that call task_sleep_until; the others call task_sleep
  MaxDelay,   \* how late a task may be when and while it calls them
  MaxCount    \* the counters below stop here

ASSUME TimingAssumption ==
  Periodic \subseteq Task /\ MaxDelay \in Nat /\ MaxCount \in Nat

VARIABLES
  left,   \* left[t]: ticks from now until the time t asked to sleep to;
          \* negative when t still sleeps after it
  since   \* since[t]: ticks since task_sleep_until last woke t from a sleep,
          \* Never when its last call did not sleep

timingVars == <<vars, left, since>>

Never == -1

TimingInit ==
  /\ Init
  /\ left = [t \in Task |-> 0]
  /\ since = [t \in Task |-> Never]

\* The distance from now to a value of the tick count, as stick_t.
Distance(target) ==
  LET d == (target - kernel_ticks) % TickMod
  IN  IF 2 * d >= TickMod THEN d - TickMod ELSE d

-----------------------------------------------------------------------------

Wakes(t) == t \in Sleeping /\ t \notin Sleeping'

CountDown(t) ==
  IF left[t] > 0 THEN left[t] - 1
  ELSE IF t \in Sleeping THEN Max({left[t] - 1, -MaxCount})
  ELSE 0

CountUp(t) ==
  IF Wakes(t) /\ t \in Periodic THEN 0
  ELSE IF since[t] = Never THEN Never
  ELSE Min({since[t] + 1, MaxCount})

TimedSleep(t) ==
  \E ticks \in SleepTicks :
    /\ t \notin Periodic
    /\ task_sleep(t, ticks)
    /\ left' = [left EXCEPT ![t] = ticks]
    /\ UNCHANGED since

\* Bound: the task is not later than MaxDelay.
TimedSleepUntil(t) ==
  \E interval \in Intervals :
    LET ticks == Distance(prev_wake_time[t] + interval)
    IN  /\ t \in Periodic
        /\ ticks \in -MaxDelay .. interval
        /\ task_sleep_until(t, interval)
        /\ left' = [left EXCEPT ![t] = ticks]
        /\ UNCHANGED since

TimedRead(t) == t \in Periodic /\ ReadTick(t) /\ UNCHANGED <<left, since>>

TimedCheck(t) ==
  /\ CheckTimeout(t)
  /\ since' = IF pc'[t] = "yield" THEN [since EXCEPT ![t] = Never] ELSE since
  /\ UNCHANGED left

OtherStep(t) ==
  /\ Block(t) \/ Yield(t) \/ SetPrevWake(t) \/ Reap(t) \/ Poll(t)
  /\ UNCHANGED <<left, since>>

\* Bound: no tick occurs while a task that is late by MaxDelay is in the middle
\* of task_do_sleep.
CalledInTime ==
  \A t \in Task : pc[t] \in {"check", "block"}
    => Distance(resume_time[t]) > -MaxDelay

TimedTick ==
  /\ CalledInTime
  /\ TickInterrupt
  /\ left' = [t \in Task |-> CountDown(t)]
  /\ since' = [t \in Task |-> CountUp(t)]

TimedBoot == (MainCreate \/ task_schedule) /\ UNCHANGED <<left, since>>
TimedSwitch == ContextSwitch /\ UNCHANGED <<left, since>>

\* The step a task makes next in a function it has called.
InCall == \E t \in Task : TimedCheck(t) \/ OtherStep(t)

\* The calls that neither sleep nor concern the tick count are left out.
TimingNext ==
  \/ TimedBoot
  \/ TimedTick
  \/ TimedSwitch
  \/ InCall
  \/ \E t \in Task : TimedSleep(t) \/ TimedSleepUntil(t) \/ TimedRead(t)

\* The core takes the interrupts that are pending and executes the functions of
\* the kernel.  A task need never call one.
TimingSpec ==
  /\ TimingInit /\ [][TimingNext]_timingVars
  /\ WF_timingVars(TimedSwitch) /\ WF_timingVars(TimedBoot) /\ WF_timingVars(InCall)

-----------------------------------------------------------------------------

\* A task is back from task_sleep(n) no earlier than n ticks after the call,
\* and from task_sleep_until(prev, n) no earlier than n ticks after prev.
NoEarlyReturn ==
  started /\ ~pendsv /\ pc[kernel_current_task] \in {"user", "set_prev_wake"}
    => left[kernel_current_task] <= 0

\* The longest sleep a call asks for.
Longest == Max(SleepTicks \union Intervals)

\* What the bound rests on: beside the idle task there are two, a sleep is no
\* longer than a quarter of the range of the tick count, and the calls are not
\* too late for tick_after.  MaxCount must not hide what is later.
TwoSleepers ==
  /\ TASK_MAX_NUM <= 3
  /\ \E n \in SleepTicks \union Intervals : n > 0
  /\ Longest < MaxCount /\ 4 * Longest <= TickMod
  /\ MaxDelay > 0 /\ 2 * (Longest + MaxDelay + 1) <= TickMod

\* How late a sleeper may be when two tasks sleep.  A tick wakes one task, and
\* a sleeper of the next cycle waits until the list of the current one is
\* empty, even if its own time has come: that is one sleep of the other task.
BoundedLateness ==
  \A t \in Sleeping : -left[t] <= Longest

\* With time slices the tasks of a priority take turns: one that stays ready
\* gets the CPU again and again if the tasks of its priority do.  (CalledInTime
\* may stop the timer of the model; the first condition leaves that out.)
TurnComes ==
  \A t \in Task :
    /\ []<><<TimedTick>>_timingVars
    /\ <>[](t \in ReadyTasks(attr[t].priority))
    /\ []<>(started /\ ~pendsv /\ CurrentPriority = attr[t].priority)
    => []<>(kernel_current_task = t)

\* A task that sleeps in every call of task_sleep_until is woken once in every
\* interval (stated for one interval and no other task that sleeps).
PeriodKept ==
  [][\A t \in Periodic : Wakes(t) /\ since[t] # Never
       => since[t] + 1 \in Intervals]_timingVars

=============================================================================
