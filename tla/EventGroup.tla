----------------------------- MODULE EventGroup -----------------------------
(***************************************************************************)
(* One event group (kernel/event_group.c): tasks that listen to it and     *)
(* tasks that trigger its events.  An enum event_type is the set of its    *)
(* bits.                                                                   *)
(***************************************************************************)
EXTENDS Sync

Event == {"inputdevice", "timer", "hardwareint", "custom"}

\* The systems whose object is an event group.
EventUses == {u \in Uses : u.object = "event_group"}

\* events and logic are the arguments of eventgroup_init; listeners are the
\* tasks that call eventgroup_listen; triggers[t] are the arguments t calls
\* eventgroup_trigger with.
ASSUME EventGroupAssumption ==
  \A u \in EventUses :
    /\ u.events \in (SUBSET Event) \ {{}}
    /\ u.logic \in {"any", "all"}
    /\ u.listeners \subseteq User
    /\ u.triggers \in [User -> SUBSET SUBSET Event]

InitEvents == use.events
TrigLogic == use.logic
Listener == use.listeners
Triggers == use.triggers

VARIABLES
  events,
  waiting,     \* tasks_waiting_triggered, a stack
  arg          \* arg[t]: the parameter events of eventgroup_trigger

eventVars == <<kernelVars, pc, events, waiting, arg>>

EventStep == {"out", "sleep_yield",
         "listen_test", "listen_suspend", "listen_block", "listen_resume",
         "listen_yield", "listen_retest", "listen_end",
         "trig_suspend", "trig_clear", "trig_wake", "trig_resume"}

\* The types of the event group and of what its users hold in their locals.
EventGroupTypeOK ==
  /\ KernelTypeOK
  /\ use \in EventUses
  /\ pc \in [Task -> EventStep]
  /\ events \in SUBSET Event
  /\ waiting \in Seq(Task)
  /\ arg \in [Task -> SUBSET Event]

EventGroupInit ==
  /\ use \in EventUses
  /\ KernelStarted(Created, AttrOf)
  /\ pc = [t \in Task |-> "out"]
  /\ events = InitEvents
  /\ waiting = <<>>
  /\ arg = [t \in Task |-> {}]

-----------------------------------------------------------------------------
(* eventgroup_listen *)

CallListen(t) ==
  /\ AtStep(t, "out") /\ t \in Listener
  /\ Goto(t, "listen_test")
  /\ UNCHANGED <<kernelVars, events, waiting, arg>>

\* The test of the loop, "listen_retest" when the task has waited before.
ListenTest(t) ==
  /\ AtStep(t, "listen_test") \/ AtStep(t, "listen_retest")
  /\ Goto(t, IF events = {} THEN "listen_end" ELSE "listen_suspend")
  /\ UNCHANGED <<kernelVars, events, waiting, arg>>

ListenSuspend(t) ==
  /\ AtStep(t, "listen_suspend")
  /\ task_suspend_all
  /\ Goto(t, "listen_block")
  /\ UNCHANGED <<events, waiting, arg>>

ListenBlock(t) ==
  /\ AtStep(t, "listen_block")
  /\ wait_front(waiting, stack_list_push(waiting, front_task))
  /\ Goto(t, "listen_resume")
  /\ UNCHANGED <<events, arg>>

ListenResume(t) ==
  /\ AtStep(t, "listen_resume")
  /\ task_resume_all
  /\ Goto(t, "listen_yield")
  /\ UNCHANGED <<events, waiting, arg>>

ListenYield(t) ==
  /\ AtStep(t, "listen_yield")
  /\ task_yield
  /\ Goto(t, "listen_retest")
  /\ UNCHANGED <<events, waiting, arg>>

\* The last listener to be woken registers the events again.
reset == IF waiting = <<>> THEN InitEvents ELSE events

ListenEnd(t) ==
  /\ AtStep(t, "listen_end")
  /\ events' = reset
  /\ Goto(t, "out")
  /\ UNCHANGED <<kernelVars, waiting, arg>>

-----------------------------------------------------------------------------
(* eventgroup_trigger *)

\* An event that has been triggered already or is not registered is ignored.
CallTrigger(t, e) ==
  /\ AtStep(t, "out") /\ t \in User /\ e \in Triggers[t]
  /\ events \intersect e # {}
  /\ arg' = [arg EXCEPT ![t] = e]
  /\ Goto(t, "trig_suspend")
  /\ UNCHANGED <<kernelVars, events, waiting>>

TrigSuspend(t) ==
  /\ AtStep(t, "trig_suspend")
  /\ task_suspend_all
  /\ Goto(t, "trig_clear")
  /\ UNCHANGED <<events, waiting, arg>>

TrigClear(t) ==
  /\ AtStep(t, "trig_clear")
  /\ events' = events \ arg[t]
  /\ arg' = [arg EXCEPT ![t] = {}]
  /\ Goto(t, "trig_wake")
  /\ UNCHANGED <<kernelVars, waiting>>

\* Mutant of fires: the trigger logic "all" is not told from "any".
FiresAny == TRUE

\* Mutant of fires: the last event does not fire the logic "all".
FiresOnlyAny == TrigLogic = "any"

fires == TrigLogic = "any" \/ events = {}

\* Mutant of woken_tasks: one listener is woken, as a semaphore would.
ListenerWokenFirst == IF fires /\ waiting # <<>> THEN <<Head(waiting)>> ELSE <<>>

\* Mutant of woken_tasks: the listeners are woken whatever is left to happen.
WokenAlways == waiting

woken_tasks == IF fires THEN waiting ELSE <<>>

\* Every listener is popped from the stack and appended to its ready list.
TrigWake(t) ==
  /\ AtStep(t, "trig_wake")
  /\ events' = IF fires THEN {} ELSE events
  /\ ready' = make_all_ready(ready, woken_tasks)
  /\ waiting' = SubSeq(waiting, Len(woken_tasks) + 1, Len(waiting))
  /\ UnchangedScheduler
  /\ Goto(t, "trig_resume")
  /\ UNCHANGED arg

TrigResume(t) ==
  /\ AtStep(t, "trig_resume")
  /\ task_resume_all
  /\ Goto(t, "out")
  /\ UNCHANGED <<events, waiting, arg>>

-----------------------------------------------------------------------------

Listening(t) ==
  \/ ListenTest(t) \/ ListenSuspend(t) \/ ListenBlock(t)
  \/ ListenResume(t) \/ ListenYield(t) \/ ListenEnd(t)

Trigger(t) ==
  \/ \E e \in SUBSET Event : CallTrigger(t, e)
  \/ TrigSuspend(t) \/ TrigClear(t) \/ TrigWake(t) \/ TrigResume(t)

groupVars == <<events, waiting, arg>>
EventSleep(t) == sleep_one_tick(t, "out", "sleep_yield") /\ UNCHANGED groupVars
EventSleepYield(t) == sleep_yield(t, "sleep_yield", "out") /\ UNCHANGED groupVars
EventTick == tick_interrupt /\ UNCHANGED groupVars
EventSwitch == context_switch /\ UNCHANGED groupVars
EventIdleYield == idle_yield /\ UNCHANGED groupVars

EventGroupNext ==
  /\ \/ EventTick \/ EventSwitch \/ EventIdleYield
     \/ \E t \in User : \/ CallListen(t) \/ Listening(t) \/ Trigger(t)
                        \/ EventSleep(t) \/ EventSleepYield(t)
  /\ UNCHANGED use

\* The timer runs, pending interrupts are taken, and a task that gets the CPU
\* again and again makes progress.  That the events are triggered again and
\* again is up to the system; it is assumed here.
EventFairSpec ==
  /\ EventGroupInit /\ [][EventGroupNext]_<<eventVars, use>>
  /\ WF_eventVars(EventTick) /\ WF_eventVars(EventSwitch) /\ WF_eventVars(EventIdleYield)
  /\ \A t \in User : SF_eventVars(Listening(t) \/ Trigger(t) \/ EventSleepYield(t))

-----------------------------------------------------------------------------

\* The tasks that trigger events have lower priorities than the other tasks that
\* listen.  eventgroup_listen reads the events before it suspends the scheduler, so
\* that a task of the same or a higher priority could clear them in between, find
\* nobody in the list, and leave the listener to wait for what has happened.
TriggersBelow(u) ==
  \A t \in User : u.triggers[t] # {} =>
    \A l \in u.listeners \ {t} : u.attr[t].priority < u.attr[l].priority

\* A listener waits only for events that have not been triggered: outside of
\* the windows of the event group no task is in the list while no event is left.
NoneLeftBehind ==
  task_suspended_count = 0 /\ waiting # <<>> => events # {}

EventGroupInv == use \in EventUses => EventGroupTypeOK /\ NoneLeftBehind

\* A listener that has been woken returns: the event it waited for has been
\* triggered.  (Of two listeners the first to run registers the events again.)
WokenReturns ==
  [][\A t \in User : pc[t] = "listen_retest" /\ Listener = {t}
       => pc'[t] # "listen_suspend"]_eventVars

\* With the logic "all" a listener returns only after each of the events has
\* been triggered: a registered event stays until then or is cleared by the
\* call that names it.
EventsKept ==
  [][\A e \in events : e \notin events' =>
       TrigLogic = "any" \/ \E t \in User : pc[t] = "trig_clear" /\ e \in arg[t]]_eventVars

\* Every listener that waits is woken, if the tasks that trigger the events get
\* to do so again and again.
ListenerReturns ==
  []<>(\E u \in User : AtStep(u, "out") /\ Triggers[u] # {})
    => \A t \in User : t \in Range(waiting) ~> t \notin Range(waiting)

=============================================================================
