-------------------------- MODULE EventGroupProofs --------------------------
(***************************************************************************)
(* Proofs about EventGroup, for all tasks, events and uses: that no task   *)
(* is left in the list of an event group whose events have all been        *)
(* triggered, that an event stays until it is triggered, and that the only *)
(* listener, once woken, returns.                                          *)
(*                                                                         *)
(* The steps are of two kinds: most go on in the code and leave every list *)
(* alone (Quiet), so that the invariant is preserved for one reason; the   *)
(* others move tasks, and each has a proof of its own.                     *)
(*                                                                         *)
(* The first theorem needs eventgroup_listen to be interrupted by no task  *)
(* that triggers between its test of the events and its suspension of the  *)
(* scheduler: TriggersBelow says when that is so.                          *)
(***************************************************************************)
EXTENDS EventGroup, SyncProofs

-----------------------------------------------------------------------------
(* The inductive invariant *)

ListenStep == {"listen_test", "listen_suspend", "listen_block", "listen_resume",
               "listen_yield", "listen_retest", "listen_end"}
TrigStep == {"trig_suspend", "trig_clear", "trig_wake", "trig_resume"}

\* Inside a window of task_suspend_all.
Window == {"listen_block", "listen_resume", "trig_clear", "trig_wake", "trig_resume"}

\* Out of the ready lists, or on the way back: the task goes on when it runs again.
Away == {"listen_resume", "listen_yield", "sleep_yield"}

\* The task has put itself into the list of the listeners, and has not looked at
\* the events since.
Queued == {"listen_resume", "listen_yield", "listen_retest"}

\* The task has seen an event that has not been triggered, and is about to wait for it.
Blocking == {"listen_suspend", "listen_block"}

\* A task at this step of its code may be this one, in this use of the event group.
Caller(t, step) ==
  /\ step # "out" => t \in User
  /\ step \in ListenStep => t \in Listener
  /\ step \in TrigStep => Triggers[t] # {}

EventTypes ==
  /\ use \in EventUses /\ kernel_ticks \in Tick /\ kernel_current_task \in Task
  /\ attr = AttrOf
  /\ ready_switch_next \in BOOLEAN /\ pendsv \in BOOLEAN
  /\ events \subseteq InitEvents
  /\ pc \in [Task -> EventStep] /\ arg \in [Task -> SUBSET Event]

\* The task that runs is at the front of its list, unless it is on its way out.
FrontRuns ==
  pendsv \/ pc[kernel_current_task] \in Away \/ AtFront(ready, attr, kernel_current_task)

\* Only the task that runs is inside a window, and no other one can run then.
Windows ==
  /\ task_suspended_count = IF pc[kernel_current_task] \in Window THEN 1 ELSE 0
  /\ pc[kernel_current_task] \in Window => ~pendsv
  /\ \A t \in Task : t # kernel_current_task => pc[t] \notin Window

\* The tasks are where the calls of this use can bring them.
Callers ==
  /\ \A t \in Task : Caller(t, pc[t])
  /\ \A t \in Range(waiting) : pc[t] \in Queued

\* The only listener is taken from the list when the events have been cleared, and
\* they stay so until it has returned.
WokenSees ==
  \A t \in Task :
    Listener = {t} /\ pc[t] \in Queued /\ t \notin Range(waiting) => events = {}

EventInd ==
  /\ EventTypes /\ Lists(ready, blocked_curr, blocked_next, attr, waiting)
  /\ FrontRuns /\ Windows /\ Callers /\ WokenSees

\* What a listener waits for, or is about to, has not been triggered.
BlockSafe ==
  \A t \in Task : pc[t] \in Blocking =>
    /\ events # {} /\ t \in Range(ready.list[attr[t].priority])
    /\ attr[kernel_current_task].priority >= attr[t].priority

NoneForgotten == pc[kernel_current_task] # "trig_wake" /\ waiting # <<>> => events # {}

NoneLost == BlockSafe /\ NoneForgotten

-----------------------------------------------------------------------------
(* Facts about one state *)

\* What the use of the event group is.
LEMMA UseFacts ==
  ASSUME use \in EventUses
  PROVE  /\ InitEvents \subseteq Event /\ InitEvents # {}
         /\ Listener \subseteq User
         /\ Triggers \in [User -> SUBSET SUBSET Event]
         /\ AttrOf \in [Task -> Attribute]
         /\ use.sleepers \subseteq User
<1>1. InitEvents \in (SUBSET Event) \ {{}}
  BY EventGroupAssumption DEF InitEvents
<1>2. Listener \subseteq User /\ Triggers \in [User -> SUBSET SUBSET Event]
  BY EventGroupAssumption DEF Listener, Triggers
<1>3. AttrOf \in [Task -> Attribute] /\ use.sleepers \subseteq User
  BY SyncAssumption DEF EventUses, AttrOf, User, IdleTask
<1> QED BY <1>1, <1>2, <1>3

\* The task that runs, when it is not on its way out, is at the front and does not
\* wait.
LEMMA RunsAtFront ==
  ASSUME EventInd, NEW t \in Task, NEW from, AtStep(t, from), from \notin Away
  PROVE  /\ t = kernel_current_task /\ AtFront(ready, attr, t) /\ t \notin Range(waiting)
         /\ t \in Range(ready.list[attr[t].priority])
<1>1. t = kernel_current_task /\ pc[t] = from /\ ~pendsv
  BY DEF AtStep
<1>2. AtFront(ready, attr, t) /\ Lists(ready, blocked_curr, blocked_next, attr, waiting)
  BY <1>1 DEF EventInd, FrontRuns
<1> QED BY <1>1, <1>2, FrontIsReady

\* A task that waits is on its way out of eventgroup_listen.
LEMMA NotWaiting ==
  ASSUME EventInd, NEW t \in Task, NEW from, AtStep(t, from),
         from \notin {"listen_resume", "listen_yield"}
  PROVE  t \notin Range(waiting)
<1>1. t = kernel_current_task /\ pc[t] = from
  BY DEF AtStep
<1>2. CASE from \in Away
  <2>1. from = "sleep_yield"
    BY <1>2 DEF Away
  <2> QED BY <1>1, <2>1 DEF EventInd, Callers, Queued
<1>3. CASE from \notin Away
  BY <1>3, RunsAtFront
<1> QED BY <1>2, <1>3

\* The steps of the tasks after a step of t.
LEMMA Goes ==
  ASSUME NEW t \in Task, NEW to, pc \in [Task -> EventStep], Goto(t, to), to \in EventStep
  PROVE  /\ pc' \in [Task -> EventStep] /\ pc'[t] = to
         /\ \A u \in Task : u # t => pc'[u] = pc[u]
BY DEF Goto

-----------------------------------------------------------------------------
(* Steps that change no list *)

\* What the step of a task does to the events.
EventsMove(t, from, to) ==
  \/ from = "trig_clear" /\ to = "trig_wake" /\ events' = events \ arg[t]
  \/ from = "listen_end" /\ to = "out" /\ events' = reset
  \/ from \notin {"trig_clear", "listen_end"} /\ to # "trig_wake" /\ events' = events

\* The task waits on, or sees the events.
ListenMoves(from, to) ==
  /\ from \in {"listen_resume", "listen_yield"} => to \in Queued
  /\ to \in Queued => from \in {"listen_resume", "listen_yield"}
  /\ to = "listen_suspend" => from \in {"listen_test", "listen_retest"} /\ events # {}
  /\ to = "listen_block" => from = "listen_suspend"

\* A task goes from one step of its code to another, and the lists stay as they
\* are; inside a window the count of the suspensions is 1.
Quiet(t, from, to) ==
  /\ AtStep(t, from) /\ Goto(t, to) /\ from \in EventStep /\ to \in EventStep /\ Caller(t, to)
  /\ UNCHANGED <<kernel_ticks, kernel_current_task, attr, ready, blocked_curr,
                 blocked_next, ready_switch_next, waiting, use>>
  /\ task_suspended_count' = IF to \in Window THEN 1 ELSE 0
  /\ pendsv' \in BOOLEAN
  /\ to \in Window => ~pendsv'
  /\ from \in Away => to \in Away \/ pendsv'
  /\ from # "trig_wake"
  /\ arg' \in [Task -> SUBSET Event]
  /\ EventsMove(t, from, to) /\ ListenMoves(from, to)

LEMMA QuietHere ==
  ASSUME EventInd, NEW t \in Task, NEW from, NEW to, Quiet(t, from, to)
  PROVE  /\ t = kernel_current_task /\ pc[t] = from /\ ~pendsv
         /\ kernel_current_task' = kernel_current_task
         /\ pc' \in [Task -> EventStep] /\ pc'[t] = to
         /\ \A u \in Task : u # t => pc'[u] = pc[u]
BY Goes DEF EventInd, EventTypes, Quiet, AtStep

LEMMA QuietTypes ==
  ASSUME EventInd, NEW t \in Task, NEW from, NEW to, Quiet(t, from, to)
  PROVE  EventTypes'
<1>1. pc' \in [Task -> EventStep]
  BY QuietHere
<1>2. /\ use' \in EventUses /\ kernel_ticks' \in Tick /\ kernel_current_task' \in Task
      /\ ready_switch_next' \in BOOLEAN /\ pendsv' \in BOOLEAN
      /\ attr' = AttrOf' /\ arg' \in [Task -> SUBSET Event]
  BY DEF EventInd, EventTypes, Quiet, AttrOf
<1>3. events' \subseteq InitEvents'
  <2>1. events \subseteq InitEvents /\ InitEvents' = InitEvents
    BY DEF EventInd, EventTypes, Quiet, InitEvents
  <2>2. events' \subseteq InitEvents
    BY <2>1 DEF Quiet, EventsMove, reset
  <2> QED BY <2>1, <2>2
<1> QED BY <1>1, <1>2, <1>3 DEF EventTypes

LEMMA QuietPlaces ==
  ASSUME EventInd, NEW t \in Task, NEW from, NEW to, Quiet(t, from, to)
  PROVE  /\ Lists(ready, blocked_curr, blocked_next, attr, waiting)'
         /\ FrontRuns' /\ Windows'
<1>1. /\ t = kernel_current_task /\ pc[t] = from /\ ~pendsv
      /\ kernel_current_task' = kernel_current_task
      /\ pc' \in [Task -> EventStep] /\ pc'[t] = to
      /\ \A u \in Task : u # t => pc'[u] = pc[u]
  BY QuietHere
<1>2. Lists(ready, blocked_curr, blocked_next, attr, waiting)'
  <2>1. Lists(ready, blocked_curr, blocked_next, attr, waiting)
    BY DEF EventInd
  <2>2. /\ ready' = ready /\ blocked_curr' = blocked_curr /\ blocked_next' = blocked_next
        /\ attr' = attr /\ waiting' = waiting
    BY DEF Quiet
  <2>3. Lists(ready', blocked_curr', blocked_next', attr', waiting')
    BY <2>1, <2>2
  <2> QED BY <2>3
<1>3. FrontRuns'
  <2>1. CASE from \in Away
    BY <1>1, <2>1 DEF Quiet, FrontRuns
  <2>2. CASE from \notin Away
    <3>1. AtFront(ready, attr, t)
      BY <2>2, RunsAtFront DEF Quiet
    <3>2. AtFront(ready', attr', kernel_current_task')
      BY <1>1, <3>1 DEF Quiet
    <3> QED BY <3>2 DEF FrontRuns
  <2> QED BY <2>1, <2>2
<1>4. Windows'
  BY <1>1 DEF Quiet, EventInd, Windows
<1> QED BY <1>2, <1>3, <1>4

LEMMA QuietCallers ==
  ASSUME EventInd, NEW t \in Task, NEW from, NEW to, Quiet(t, from, to)
  PROVE  Callers'
<1>1. /\ t = kernel_current_task /\ pc[t] = from
      /\ pc' \in [Task -> EventStep] /\ pc'[t] = to
      /\ \A u \in Task : u # t => pc'[u] = pc[u]
  BY QuietHere
<1>2. use' = use /\ waiting' = waiting /\ Caller(t, to)
  BY DEF Quiet
<1>3. ASSUME NEW u \in Task PROVE Caller(u, pc[u])'
  <2>1. Caller(u, pc'[u])
    BY <1>1, <1>2 DEF EventInd, Callers
  <2> QED BY <1>2, <2>1 DEF Caller, Listener, Triggers, User
<1>4. ASSUME NEW u \in Range(waiting) PROVE pc'[u] \in Queued
  <2>1. u \in Task
    BY WaiterNotReady DEF EventInd
  <2>2. CASE u = t
    <3>1. from \in {"listen_resume", "listen_yield"}
      BY <1>4, <2>2, NotWaiting DEF Quiet
    <3> QED BY <1>1, <2>2, <3>1 DEF Quiet, ListenMoves
  <2>3. CASE u # t
    BY <1>1, <2>1, <2>3 DEF EventInd, Callers
  <2> QED BY <2>2, <2>3
<1> QED BY <1>2, <1>3, <1>4 DEF Callers

LEMMA QuietWoken ==
  ASSUME EventInd, NEW t \in Task, NEW from, NEW to, Quiet(t, from, to)
  PROVE  WokenSees'
<1>1. /\ pc[t] = from /\ pc'[t] = to
      /\ \A u \in Task : u # t => pc'[u] = pc[u]
  BY QuietHere
<1>2. waiting' = waiting /\ Listener' = Listener
  BY DEF Quiet, Listener
<1>3. SUFFICES ASSUME NEW u \in Task, Listener = {u}, pc'[u] \in Queued,
                      u \notin Range(waiting)
               PROVE  events' = {}
  BY <1>2 DEF WokenSees
<1>4. pc[u] \in Queued
  BY <1>1, <1>3 DEF Quiet, ListenMoves, Queued
<1>5. events = {}
  BY <1>3, <1>4 DEF EventInd, WokenSees
<1>6. from # "listen_end" \/ to # "out"
  <2>1. SUFFICES ASSUME from = "listen_end", to = "out" PROVE FALSE
    OBVIOUS
  <2>2. t \in Listener
    BY <1>1, <2>1 DEF EventInd, Callers, Caller, ListenStep
  <2>3. u = t
    BY <1>3, <2>2
  <2> QED BY <1>1, <1>3, <2>1, <2>3 DEF Queued
<1> QED BY <1>5, <1>6 DEF Quiet, EventsMove

LEMMA QuietKeeps ==
  ASSUME EventInd, NEW t \in Task, NEW from, NEW to, Quiet(t, from, to)
  PROVE  EventInd'
BY QuietTypes, QuietPlaces, QuietCallers, QuietWoken DEF EventInd

-----------------------------------------------------------------------------
(* Which steps those are *)

\* What a step of t at from starts with.
LEMMA Here ==
  ASSUME EventInd, NEW t \in Task, NEW from, AtStep(t, from)
  PROVE  /\ task_suspended_count = IF from \in Window THEN 1 ELSE 0
         /\ Caller(t, from) /\ pendsv = FALSE /\ t = kernel_current_task /\ pc[t] = from
         /\ arg \in [Task -> SUBSET Event] /\ use \in EventUses /\ pc \in [Task -> EventStep]
<1>1. t = kernel_current_task /\ pc[t] = from /\ ~pendsv
  BY DEF AtStep
<1>2. pendsv \in BOOLEAN /\ pc \in [Task -> EventStep]
  BY DEF EventInd, EventTypes
<1> QED BY <1>1, <1>2 DEF EventInd, EventTypes, Windows, Callers

LEMMA CallListenIsQuiet ==
  ASSUME EventInd, NEW t \in Task, CallListen(t), use' = use
  PROVE  Quiet(t, "out", "listen_test")
<1>1. AtStep(t, "out") /\ Goto(t, "listen_test")
  BY DEF CallListen
<1>2. /\ task_suspended_count = IF "out" \in Window THEN 1 ELSE 0
      /\ Caller(t, "out") /\ pendsv = FALSE /\ arg \in [Task -> SUBSET Event]
  BY <1>1, Here
<1>3. Caller(t, "listen_test")
  BY <1>2, UseFacts DEF CallListen, EventInd, EventTypes, Caller, ListenStep, TrigStep
<1>4. /\ UNCHANGED <<kernel_ticks, kernel_current_task, attr, ready, blocked_curr,
                     blocked_next, ready_switch_next, waiting>>
      /\ task_suspended_count' = IF "listen_test" \in Window THEN 1 ELSE 0
  BY <1>2 DEF CallListen, kernelVars, Window
<1>5. /\ pendsv' \in BOOLEAN
      /\ "listen_test" \in Window => ~pendsv'
      /\ "out" \in Away => "listen_test" \in Away \/ pendsv'
  BY <1>2 DEF CallListen, kernelVars, Window, Away
<1>6. EventsMove(t, "out", "listen_test") /\ ListenMoves("out", "listen_test")
  BY DEF CallListen, EventsMove, ListenMoves, Queued
<1>7. arg' \in [Task -> SUBSET Event]
  BY <1>2 DEF CallListen
<1> QED BY <1>1, <1>3, <1>4, <1>5, <1>6, <1>7 DEF Quiet, EventStep

LEMMA ListenSuspendIsQuiet ==
  ASSUME EventInd, NEW t \in Task, ListenSuspend(t), use' = use
  PROVE  Quiet(t, "listen_suspend", "listen_block")
<1>1. AtStep(t, "listen_suspend") /\ Goto(t, "listen_block")
  BY DEF ListenSuspend
<1>2. /\ task_suspended_count = IF "listen_suspend" \in Window THEN 1 ELSE 0
      /\ Caller(t, "listen_suspend") /\ pendsv = FALSE /\ arg \in [Task -> SUBSET Event]
  BY <1>1, Here
<1>3. Caller(t, "listen_block")
  BY <1>2, UseFacts DEF ListenSuspend, EventInd, EventTypes, Caller, ListenStep, TrigStep
<1>4. /\ UNCHANGED <<kernel_ticks, kernel_current_task, attr, ready, blocked_curr,
                     blocked_next, ready_switch_next, waiting>>
      /\ task_suspended_count' = IF "listen_block" \in Window THEN 1 ELSE 0
  BY <1>2 DEF ListenSuspend, task_suspend_all, UnchangedLists, kernelVars, Window
<1>5. /\ pendsv' \in BOOLEAN
      /\ "listen_block" \in Window => ~pendsv'
      /\ "listen_suspend" \in Away => "listen_block" \in Away \/ pendsv'
  BY <1>2 DEF ListenSuspend, task_suspend_all, UnchangedLists, kernelVars, Window, Away
<1>6. EventsMove(t, "listen_suspend", "listen_block") /\ ListenMoves("listen_suspend", "listen_block")
  BY DEF ListenSuspend, EventsMove, ListenMoves, Queued
<1>7. arg' \in [Task -> SUBSET Event]
  BY <1>2 DEF ListenSuspend
<1> QED BY <1>1, <1>3, <1>4, <1>5, <1>6, <1>7 DEF Quiet, EventStep

LEMMA ListenResumeIsQuiet ==
  ASSUME EventInd, NEW t \in Task, ListenResume(t), use' = use
  PROVE  Quiet(t, "listen_resume", "listen_yield")
<1>1. AtStep(t, "listen_resume") /\ Goto(t, "listen_yield")
  BY DEF ListenResume
<1>2. /\ task_suspended_count = IF "listen_resume" \in Window THEN 1 ELSE 0
      /\ Caller(t, "listen_resume") /\ pendsv = FALSE /\ arg \in [Task -> SUBSET Event]
  BY <1>1, Here
<1>3. Caller(t, "listen_yield")
  BY <1>2, UseFacts DEF ListenResume, EventInd, EventTypes, Caller, ListenStep, TrigStep
<1>4. /\ UNCHANGED <<kernel_ticks, kernel_current_task, attr, ready, blocked_curr,
                     blocked_next, ready_switch_next, waiting>>
      /\ task_suspended_count' = IF "listen_yield" \in Window THEN 1 ELSE 0
  BY <1>2 DEF ListenResume, task_resume_all, UnchangedLists, kernelVars, Window
<1>5. /\ pendsv' \in BOOLEAN
      /\ "listen_yield" \in Window => ~pendsv'
      /\ "listen_resume" \in Away => "listen_yield" \in Away \/ pendsv'
  BY <1>2 DEF ListenResume, task_resume_all, UnchangedLists, kernelVars, Window, Away
<1>6. EventsMove(t, "listen_resume", "listen_yield") /\ ListenMoves("listen_resume", "listen_yield")
  BY DEF ListenResume, EventsMove, ListenMoves, Queued
<1>7. arg' \in [Task -> SUBSET Event]
  BY <1>2 DEF ListenResume
<1> QED BY <1>1, <1>3, <1>4, <1>5, <1>6, <1>7 DEF Quiet, EventStep

LEMMA ListenYieldIsQuiet ==
  ASSUME EventInd, NEW t \in Task, ListenYield(t), use' = use
  PROVE  Quiet(t, "listen_yield", "listen_retest")
<1>1. AtStep(t, "listen_yield") /\ Goto(t, "listen_retest")
  BY DEF ListenYield
<1>2. /\ task_suspended_count = IF "listen_yield" \in Window THEN 1 ELSE 0
      /\ Caller(t, "listen_yield") /\ pendsv = FALSE /\ arg \in [Task -> SUBSET Event]
  BY <1>1, Here
<1>3. Caller(t, "listen_retest")
  BY <1>2, UseFacts DEF ListenYield, EventInd, EventTypes, Caller, ListenStep, TrigStep
<1>4. /\ UNCHANGED <<kernel_ticks, kernel_current_task, attr, ready, blocked_curr,
                     blocked_next, ready_switch_next, waiting>>
      /\ task_suspended_count' = IF "listen_retest" \in Window THEN 1 ELSE 0
  BY <1>2 DEF ListenYield, task_yield, UnchangedLists, kernelVars, Window
<1>5. /\ pendsv' \in BOOLEAN
      /\ "listen_retest" \in Window => ~pendsv'
      /\ "listen_yield" \in Away => "listen_retest" \in Away \/ pendsv'
  BY <1>2 DEF ListenYield, task_yield, UnchangedLists, kernelVars, Window, Away
<1>6. EventsMove(t, "listen_yield", "listen_retest") /\ ListenMoves("listen_yield", "listen_retest")
  BY DEF ListenYield, EventsMove, ListenMoves, Queued
<1>7. arg' \in [Task -> SUBSET Event]
  BY <1>2 DEF ListenYield
<1> QED BY <1>1, <1>3, <1>4, <1>5, <1>6, <1>7 DEF Quiet, EventStep

LEMMA ListenEndIsQuiet ==
  ASSUME EventInd, NEW t \in Task, ListenEnd(t), use' = use
  PROVE  Quiet(t, "listen_end", "out")
<1>1. AtStep(t, "listen_end") /\ Goto(t, "out")
  BY DEF ListenEnd
<1>2. /\ task_suspended_count = IF "listen_end" \in Window THEN 1 ELSE 0
      /\ Caller(t, "listen_end") /\ pendsv = FALSE /\ arg \in [Task -> SUBSET Event]
  BY <1>1, Here
<1>3. Caller(t, "out")
  BY <1>2, UseFacts DEF ListenEnd, EventInd, EventTypes, Caller, ListenStep, TrigStep
<1>4. /\ UNCHANGED <<kernel_ticks, kernel_current_task, attr, ready, blocked_curr,
                     blocked_next, ready_switch_next, waiting>>
      /\ task_suspended_count' = IF "out" \in Window THEN 1 ELSE 0
  BY <1>2 DEF ListenEnd, kernelVars, Window
<1>5. /\ pendsv' \in BOOLEAN
      /\ "out" \in Window => ~pendsv'
      /\ "listen_end" \in Away => "out" \in Away \/ pendsv'
  BY <1>2 DEF ListenEnd, kernelVars, Window, Away
<1>6. EventsMove(t, "listen_end", "out") /\ ListenMoves("listen_end", "out")
  BY DEF ListenEnd, EventsMove, ListenMoves, Queued
<1>7. arg' \in [Task -> SUBSET Event]
  BY <1>2 DEF ListenEnd
<1> QED BY <1>1, <1>3, <1>4, <1>5, <1>6, <1>7 DEF Quiet, EventStep

LEMMA TrigSuspendIsQuiet ==
  ASSUME EventInd, NEW t \in Task, TrigSuspend(t), use' = use
  PROVE  Quiet(t, "trig_suspend", "trig_clear")
<1>1. AtStep(t, "trig_suspend") /\ Goto(t, "trig_clear")
  BY DEF TrigSuspend
<1>2. /\ task_suspended_count = IF "trig_suspend" \in Window THEN 1 ELSE 0
      /\ Caller(t, "trig_suspend") /\ pendsv = FALSE /\ arg \in [Task -> SUBSET Event]
  BY <1>1, Here
<1>3. Caller(t, "trig_clear")
  BY <1>2, UseFacts DEF TrigSuspend, EventInd, EventTypes, Caller, ListenStep, TrigStep
<1>4. /\ UNCHANGED <<kernel_ticks, kernel_current_task, attr, ready, blocked_curr,
                     blocked_next, ready_switch_next, waiting>>
      /\ task_suspended_count' = IF "trig_clear" \in Window THEN 1 ELSE 0
  BY <1>2 DEF TrigSuspend, task_suspend_all, UnchangedLists, kernelVars, Window
<1>5. /\ pendsv' \in BOOLEAN
      /\ "trig_clear" \in Window => ~pendsv'
      /\ "trig_suspend" \in Away => "trig_clear" \in Away \/ pendsv'
  BY <1>2 DEF TrigSuspend, task_suspend_all, UnchangedLists, kernelVars, Window, Away
<1>6. EventsMove(t, "trig_suspend", "trig_clear") /\ ListenMoves("trig_suspend", "trig_clear")
  BY DEF TrigSuspend, EventsMove, ListenMoves, Queued
<1>7. arg' \in [Task -> SUBSET Event]
  BY <1>2 DEF TrigSuspend
<1> QED BY <1>1, <1>3, <1>4, <1>5, <1>6, <1>7 DEF Quiet, EventStep

LEMMA TrigClearIsQuiet ==
  ASSUME EventInd, NEW t \in Task, TrigClear(t), use' = use
  PROVE  Quiet(t, "trig_clear", "trig_wake")
<1>1. AtStep(t, "trig_clear") /\ Goto(t, "trig_wake")
  BY DEF TrigClear
<1>2. /\ task_suspended_count = IF "trig_clear" \in Window THEN 1 ELSE 0
      /\ Caller(t, "trig_clear") /\ pendsv = FALSE /\ arg \in [Task -> SUBSET Event]
  BY <1>1, Here
<1>3. Caller(t, "trig_wake")
  BY <1>2, UseFacts DEF TrigClear, EventInd, EventTypes, Caller, ListenStep, TrigStep
<1>4. /\ UNCHANGED <<kernel_ticks, kernel_current_task, attr, ready, blocked_curr,
                     blocked_next, ready_switch_next, waiting>>
      /\ task_suspended_count' = IF "trig_wake" \in Window THEN 1 ELSE 0
  BY <1>2 DEF TrigClear, kernelVars, Window
<1>5. /\ pendsv' \in BOOLEAN
      /\ "trig_wake" \in Window => ~pendsv'
      /\ "trig_clear" \in Away => "trig_wake" \in Away \/ pendsv'
  BY <1>2 DEF TrigClear, kernelVars, Window, Away
<1>6. EventsMove(t, "trig_clear", "trig_wake") /\ ListenMoves("trig_clear", "trig_wake")
  BY DEF TrigClear, EventsMove, ListenMoves, Queued
<1>7. arg' \in [Task -> SUBSET Event]
  BY <1>2 DEF TrigClear
<1> QED BY <1>1, <1>3, <1>4, <1>5, <1>6, <1>7 DEF Quiet, EventStep

LEMMA TrigResumeIsQuiet ==
  ASSUME EventInd, NEW t \in Task, TrigResume(t), use' = use
  PROVE  Quiet(t, "trig_resume", "out")
<1>1. AtStep(t, "trig_resume") /\ Goto(t, "out")
  BY DEF TrigResume
<1>2. /\ task_suspended_count = IF "trig_resume" \in Window THEN 1 ELSE 0
      /\ Caller(t, "trig_resume") /\ pendsv = FALSE /\ arg \in [Task -> SUBSET Event]
  BY <1>1, Here
<1>3. Caller(t, "out")
  BY <1>2, UseFacts DEF TrigResume, EventInd, EventTypes, Caller, ListenStep, TrigStep
<1>4. /\ UNCHANGED <<kernel_ticks, kernel_current_task, attr, ready, blocked_curr,
                     blocked_next, ready_switch_next, waiting>>
      /\ task_suspended_count' = IF "out" \in Window THEN 1 ELSE 0
  BY <1>2 DEF TrigResume, task_resume_all, UnchangedLists, kernelVars, Window
<1>5. /\ pendsv' \in BOOLEAN
      /\ "out" \in Window => ~pendsv'
      /\ "trig_resume" \in Away => "out" \in Away \/ pendsv'
  BY <1>2 DEF TrigResume, task_resume_all, UnchangedLists, kernelVars, Window, Away
<1>6. EventsMove(t, "trig_resume", "out") /\ ListenMoves("trig_resume", "out")
  BY DEF TrigResume, EventsMove, ListenMoves, Queued
<1>7. arg' \in [Task -> SUBSET Event]
  BY <1>2 DEF TrigResume
<1> QED BY <1>1, <1>3, <1>4, <1>5, <1>6, <1>7 DEF Quiet, EventStep

LEMMA SleepYieldIsQuiet ==
  ASSUME EventInd, NEW t \in Task, EventSleepYield(t), use' = use
  PROVE  Quiet(t, "sleep_yield", "out")
<1>1. AtStep(t, "sleep_yield") /\ Goto(t, "out")
  BY DEF groupVars, EventSleepYield, sleep_yield
<1>2. /\ task_suspended_count = IF "sleep_yield" \in Window THEN 1 ELSE 0
      /\ Caller(t, "sleep_yield") /\ pendsv = FALSE /\ arg \in [Task -> SUBSET Event]
  BY <1>1, Here
<1>3. Caller(t, "out")
  BY <1>2, UseFacts DEF groupVars, EventSleepYield, EventInd, EventTypes, Caller, ListenStep, TrigStep
<1>4. /\ UNCHANGED <<kernel_ticks, kernel_current_task, attr, ready, blocked_curr,
                     blocked_next, ready_switch_next, waiting>>
      /\ task_suspended_count' = IF "out" \in Window THEN 1 ELSE 0
  BY <1>2 DEF groupVars, EventSleepYield, sleep_yield, task_yield, UnchangedLists, kernelVars, Window
<1>5. /\ pendsv' \in BOOLEAN
      /\ "out" \in Window => ~pendsv'
      /\ "sleep_yield" \in Away => "out" \in Away \/ pendsv'
  BY <1>2 DEF groupVars, EventSleepYield, sleep_yield, task_yield, UnchangedLists, kernelVars, Window, Away
<1>6. EventsMove(t, "sleep_yield", "out") /\ ListenMoves("sleep_yield", "out")
  BY DEF groupVars, EventSleepYield, EventsMove, ListenMoves, Queued
<1>7. arg' \in [Task -> SUBSET Event]
  BY <1>2 DEF groupVars, EventSleepYield
<1> QED BY <1>1, <1>3, <1>4, <1>5, <1>6, <1>7 DEF Quiet, EventStep

LEMMA ListenTestIsQuiet ==
  ASSUME EventInd, NEW t \in Task, ListenTest(t), use' = use
  PROVE  \E from \in {"listen_test", "listen_retest"}, to \in {"listen_end", "listen_suspend"} :
           Quiet(t, from, to) /\ (to = "listen_end" <=> events = {})
<1>1. PICK from \in {"listen_test", "listen_retest"} : AtStep(t, from)
  BY DEF ListenTest
<1>2. PICK to \in {"listen_end", "listen_suspend"} :
        Goto(t, to) /\ (to = "listen_end" <=> events = {})
  BY DEF ListenTest
<1>3. /\ task_suspended_count = IF from \in Window THEN 1 ELSE 0
      /\ Caller(t, from) /\ pendsv = FALSE /\ arg \in [Task -> SUBSET Event]
  BY <1>1, Here
<1>4. UNCHANGED <<kernelVars, waiting, events, arg>>
  BY DEF ListenTest
<1>5. Caller(t, to)
  BY <1>3, UseFacts DEF EventInd, EventTypes, Caller, ListenStep, TrigStep
<1>6. EventsMove(t, from, to) /\ ListenMoves(from, to)
  BY <1>2, <1>4 DEF EventsMove, ListenMoves, Queued
<1>7. Quiet(t, from, to)
  BY <1>1, <1>2, <1>3, <1>4, <1>5, <1>6 DEF Quiet, EventStep, kernelVars, Window, Away
<1> QED BY <1>2, <1>7

LEMMA CallTriggerIsQuiet ==
  ASSUME EventInd, NEW t \in Task, NEW e \in SUBSET Event, CallTrigger(t, e), use' = use
  PROVE  Quiet(t, "out", "trig_suspend")
<1>1. /\ AtStep(t, "out") /\ Goto(t, "trig_suspend") /\ t \in User /\ e \in Triggers[t]
      /\ arg' = [arg EXCEPT ![t] = e] /\ UNCHANGED <<kernelVars, waiting, events>>
  BY DEF CallTrigger
<1>2. /\ task_suspended_count = IF "out" \in Window THEN 1 ELSE 0
      /\ Caller(t, "out") /\ pendsv = FALSE /\ arg \in [Task -> SUBSET Event]
  BY <1>1, Here
<1>3. Caller(t, "trig_suspend") /\ arg' \in [Task -> SUBSET Event]
  BY <1>1, <1>2 DEF Caller, ListenStep, TrigStep
<1>4. EventsMove(t, "out", "trig_suspend") /\ ListenMoves("out", "trig_suspend")
  BY <1>1 DEF EventsMove, ListenMoves, Queued
<1> QED BY <1>1, <1>2, <1>3, <1>4 DEF Quiet, EventStep, kernelVars, Window, Away

LEMMA IdleYieldIsQuiet ==
  ASSUME EventInd, EventIdleYield, use' = use
  PROVE  Quiet(IdleTask, "out", "out")
<1>1. /\ AtStep(IdleTask, "out") /\ task_yield /\ pc' = pc /\ UNCHANGED groupVars
  BY DEF EventIdleYield, idle_yield
<1>2. IdleTask \in Task
  BY IdleIsTask
<1>3. /\ task_suspended_count = IF "out" \in Window THEN 1 ELSE 0
      /\ Caller(IdleTask, "out") /\ pendsv = FALSE /\ arg \in [Task -> SUBSET Event]
      /\ pc[IdleTask] = "out" /\ pc \in [Task -> EventStep]
  BY <1>1, <1>2, Here
<1>4. Goto(IdleTask, "out")
  BY <1>1, <1>2, <1>3 DEF Goto
<1>5. EventsMove(IdleTask, "out", "out") /\ ListenMoves("out", "out")
  BY <1>1 DEF groupVars, EventsMove, ListenMoves, Queued
<1> QED BY <1>1, <1>3, <1>4, <1>5 DEF task_yield, UnchangedLists, groupVars, Quiet, EventStep,
       Window, Away

-----------------------------------------------------------------------------
(* The steps that move tasks *)

\* What such a step leaves to show, when it is a step of the task t that runs.
LEMMA MoveTypes ==
  ASSUME EventInd, NEW t \in Task, NEW from, NEW to, AtStep(t, from), Goto(t, to),
         to \in EventStep, Caller(t, to), from \in Window <=> to \in Window,
         UNCHANGED <<kernel_ticks, kernel_current_task, attr, ready_switch_next,
                     task_suspended_count, pendsv, use, arg>>,
         events' = {} \/ events' = events
  PROVE  /\ EventTypes' /\ Windows' /\ \A u \in Task : Caller(u, pc[u])'
         /\ pc'[t] = to /\ \A u \in Task : u # t => pc'[u] = pc[u]
<1>1. /\ t = kernel_current_task /\ pc[t] = from /\ pc \in [Task -> EventStep]
  BY Here
<1>2. /\ pc' \in [Task -> EventStep] /\ pc'[t] = to
      /\ \A u \in Task : u # t => pc'[u] = pc[u]
  BY <1>1, Goes
<1>3. EventTypes'
  BY <1>2 DEF EventInd, EventTypes, AttrOf, InitEvents
<1>4. Windows'
  BY <1>1, <1>2 DEF EventInd, Windows
<1>5. ASSUME NEW u \in Task PROVE Caller(u, pc[u])'
  <2>1. Caller(u, pc'[u])
    BY <1>1, <1>2 DEF EventInd, Callers
  <2> QED BY <2>1 DEF Caller, Listener, Triggers, User
<1> QED BY <1>2, <1>3, <1>4, <1>5

\* A listener pushes the front task, which is the listener itself.
LEMMA ListenBlockMoves ==
  ASSUME EventInd, NEW t \in Task, ListenBlock(t), use' = use
  PROVE  /\ Lists(ready', blocked_curr', blocked_next', attr', waiting')
         /\ StayReady(ready, ready', {t}) /\ Range(waiting') = Range(waiting) \union {t}
         /\ t = kernel_current_task /\ pc[t] = "listen_block"
<1>1. /\ AtStep(t, "listen_block") /\ Goto(t, "listen_resume")
      /\ wait_front(waiting, stack_list_push(waiting, front_task)) /\ UNCHANGED <<events, arg>>
  BY DEF ListenBlock
<1>2. t = kernel_current_task /\ AtFront(ready, attr, t) /\ t \notin Range(waiting)
  BY <1>1, RunsAtFront DEF Away
<1>3. front_task = t
  BY <1>2 DEF front_task, tasklist_get_front_task, AtFront, CurrentPriority
<1>4. /\ ready' = tasklist_remove_front(ready, attr[t].priority)
      /\ waiting' = <<t>> \o waiting
  BY <1>1, <1>2, <1>3, NoTaskAssumption DEF wait_front, stack_list_push, CurrentPriority
<1>5. UNCHANGED <<attr, blocked_curr, blocked_next>>
  BY <1>1 DEF wait_front, UnchangedScheduler
<1>6. t \in User /\ waiting \in Seq(Task) /\ pc[t] = "listen_block"
  <2>1. pc[t] = "listen_block" /\ Caller(t, "listen_block")
    BY <1>1, Here
  <2> QED BY <2>1 DEF Caller, EventInd, Lists
<1>7. PICK new \in Seq(Task) :
        /\ new = <<t>> \o waiting /\ IsInsert(new, waiting, 1, t)
        /\ Range(new) = Range(waiting) \union {t}
  BY <1>6, PushInserts, PushRange
<1>8. PICK s : s = ready'
  OBVIOUS
<1>9. /\ Lists(s, blocked_curr, blocked_next, attr, new)
      /\ StayReady(ready, s, {t})
  <2>1. Lists(ready, blocked_curr, blocked_next, attr, waiting)
    BY DEF EventInd
  <2>2. s = tasklist_remove_front(ready, attr[t].priority)
    BY <1>4, <1>8
  <2>3. PICK n \in 1 .. Len(waiting) + 1 : n = 1
    BY <1>6
  <2> QED BY <1>2, <1>6, <1>7, <2>1, <2>2, <2>3, WaitLists
<1> QED BY <1>2, <1>4, <1>5, <1>6, <1>7, <1>8, <1>9

\* The listener that has seen an event waits for it.
LEMMA ListenBlockKeeps ==
  ASSUME EventInd, NEW t \in Task, ListenBlock(t), use' = use
  PROVE  EventInd'
<1>1. /\ Lists(ready', blocked_curr', blocked_next', attr', waiting')
      /\ Range(waiting') = Range(waiting) \union {t}
      /\ t = kernel_current_task /\ pc[t] = "listen_block"
  BY ListenBlockMoves
<1>2. /\ AtStep(t, "listen_block") /\ Goto(t, "listen_resume")
      /\ UNCHANGED <<kernel_ticks, kernel_current_task, attr, ready_switch_next,
                     task_suspended_count, pendsv, use, arg, events>>
  BY DEF ListenBlock, wait_front, UnchangedScheduler
<1>3. Caller(t, "listen_resume") /\ Caller(t, "listen_block")
  <2>1. Caller(t, "listen_block")
    BY <1>2, Here
  <2> QED BY <2>1 DEF Caller, ListenStep, TrigStep
<1>4. /\ EventTypes' /\ Windows' /\ \A u \in Task : Caller(u, pc[u])'
      /\ pc'[t] = "listen_resume" /\ \A u \in Task : u # t => pc'[u] = pc[u]
  BY <1>2, <1>3, MoveTypes DEF EventStep, Window
<1>5. FrontRuns'
  BY <1>1, <1>2, <1>4 DEF FrontRuns, Away
<1>6. Callers'
  <2>1. ASSUME NEW u \in Range(waiting') PROVE pc'[u] \in Queued
    <3>1. CASE u = t
      BY <1>4, <3>1 DEF Queued
    <3>2. CASE u # t
      <4>1. u \in Range(waiting) /\ u \in Task
        BY <1>1, <2>1, <3>2, WaiterNotReady DEF EventInd
      <4> QED BY <1>4, <3>2, <4>1 DEF EventInd, Callers
    <3> QED BY <3>1, <3>2
  <2> QED BY <1>4, <2>1 DEF Callers
<1>7. WokenSees'
  <2>1. SUFFICES ASSUME NEW u \in Task, Listener = {u}, pc'[u] \in Queued,
                        u \notin Range(waiting')
                 PROVE  events = {}
    BY <1>2 DEF WokenSees, Listener
  <2>2. u # t /\ u \notin Range(waiting)
    BY <1>1, <2>1
  <2> QED BY <1>4, <2>1, <2>2 DEF EventInd, WokenSees
<1>8. Lists(ready, blocked_curr, blocked_next, attr, waiting)'
  BY <1>1
<1> QED BY <1>4, <1>5, <1>6, <1>7, <1>8 DEF EventInd

\* The listeners are woken all together, or none of them.
LEMMA TrigWakeMoves ==
  ASSUME EventInd, NEW t \in Task, TrigWake(t), use' = use
  PROVE  /\ Lists(ready', blocked_curr', blocked_next', attr', waiting')
         /\ StayReady(ready, ready', {}) /\ StayFront(ready, ready', attr)
         /\ \/ fires /\ waiting' = <<>> /\ events' = {}
            \/ ~fires /\ waiting' = waiting /\ events' = events
<1>1. /\ ready' = make_all_ready(ready, woken_tasks)
      /\ waiting' = SubSeq(waiting, Len(woken_tasks) + 1, Len(waiting))
      /\ events' = IF fires THEN {} ELSE events
      /\ UNCHANGED <<attr, blocked_curr, blocked_next>>
  BY DEF TrigWake, UnchangedScheduler
<1>2. /\ Lists(ready, blocked_curr, blocked_next, attr, waiting) /\ waiting \in Seq(Task)
  BY DEF EventInd, Lists
<1>3. PICK n \in Nat : n = Len(waiting)
  BY <1>2
<1>4. CASE fires
  <2>1. woken_tasks = waiting
    BY <1>4 DEF woken_tasks
  <2>2. waiting' = <<>>
    <3>1. n + 1 \in Int /\ n \in Int /\ n < n + 1
      OBVIOUS
    <3>2. SubSeq(waiting, n + 1, n) = <<>>
      BY <3>1, SubSeqEmpty
    <3> QED BY <1>1, <1>3, <2>1, <3>2
  <2>3. PICK s : s = ready'
    OBVIOUS
  <2>4. s = appended_lists(ready, waiting, attr)[Len(waiting)]
    BY <1>1, <2>1, <2>3 DEF make_all_ready
  <2>5. /\ Lists(s, blocked_curr, blocked_next, attr, <<>>)
        /\ StayReady(ready, s, {}) /\ StayFront(ready, s, attr)
    BY <1>2, <2>4, WakeAllLists
  <2> QED BY <1>1, <1>4, <2>2, <2>3, <2>5
<1>5. CASE ~fires
  <2>1. woken_tasks = <<>>
    BY <1>5 DEF woken_tasks
  <2>2. waiting' = waiting
    <3>1. Len(woken_tasks) = 0
      BY <2>1
    <3>2. SubSeq(waiting, 1, n) = waiting
      BY <1>2, <1>3
    <3> QED BY <1>1, <1>3, <3>1, <3>2
  <2>3. ready' = ready
    <3>1. PICK w \in Seq(Task) : w = <<>> /\ Len(w) = 0
      BY EmptySeq
    <3>2. PICK L : L = appended_lists(ready, w, attr)
      OBVIOUS
    <3>3. L[0] = ready
      BY <3>2, AppendedLists
    <3>4. ready' = make_all_ready(ready, w)
      BY <1>1, <2>1, <3>1
    <3> QED BY <3>1, <3>2, <3>3, <3>4 DEF make_all_ready
  <2>4. StayReady(ready, ready', {}) /\ StayFront(ready, ready', attr)
    BY <2>3 DEF StayReady, StayFront
  <2>5. Lists(ready', blocked_curr', blocked_next', attr', waiting')
    BY <1>1, <1>2, <2>2, <2>3
  <2> QED BY <1>1, <1>5, <2>2, <2>4, <2>5
<1> QED BY <1>4, <1>5

LEMMA TrigWakeKeeps ==
  ASSUME EventInd, NEW t \in Task, TrigWake(t), use' = use
  PROVE  EventInd'
<1>1. /\ Lists(ready', blocked_curr', blocked_next', attr', waiting')
      /\ StayFront(ready, ready', attr)
      /\ \/ waiting' = <<>> /\ events' = {}
         \/ waiting' = waiting /\ events' = events
  BY TrigWakeMoves
<1>2. /\ AtStep(t, "trig_wake") /\ Goto(t, "trig_resume")
      /\ UNCHANGED <<kernel_ticks, kernel_current_task, attr, ready_switch_next,
                     task_suspended_count, pendsv, use, arg>>
  BY DEF TrigWake, UnchangedScheduler
<1>3. Caller(t, "trig_resume")
  <2>1. Caller(t, "trig_wake")
    BY <1>2, Here
  <2> QED BY <2>1 DEF Caller, ListenStep, TrigStep
<1>4. /\ EventTypes' /\ Windows' /\ \A u \in Task : Caller(u, pc[u])'
      /\ pc'[t] = "trig_resume" /\ \A u \in Task : u # t => pc'[u] = pc[u]
  BY <1>1, <1>2, <1>3, MoveTypes DEF EventStep, Window
<1>5. t = kernel_current_task /\ AtFront(ready, attr, t) /\ t \notin Range(waiting)
  BY <1>2, RunsAtFront DEF Away
<1>6. FrontRuns'
  BY <1>1, <1>2, <1>5 DEF FrontRuns, StayFront
<1>7. Range(waiting') \subseteq Range(waiting)
  BY <1>1 DEF Range
<1>8. Callers'
  <2>1. ASSUME NEW u \in Range(waiting') PROVE pc'[u] \in Queued
    <3>1. u \in Range(waiting) /\ u \in Task /\ u # t
      BY <1>5, <1>7, <2>1, WaiterNotReady DEF EventInd
    <3> QED BY <1>4, <3>1 DEF EventInd, Callers
  <2> QED BY <1>4, <2>1 DEF Callers
<1>9. WokenSees'
  <2>1. SUFFICES ASSUME NEW u \in Task, Listener = {u}, pc'[u] \in Queued,
                        u \notin Range(waiting')
                 PROVE  events' = {}
    BY <1>2 DEF WokenSees, Listener
  <2>2. u # t
    BY <1>4, <2>1 DEF Queued
  <2> QED BY <1>1, <1>4, <2>1, <2>2 DEF EventInd, WokenSees
<1>10. Lists(ready, blocked_curr, blocked_next, attr, waiting)'
  BY <1>1
<1> QED BY <1>4, <1>6, <1>8, <1>9, <1>10 DEF EventInd

LEMMA SleepMoves ==
  ASSUME EventInd, NEW t \in Task, EventSleep(t), use' = use
  PROVE  /\ Lists(ready', blocked_curr', blocked_next', attr', waiting')
         /\ StayReady(ready, ready', {t})
         /\ t = kernel_current_task /\ pc[t] = "out" /\ t \in User
<1>1. /\ AtStep(t, "out") /\ t \in use.sleepers /\ sleep_front(kernel_ticks)
      /\ UNCHANGED <<attr, events, waiting>>
  BY DEF groupVars, EventSleep, sleep_one_tick
<1>2. t = kernel_current_task /\ AtFront(ready, attr, t) /\ pc[t] = "out"
  BY <1>1, RunsAtFront, Here DEF Away
<1>3. t \in User /\ kernel_ticks \in Tick
  BY <1>1, UseFacts DEF EventInd, EventTypes
<1>4. Lists(ready, blocked_curr, blocked_next, attr, waiting)
  BY DEF EventInd
<1>5. /\ Lists(ready', blocked_curr', blocked_next', attr, waiting)
      /\ StayReady(ready, ready', {kernel_current_task})
  BY <1>1, <1>2, <1>3, <1>4, SleepLists
<1> QED BY <1>1, <1>2, <1>3, <1>5

LEMMA SleepKeeps ==
  ASSUME EventInd, NEW t \in Task, EventSleep(t), use' = use
  PROVE  EventInd'
<1>1. /\ Lists(ready', blocked_curr', blocked_next', attr', waiting')
      /\ t = kernel_current_task /\ pc[t] = "out" /\ t \in User
  BY SleepMoves
<1>2. /\ AtStep(t, "out") /\ Goto(t, "sleep_yield")
      /\ UNCHANGED <<kernel_ticks, kernel_current_task, attr, ready_switch_next,
                     task_suspended_count, pendsv, use, arg, events, waiting>>
  BY DEF groupVars, EventSleep, sleep_one_tick
<1>3. Caller(t, "sleep_yield")
  BY <1>1 DEF Caller, ListenStep, TrigStep
<1>4. /\ EventTypes' /\ Windows' /\ \A u \in Task : Caller(u, pc[u])'
      /\ pc'[t] = "sleep_yield" /\ \A u \in Task : u # t => pc'[u] = pc[u]
  BY <1>2, <1>3, MoveTypes DEF EventStep, Window
<1>5. t \notin Range(waiting)
  BY <1>2, NotWaiting
<1>6. FrontRuns'
  BY <1>1, <1>2, <1>4 DEF FrontRuns, Away
<1>7. Callers'
  <2>1. ASSUME NEW u \in Range(waiting') PROVE pc'[u] \in Queued
    <3>1. u \in Range(waiting) /\ u \in Task /\ u # t
      BY <1>2, <1>5, <2>1, WaiterNotReady DEF EventInd
    <3> QED BY <1>4, <3>1 DEF EventInd, Callers
  <2> QED BY <1>4, <2>1 DEF Callers
<1>8. WokenSees'
  <2>1. SUFFICES ASSUME NEW u \in Task, Listener = {u}, pc'[u] \in Queued,
                        u \notin Range(waiting)
                 PROVE  events = {}
    BY <1>2 DEF WokenSees, Listener
  <2>2. u # t
    BY <1>4, <2>1 DEF Queued
  <2> QED BY <1>4, <2>1, <2>2 DEF EventInd, WokenSees
<1>9. Lists(ready, blocked_curr, blocked_next, attr, waiting)'
  BY <1>1
<1> QED BY <1>4, <1>6, <1>7, <1>8, <1>9 DEF EventInd

-----------------------------------------------------------------------------
(* The tick and the context switch *)

\* What neither of them touches.
LEMMA KernelStep ==
  ASSUME EventInd, UNCHANGED <<pc, events, waiting, arg, use, attr>>,
         kernel_ticks' \in Tick, kernel_current_task' \in Task,
         ready_switch_next' \in BOOLEAN, pendsv' \in BOOLEAN
  PROVE  EventTypes' /\ Callers' /\ WokenSees'
<1>1. EventTypes'
  BY DEF EventInd, EventTypes, AttrOf, InitEvents
<1>2. Callers'
  BY DEF EventInd, Callers, Caller, Listener, Triggers, User
<1>3. WokenSees'
  BY DEF EventInd, WokenSees, Listener
<1> QED BY <1>1, <1>2, <1>3

\* The tick makes a task ready, and asks for no switch in a window.
LEMMA TickMoves ==
  ASSUME EventInd, EventTick, use' = use
  PROVE  /\ EventInd' /\ StayReady(ready, ready', {})
         /\ UNCHANGED <<kernel_current_task, pc, events, waiting, arg, attr>>
<1>1. /\ SysTick /\ UNCHANGED <<pc, events, waiting, arg>>
      /\ kernel_current_task' = kernel_current_task /\ attr' = attr
      /\ task_suspended_count' = task_suspended_count
  BY DEF EventTick, tick_interrupt, SysTick, groupVars
<1>2. kernel_ticks' \in Tick
  <2>1. kernel_ticks + 1 \in Int
    BY DEF EventInd, EventTypes, Tick
  <2>2. next_tick \in Tick
    BY <2>1, ModTick DEF next_tick
  <2> QED BY <1>1, <2>2 DEF SysTick
<1>3. pendsv' \in BOOLEAN /\ ready_switch_next' \in BOOLEAN
  <2>1. pendsv' = (pendsv \/ need_switch)
    BY <1>1 DEF SysTick
  <2>2. ready_switch_next' = ((ready_switch_next \/ next_tick = 0) /\ ~switch_cycle)
    BY <1>1 DEF SysTick
  <2>3. pendsv' \in BOOLEAN
    BY <2>1, Zenon
  <2>4. ready_switch_next' \in BOOLEAN
    BY <2>2, Zenon
  <2> QED BY <2>3, <2>4
<1>4. kernel_current_task \in Task
  BY DEF EventInd, EventTypes
<1>5. EventTypes' /\ Callers' /\ WokenSees'
  BY <1>1, <1>2, <1>3, <1>4, KernelStep
<1>6. /\ Lists(ready', blocked_curr', blocked_next', attr', waiting)
      /\ StayReady(ready, ready', {})
      /\ StayFront(ready, ready', attr)
  <2>1. Lists(ready, blocked_curr, blocked_next, attr, waiting)
    BY DEF EventInd
  <2> QED BY <1>1, <1>4, <2>1, TickLists
<1>7. Lists(ready, blocked_curr, blocked_next, attr, waiting)'
  BY <1>1, <1>6
<1>8. FrontRuns'
  <2>1. pendsv => pendsv'
    BY <1>1 DEF SysTick
  <2>2. AtFront(ready, attr, kernel_current_task) => AtFront(ready', attr', kernel_current_task')
    BY <1>1, <1>4, <1>6 DEF StayFront
  <2> QED BY <1>1, <2>1, <2>2 DEF EventInd, FrontRuns
<1>9. Windows'
  <2>1. pendsv' = TRUE => pendsv \/ task_suspended_count = 0
    BY <1>1 DEF SysTick, need_switch
  <2> QED BY <1>1, <1>3, <2>1 DEF EventInd, Windows
<1> QED BY <1>1, <1>5, <1>6, <1>7, <1>8, <1>9 DEF EventInd

\* The context switch starts the front task of the highest list.
LEMMA SwitchMoves ==
  ASSUME EventInd, EventSwitch, use' = use
  PROVE  /\ EventInd' /\ StayReady(ready, ready', {})
         /\ \A p \in Priority : ready'.list[p] # <<>> => p <= attr'[kernel_current_task'].priority
         /\ \A t \in Task : pc[t] \notin Window
         /\ UNCHANGED <<pc, events, waiting, arg, attr>>
<1>1. /\ PendSV /\ pendsv /\ pendsv' = FALSE /\ UNCHANGED <<pc, events, waiting, arg>>
      /\ kernel_ticks' = kernel_ticks /\ attr' = attr
      /\ ready_switch_next' = ready_switch_next
      /\ task_suspended_count' = task_suspended_count
  BY DEF EventSwitch, context_switch, PendSV, groupVars
<1>2. /\ Lists(ready', blocked_curr', blocked_next', attr', waiting)
      /\ StayReady(ready, ready', {})
      /\ kernel_current_task' \in Task /\ AtFront(ready', attr', kernel_current_task')
      /\ \A p \in Priority : ready'.list[p] # <<>> => p <= attr'[kernel_current_task'].priority
  <2>1. Lists(ready, blocked_curr, blocked_next, attr, waiting) /\ kernel_current_task \in Task
    BY DEF EventInd, EventTypes
  <2> QED BY <1>1, <2>1, SwitchLists
<1>3. EventTypes' /\ Callers' /\ WokenSees'
  <2>1. kernel_ticks' \in Tick /\ ready_switch_next' \in BOOLEAN /\ pendsv' \in BOOLEAN
    BY <1>1 DEF EventInd, EventTypes
  <2> QED BY <1>1, <1>2, <2>1, KernelStep
<1>4. Lists(ready, blocked_curr, blocked_next, attr, waiting)'
  BY <1>1, <1>2
<1>5. FrontRuns'
  BY <1>2 DEF FrontRuns
<1>6. \A t \in Task : pc[t] \notin Window
  BY <1>1 DEF EventInd, Windows
<1>7. Windows'
  <2>1. task_suspended_count = 0
    BY <1>6 DEF EventInd, EventTypes, Windows
  <2> QED BY <1>1, <1>2, <1>6, <2>1 DEF Windows
<1> QED BY <1>1, <1>2, <1>3, <1>4, <1>5, <1>6, <1>7 DEF EventInd

-----------------------------------------------------------------------------
(* The invariant *)

\* A step of EventGroupNext: quiet, or one of those that move tasks.
LEMMA EventSteps ==
  ASSUME EventInd, EventGroupNext
  PROVE  /\ use' = use
         /\ \/ EventTick \/ EventSwitch
            \/ \E t \in Task : EventSleep(t) \/ ListenBlock(t) \/ TrigWake(t)
            \/ \E t \in Task, from, to \in EventStep : Quiet(t, from, to)
<1>1. use' = use
  BY DEF EventGroupNext
<1>2. CASE EventIdleYield
  <2>1. IdleTask \in Task /\ Quiet(IdleTask, "out", "out")
    BY <1>1, <1>2, IdleIsTask, IdleYieldIsQuiet
  <2> QED BY <1>1, <2>1 DEF EventStep
<1>3. ASSUME NEW t \in User, CallListen(t) \/ Listening(t) \/ Trigger(t) \/ EventSleepYield(t)
      PROVE  \/ ListenBlock(t) \/ TrigWake(t)
             \/ \E from, to \in EventStep : Quiet(t, from, to)
  <2>1. t \in Task
    BY DEF User
  <2>2. CASE ListenTest(t)
    <3>1. \E from \in {"listen_test", "listen_retest"}, to \in {"listen_end", "listen_suspend"} :
            Quiet(t, from, to)
      BY <1>1, <2>1, <2>2, ListenTestIsQuiet
    <3> QED BY <3>1 DEF EventStep
  <2>3. ASSUME NEW e \in SUBSET Event, CallTrigger(t, e)
        PROVE  \E from, to \in EventStep : Quiet(t, from, to)
    <3>1. Quiet(t, "out", "trig_suspend")
      BY <1>1, <2>1, <2>3, CallTriggerIsQuiet
    <3> QED BY <3>1 DEF EventStep
  <2>4. CASE CallListen(t) \/ EventSleepYield(t)
    <3>1. Quiet(t, "out", "listen_test") \/ Quiet(t, "sleep_yield", "out")
      BY <1>1, <2>1, <2>4, CallListenIsQuiet, SleepYieldIsQuiet
    <3> QED BY <3>1 DEF EventStep
  <2>5. CASE ListenSuspend(t) \/ ListenResume(t) \/ ListenYield(t) \/ ListenEnd(t)
    <3>1. \/ Quiet(t, "listen_suspend", "listen_block") \/ Quiet(t, "listen_resume", "listen_yield")
          \/ Quiet(t, "listen_yield", "listen_retest") \/ Quiet(t, "listen_end", "out")
      BY <1>1, <2>1, <2>5, ListenSuspendIsQuiet, ListenResumeIsQuiet, ListenYieldIsQuiet,
         ListenEndIsQuiet
    <3> QED BY <3>1 DEF EventStep
  <2>6. CASE TrigSuspend(t) \/ TrigClear(t) \/ TrigResume(t)
    <3>1. \/ Quiet(t, "trig_suspend", "trig_clear") \/ Quiet(t, "trig_clear", "trig_wake")
          \/ Quiet(t, "trig_resume", "out")
      BY <1>1, <2>1, <2>6, TrigSuspendIsQuiet, TrigClearIsQuiet, TrigResumeIsQuiet
    <3> QED BY <3>1 DEF EventStep
  <2> QED BY <1>3, <2>2, <2>3, <2>4, <2>5, <2>6 DEF Listening, Trigger
<1>4. User \subseteq Task
  BY DEF User
<1> QED BY <1>1, <1>2, <1>3, <1>4 DEF EventGroupNext

LEMMA EventNext ==
  ASSUME EventInd, [EventGroupNext]_<<eventVars, use>>
  PROVE  EventInd'
<1>1. CASE UNCHANGED <<eventVars, use>>
  <2>1. UNCHANGED <<kernelVars, pc, events, waiting, arg, use>>
    BY <1>1 DEF eventVars
  <2>2. UNCHANGED <<kernel_ticks, kernel_current_task, attr, ready, blocked_curr, blocked_next,
                    ready_switch_next, task_suspended_count, pendsv>>
    BY <2>1 DEF kernelVars
  <2>3. EventTypes' /\ Callers' /\ WokenSees'
    <3>1. /\ kernel_ticks \in Tick /\ kernel_current_task \in Task
          /\ ready_switch_next \in BOOLEAN /\ pendsv \in BOOLEAN
      BY DEF EventInd, EventTypes
    <3> QED BY <2>1, <2>2, <3>1, KernelStep
  <2>4. Lists(ready, blocked_curr, blocked_next, attr, waiting)'
    <3>1. Lists(ready', blocked_curr', blocked_next', attr', waiting')
      BY <2>1, <2>2 DEF EventInd
    <3> QED BY <3>1
  <2>5. FrontRuns' /\ Windows'
    BY <2>1, <2>2 DEF EventInd, FrontRuns, Windows
  <2> QED BY <2>3, <2>4, <2>5 DEF EventInd
<1>2. CASE EventGroupNext
  BY <1>2, EventSteps, TickMoves, SwitchMoves, SleepKeeps, ListenBlockKeeps, TrigWakeKeeps,
     QuietKeeps
<1> QED BY <1>1, <1>2

-----------------------------------------------------------------------------
(* Nobody waits for what has happened *)

\* A task about to wait is not one that a running trigger of this use can be above.
LEMMA TriggerBelow ==
  ASSUME EventInd, BlockSafe, TriggersBelow(use), NEW t \in User, t = kernel_current_task,
         Triggers[t] # {}, NEW u \in Task, u # t
  PROVE  pc[u] \notin Blocking
<1>1. SUFFICES ASSUME pc[u] \in Blocking PROVE FALSE
  OBVIOUS
<1>2. attr[t].priority >= attr[u].priority
  BY <1>1 DEF BlockSafe
<1>3. u \in Listener
  BY <1>1 DEF EventInd, Callers, Caller, ListenStep, Blocking
<1>4. u \in use.listeners \ {t} /\ use.triggers[t] # {} /\ attr = use.attr
  BY <1>3 DEF Listener, Triggers, EventInd, EventTypes, AttrOf
<1>5. attr[t].priority < attr[u].priority
  BY <1>4 DEF TriggersBelow
<1>6. attr[t].priority \in Int /\ attr[u].priority \in Int
  <2>1. t \in Task /\ attr \in [Task -> Attribute]
    BY DEF User, EventInd, Lists
  <2>2. attr[t].priority \in Priority /\ attr[u].priority \in Priority
    BY <2>1, HasPriority
  <2> QED BY <2>2 DEF Priority
<1>7. PICK a \in Int, b \in Int : a = attr[t].priority /\ b = attr[u].priority
  BY <1>6
<1> QED BY <1>2, <1>5, <1>7

LEMMA LostQuiet ==
  ASSUME EventInd, NoneLost, TriggersBelow(use), NEW t \in Task, NEW from, NEW to,
         Quiet(t, from, to)
  PROVE  NoneLost'
<1>1. /\ t = kernel_current_task /\ pc[t] = from /\ kernel_current_task' = kernel_current_task
      /\ pc'[t] = to /\ \A u \in Task : u # t => pc'[u] = pc[u]
  BY QuietHere
<1>2. /\ ready' = ready /\ attr' = attr /\ waiting' = waiting /\ from # "trig_wake"
  BY DEF Quiet
<1>3. InitEvents # {} /\ kernel_current_task \in Task
  BY UseFacts DEF EventInd, EventTypes
<1>4. from # "trig_clear" /\ events # {} => events' # {}
  BY <1>3 DEF Quiet, EventsMove, reset
<1>5. ASSUME NEW u \in Task, pc'[u] \in Blocking
      PROVE  /\ events' # {} /\ u \in Range(ready.list[attr[u].priority])
             /\ attr[kernel_current_task].priority >= attr[u].priority
  <2>1. CASE u = t
    <3>1. CASE to = "listen_block"
      <4>1. from = "listen_suspend"
        BY <3>1 DEF Quiet, ListenMoves
      <4>2. pc[u] \in Blocking
        BY <1>1, <2>1, <4>1 DEF Blocking
      <4> QED BY <1>4, <4>1, <4>2 DEF NoneLost, BlockSafe
    <3>2. CASE to = "listen_suspend"
      <4>1. from \in {"listen_test", "listen_retest"} /\ events # {}
        BY <3>2 DEF Quiet, ListenMoves
      <4>2. AtStep(t, from) /\ from \notin Away
        BY <4>1 DEF Quiet, Away
      <4>3. u \in Range(ready.list[attr[u].priority])
        BY <2>1, <4>2, RunsAtFront
      <4>4. attr[kernel_current_task].priority >= attr[u].priority
        <5>1. attr[u].priority \in Priority
          BY HasPriority DEF EventInd, Lists
        <5>2. PICK p \in Int : p = attr[u].priority
          BY <5>1 DEF Priority
        <5> QED BY <1>1, <2>1, <5>2
      <4> QED BY <1>4, <4>1, <4>3, <4>4
    <3> QED BY <1>1, <1>5, <2>1, <3>1, <3>2 DEF Blocking
  <2>2. CASE u # t
    <3>1. pc[u] \in Blocking
      BY <1>1, <1>5, <2>2
    <3>2. from # "trig_clear"
      <4>1. SUFFICES ASSUME from = "trig_clear" PROVE FALSE
        OBVIOUS
      <4>2. t \in User /\ Triggers[t] # {}
        BY <1>1, <4>1 DEF EventInd, Callers, Caller, TrigStep
      <4> QED BY <1>1, <2>2, <3>1, <4>2, TriggerBelow DEF NoneLost
    <3> QED BY <1>4, <3>1, <3>2 DEF NoneLost, BlockSafe
  <2> QED BY <2>1, <2>2
<1>6. BlockSafe'
  BY <1>1, <1>2, <1>5 DEF BlockSafe
<1>7. NoneForgotten'
  <2>1. SUFFICES ASSUME to # "trig_wake", waiting # <<>> PROVE events' # {}
    BY <1>1, <1>2 DEF NoneForgotten
  <2>2. from # "trig_clear"
    BY <2>1 DEF Quiet, EventsMove
  <2>3. events # {}
    BY <1>1, <1>2, <2>1 DEF NoneLost, NoneForgotten
  <2> QED BY <1>4, <2>2, <2>3
<1> QED BY <1>6, <1>7 DEF NoneLost

\* A step that leaves the events and the ready tasks, or that of a task that triggers.
LEMMA BlockStays ==
  ASSUME EventInd, BlockSafe, NEW gone, StayReady(ready, ready', gone), attr' = attr,
         kernel_current_task' = kernel_current_task,
         \A u \in Task : pc'[u] \in Blocking =>
           /\ pc[u] \in Blocking /\ u \notin gone /\ (events # {} => events' # {})
  PROVE  BlockSafe'
<1>1. SUFFICES ASSUME NEW u \in Task, pc'[u] \in Blocking
               PROVE  /\ events' # {} /\ u \in Range(ready'.list[attr[u].priority])
                      /\ attr[kernel_current_task].priority >= attr[u].priority
  BY DEF BlockSafe
<1>2. /\ events # {} /\ u \in Range(ready.list[attr[u].priority]) /\ u \notin gone
      /\ attr[kernel_current_task].priority >= attr[u].priority /\ events' # {}
  BY <1>1 DEF BlockSafe
<1>3. PICK p \in Priority : p = attr[u].priority
  BY HasPriority DEF EventInd, Lists
<1>4. u \in Range(ready'.list[p])
  BY <1>2, <1>3, ReadyStill
<1> QED BY <1>2, <1>3, <1>4

LEMMA LostListenBlock ==
  ASSUME EventInd, NoneLost, NEW t \in Task, use' = use, ListenBlock(t)
  PROVE  NoneLost'
<1>1. StayReady(ready, ready', {t}) /\ t = kernel_current_task /\ pc[t] = "listen_block"
  BY ListenBlockMoves
<1>2. /\ Goto(t, "listen_resume") /\ UNCHANGED <<kernel_current_task, attr, events>>
  BY DEF ListenBlock, wait_front, UnchangedScheduler
<1>3. pc'[t] = "listen_resume" /\ \A u \in Task : u # t => pc'[u] = pc[u]
  BY <1>2, Goes DEF EventInd, EventTypes, EventStep
<1>4. BlockSafe'
  <2>1. \A u \in Task : pc'[u] \in Blocking => pc[u] \in Blocking /\ u \notin {t}
    BY <1>3 DEF Blocking
  <2> QED BY <1>1, <1>2, <2>1, BlockStays DEF NoneLost
<1>5. NoneForgotten'
  <2>1. events # {}
    BY <1>1 DEF NoneLost, BlockSafe, Blocking
  <2> QED BY <1>2, <2>1 DEF NoneForgotten
<1> QED BY <1>4, <1>5 DEF NoneLost

LEMMA LostSleep ==
  ASSUME EventInd, NoneLost, NEW t \in Task, use' = use, EventSleep(t)
  PROVE  NoneLost'
<1>1. StayReady(ready, ready', {t}) /\ t = kernel_current_task /\ pc[t] = "out"
  BY SleepMoves
<1>2. Goto(t, "sleep_yield") /\ UNCHANGED <<kernel_current_task, attr, events, waiting>>
  BY DEF groupVars, EventSleep, sleep_one_tick
<1>3. pc'[t] = "sleep_yield" /\ \A u \in Task : u # t => pc'[u] = pc[u]
  BY <1>2, Goes DEF EventInd, EventTypes, EventStep
<1>4. BlockSafe'
  <2>1. \A u \in Task : pc'[u] \in Blocking => pc[u] \in Blocking /\ u \notin {t}
    BY <1>3 DEF Blocking
  <2> QED BY <1>1, <1>2, <2>1, BlockStays DEF NoneLost
<1>5. NoneForgotten'
  BY <1>1, <1>2 DEF NoneLost, NoneForgotten
<1> QED BY <1>4, <1>5 DEF NoneLost

\* The task that triggers the last event finds all those that wait in the list.
LEMMA LostTrigWake ==
  ASSUME EventInd, NoneLost, TriggersBelow(use), NEW t \in Task, use' = use, TrigWake(t)
  PROVE  NoneLost'
<1>1. /\ StayReady(ready, ready', {})
      /\ \/ waiting' = <<>> /\ events' = {}
         \/ ~fires /\ waiting' = waiting /\ events' = events
  BY TrigWakeMoves
<1>2. /\ AtStep(t, "trig_wake") /\ Goto(t, "trig_resume")
      /\ UNCHANGED <<kernel_current_task, attr>>
  BY DEF TrigWake, UnchangedScheduler
<1>3. pc'[t] = "trig_resume" /\ \A u \in Task : u # t => pc'[u] = pc[u]
  BY <1>2, Goes DEF EventInd, EventTypes, EventStep
<1>4. t = kernel_current_task /\ t \in User /\ Triggers[t] # {}
  <2>1. t = kernel_current_task /\ Caller(t, "trig_wake")
    BY <1>2, Here
  <2> QED BY <2>1 DEF Caller, TrigStep
<1>5. BlockSafe'
  <2>1. ASSUME NEW u \in Task PROVE pc'[u] \notin Blocking
    <3>1. CASE u = t
      BY <1>3, <3>1 DEF Blocking
    <3>2. CASE u # t
      <4>1. pc[u] \notin Blocking
        BY <1>4, <3>2, TriggerBelow DEF NoneLost
      <4> QED BY <1>3, <3>2, <4>1
    <3> QED BY <3>1, <3>2
  <2> QED BY <2>1 DEF BlockSafe
<1>6. NoneForgotten'
  BY <1>1 DEF NoneForgotten, fires
<1> QED BY <1>5, <1>6 DEF NoneLost

LEMMA LostNext ==
  ASSUME EventInd, NoneLost, TriggersBelow(use), [EventGroupNext]_<<eventVars, use>>
  PROVE  NoneLost'
<1>1. CASE UNCHANGED <<eventVars, use>>
  <2>1. UNCHANGED <<kernel_current_task, attr, ready, pc, events, waiting>>
    BY <1>1 DEF eventVars, kernelVars
  <2> QED BY <2>1 DEF NoneLost, BlockSafe, NoneForgotten
<1>2. CASE EventTick /\ use' = use
  <2>1. /\ StayReady(ready, ready', {})
        /\ UNCHANGED <<kernel_current_task, pc, events, waiting, arg, attr>>
    BY <1>2, TickMoves
  <2>2. BlockSafe'
    BY <2>1, BlockStays DEF NoneLost
  <2> QED BY <2>1, <2>2 DEF NoneLost, NoneForgotten
<1>3. CASE EventSwitch /\ use' = use
  <2>1. /\ EventInd' /\ StayReady(ready, ready', {})
        /\ \A p \in Priority : ready'.list[p] # <<>> => p <= attr'[kernel_current_task'].priority
        /\ \A t \in Task : pc[t] \notin Window
        /\ UNCHANGED <<pc, events, waiting, arg, attr>>
    BY <1>3, SwitchMoves
  <2>2. BlockSafe'
    <3>1. SUFFICES ASSUME NEW u \in Task, pc[u] \in Blocking
                   PROVE  /\ events # {} /\ u \in Range(ready'.list[attr[u].priority])
                          /\ attr[kernel_current_task'].priority >= attr[u].priority
      BY <2>1 DEF BlockSafe
    <3>2. events # {} /\ u \in Range(ready.list[attr[u].priority])
      BY <3>1 DEF NoneLost, BlockSafe
    <3>3. PICK p \in Priority : p = attr[u].priority
      BY HasPriority DEF EventInd, Lists
    <3>4. u \in Range(ready.list[p]) /\ u \notin {}
      BY <3>2, <3>3
    <3>5. u \in Range(ready'.list[p])
      BY <2>1, <3>4, ReadyStill
    <3>6. ready'.list[p] # <<>>
      BY <3>5 DEF Range
    <3>7. p <= attr[kernel_current_task'].priority
      BY <2>1, <3>6
    <3>8. PICK c \in Task : c = kernel_current_task'
      BY <2>1 DEF EventInd, EventTypes
    <3>9. attr[c].priority \in Priority
      BY HasPriority DEF EventInd, Lists
    <3>10. PICK q \in Int : q = attr[kernel_current_task'].priority
      BY <3>8, <3>9 DEF Priority
    <3>11. p \in Int
      BY DEF Priority
    <3>12. q >= p
      BY <3>7, <3>10, <3>11
    <3> QED BY <3>2, <3>3, <3>5, <3>10, <3>12
  <2>3. NoneForgotten'
    <3>1. pc[kernel_current_task] # "trig_wake"
      BY <2>1 DEF EventInd, EventTypes, Window
    <3> QED BY <2>1, <3>1 DEF NoneLost, NoneForgotten
  <2> QED BY <2>2, <2>3 DEF NoneLost
<1>4. CASE EventGroupNext
  BY <1>2, <1>3, <1>4, EventSteps, LostSleep, LostListenBlock, LostTrigWake, LostQuiet
<1> QED BY <1>1, <1>4

-----------------------------------------------------------------------------
(* The theorems *)

LEMMA EventInit ==
  ASSUME EventGroupInit
  PROVE  EventInd /\ NoneLost
<1>1. /\ use \in EventUses /\ KernelStarted(Created, AttrOf) /\ events = InitEvents /\ waiting = <<>>
      /\ pc = [t \in Task |-> "out"] /\ arg = [t \in Task |-> {}]
  BY DEF EventGroupInit
<1>2. PICK a \in [Task -> Attribute] : a = AttrOf
  BY <1>1, UseFacts
<1>3. /\ Lists(ready, blocked_curr, blocked_next, attr, <<>>)
      /\ kernel_current_task \in Task /\ AtFront(ready, attr, kernel_current_task)
  BY <1>1, <1>2, StartedLists
<1>4. /\ kernel_ticks = 0 /\ attr = AttrOf /\ ready_switch_next = FALSE
      /\ task_suspended_count = 0 /\ pendsv = FALSE
  BY <1>1 DEF KernelStarted
<1>5. 0 \in Tick
  BY TickModAssumption DEF Tick
<1>6. EventTypes
  BY <1>1, <1>3, <1>4, <1>5 DEF EventTypes, EventStep
<1>7. FrontRuns
  BY <1>3 DEF FrontRuns
<1>8. Windows
  BY <1>1, <1>3, <1>4 DEF Windows, Window
<1>9. Callers
  BY <1>1 DEF Callers, Caller, ListenStep, TrigStep, Range
<1>10. WokenSees
  BY <1>1 DEF WokenSees, Queued
<1>11. NoneLost
  BY <1>1 DEF NoneLost, BlockSafe, NoneForgotten, Blocking
<1> QED BY <1>1, <1>3, <1>6, <1>7, <1>8, <1>9, <1>10, <1>11 DEF EventInd

LEMMA EventInvariance == EventFairSpec => []EventInd
<1>1. EventGroupInit => EventInd
  BY EventInit
<1>2. EventInd /\ [EventGroupNext]_<<eventVars, use>> => EventInd'
  BY EventNext
<1> QED BY <1>1, <1>2, PTL DEF EventFairSpec

LEMMA EventTypeOK ==
  ASSUME EventInd
  PROVE  EventGroupTypeOK
<1>1. /\ kernel_ticks \in Tick /\ kernel_current_task \in Task
      /\ ready_switch_next \in BOOLEAN /\ pendsv \in BOOLEAN
      /\ attr \in [Task -> Attribute] /\ ready \in ReadyType
      /\ blocked_curr \in Seq(Sleeper) /\ blocked_next \in Seq(Sleeper) /\ waiting \in Seq(Task)
  BY DEF EventInd, EventTypes, Lists
<1>2. task_suspended_count \in Nat
  BY DEF EventInd, Windows
<1>3. KernelTypeOK
  BY <1>1, <1>2 DEF KernelTypeOK, ReadyType
<1>4. events \in SUBSET Event
  BY UseFacts DEF EventInd, EventTypes
<1> QED BY <1>1, <1>3, <1>4 DEF EventGroupTypeOK, EventInd, EventTypes

\* Outside of the windows no task waits for an event group whose events have all been
\* triggered, if the tasks that trigger cannot preempt those that listen.
THEOREM NobodyWaitsForThePast ==
  ASSUME \A u \in EventUses : TriggersBelow(u)
  PROVE  EventFairSpec => []EventGroupInv
<1>1. EventGroupInit => EventInd /\ NoneLost
  BY EventInit
<1>2. (EventInd /\ NoneLost) /\ [EventGroupNext]_<<eventVars, use>> => (EventInd /\ NoneLost)'
  <2>1. EventInd => TriggersBelow(use)
    BY DEF EventInd, EventTypes
  <2> QED BY <2>1, EventNext, LostNext
<1>3. EventInd /\ NoneLost => EventGroupInv
  <2>1. SUFFICES ASSUME EventInd, NoneLost PROVE EventGroupInv
    OBVIOUS
  <2>2. NoneLeftBehind
    <3>1. SUFFICES ASSUME task_suspended_count = 0, waiting # <<>> PROVE events # {}
      BY DEF NoneLeftBehind
    <3>2. pc[kernel_current_task] # "trig_wake"
      BY <2>1, <3>1 DEF EventInd, Windows, Window
    <3> QED BY <2>1, <3>1, <3>2 DEF NoneLost, NoneForgotten
  <2> QED BY <2>1, <2>2, EventTypeOK DEF EventGroupInv
<1> QED BY <1>1, <1>2, <1>3, PTL DEF EventFairSpec

\* With the logic "all" a registered event stays until a call that names it clears it.
THEOREM EventsStay == EventFairSpec => EventsKept
<1>1. EventInd /\ [EventGroupNext]_<<eventVars, use>> =>
        [\A e \in events : e \notin events' =>
           TrigLogic = "any" \/ \E t \in User : pc[t] = "trig_clear" /\ e \in arg[t]]_eventVars
  <2>1. SUFFICES ASSUME EventInd, [EventGroupNext]_<<eventVars, use>>, NEW e \in events,
                        e \notin events'
                 PROVE  TrigLogic = "any" \/ \E t \in User : pc[t] = "trig_clear" /\ e \in arg[t]
    OBVIOUS
  <2>2. events' # events /\ use' = use /\ EventGroupNext
    BY <2>1, EventSteps DEF eventVars
  <2>3. CASE \E t \in Task, from, to \in EventStep : Quiet(t, from, to)
    <3>1. PICK t \in Task, from \in EventStep, to \in EventStep : Quiet(t, from, to)
      BY <2>3
    <3>2. pc[t] = from /\ t \in Task
      BY <2>1, <3>1, QuietHere
    <3>3. events \subseteq InitEvents
      BY <2>1 DEF EventInd, EventTypes
    <3>4. from = "trig_clear" /\ events' = events \ arg[t]
      BY <2>1, <2>2, <3>1, <3>3 DEF Quiet, EventsMove, reset
    <3>5. t \in User
      BY <2>1, <3>2, <3>4 DEF EventInd, Callers, Caller
    <3> QED BY <2>1, <3>2, <3>4, <3>5
  <2>4. ASSUME NEW t \in Task, TrigWake(t) PROVE TrigLogic = "any"
    <3>1. fires \/ events' = events
      BY <2>1, <2>2, <2>4, TrigWakeMoves
    <3> QED BY <2>1, <2>2, <3>1 DEF fires
  <2>5. ~(EventTick \/ EventSwitch)
    BY <2>2 DEF EventTick, EventSwitch, groupVars
  <2>6. \A t \in Task : ~EventSleep(t) /\ ~ListenBlock(t)
    BY <2>2 DEF groupVars, EventSleep, ListenBlock
  <2> QED BY <2>1, <2>2, <2>3, <2>4, <2>5, <2>6, EventSteps
<1> QED BY <1>1, EventInvariance, PTL DEF EventFairSpec, EventsKept

\* The only listener returns when it has been woken: the events are still cleared.
THEOREM TheWokenReturns == EventFairSpec => WokenReturns
<1>1. EventInd /\ [EventGroupNext]_<<eventVars, use>> =>
        [\A t \in User : pc[t] = "listen_retest" /\ Listener = {t}
           => pc'[t] # "listen_suspend"]_eventVars
  <2>1. SUFFICES ASSUME EventInd, [EventGroupNext]_<<eventVars, use>>, NEW t \in User,
                        pc[t] = "listen_retest", Listener = {t}, pc'[t] = "listen_suspend"
                 PROVE  FALSE
    OBVIOUS
  <2>2. pc'[t] # pc[t] /\ t \in Task /\ pc \in [Task -> EventStep]
    BY <2>1 DEF User, EventInd, EventTypes
  <2>3. use' = use /\ EventGroupNext
    BY <2>1, <2>2, EventSteps DEF eventVars
  <2>4. CASE \E u \in Task, from, to \in EventStep : Quiet(u, from, to)
    <3>1. PICK u \in Task, from \in EventStep, to \in EventStep : Quiet(u, from, to)
      BY <2>4
    <3>2. pc[u] = from /\ pc'[u] = to /\ u = t
      BY <2>1, <2>2, <3>1, QuietHere
    <3>3. events # {} /\ AtStep(t, "listen_retest")
      BY <2>1, <3>1, <3>2 DEF Quiet, ListenMoves
    <3>4. t \notin Range(waiting)
      BY <2>1, <2>2, <3>3, NotWaiting
    <3> QED BY <2>1, <2>2, <3>3, <3>4 DEF EventInd, WokenSees, Queued
  <2>5. ASSUME NEW u \in Task, EventSleep(u) \/ ListenBlock(u) \/ TrigWake(u) PROVE FALSE
    <3>1. PICK to \in EventStep : Goto(u, to) /\ to # "listen_suspend"
      BY <2>5 DEF groupVars, EventSleep, sleep_one_tick, ListenBlock, TrigWake, EventStep
    <3> QED BY <2>1, <2>2, <3>1, Goes
  <2>6. ~(EventTick \/ EventSwitch)
    BY <2>2 DEF EventTick, EventSwitch, tick_interrupt, context_switch
  <2> QED BY <2>1, <2>3, <2>4, <2>5, <2>6, EventSteps
<1> QED BY <1>1, EventInvariance, PTL DEF EventFairSpec, WokenReturns
=============================================================================
