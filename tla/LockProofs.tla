----------------------------- MODULE LockProofs -----------------------------
(***************************************************************************)
(* Proofs about Semaphore, for all tasks, uses, counts and tick widths:    *)
(* that it counts the tasks that wait, and that no more tasks hold it than *)
(* its maximum allows; and about Mutex in ReentrantLock: that the owner is *)
(* the one task with the lock, that priorities are exchanged and exchanged *)
(* back without a task being lost, and that there is no inversion; and     *)
(* about ReentrantLock itself: that its count is that of the owner, and    *)
(* that what is printed under it is not mixed.                             *)
(*                                                                         *)
(* The count needs the tasks to be where the code takes them to be: the    *)
(* front task, which wait_front removes, is the one that called.  The      *)
(* bound sums the units of the semaphore: those it has, those of the       *)
(* tasks that have got one, and those promised to the tasks that wait.     *)
(*                                                                         *)
(* Both need semaphore_try_acquire, which tests the state and decrements   *)
(* it in two steps, to be used so that nobody comes in between: Sound says *)
(* how.  Without it they are false: the run SemTryTwo has two tasks of one *)
(* priority that both get the last unit.  What is proved of the mutex is   *)
(* proved as long as its owner has been alone in the lists it went to, and *)
(* CeilingSound says where it always is: the run DocumentedCeiling has the *)
(* ceiling that mutex.h asks for, two holders, and an owner that was not.  *)
(* The count needs programs that unlock what they have locked: Balanced.   *)
(***************************************************************************)
EXTENDS ReentrantLock, SyncProofs, FiniteSetTheorems

-----------------------------------------------------------------------------
(* The inductive invariant *)

AcquireStep == {"acq_dec", "acq_test", "acq_resume", "acq_resume_yield", "acq_yield"}
TryStep == {"try_test", "try_take", "try_time", "try_yield"}

\* Inside a window of task_suspend_all.
Window == {"acq_dec", "acq_test", "acq_resume", "acq_resume_yield",
           "rel_inc", "rel_wake", "rel_resume"}

\* Out of the ready lists, or on the way back: the task goes on when it runs again.
Away == {"acq_resume_yield", "acq_yield", "sleep_yield", "held_sleep_yield"}

\* The task has put itself into the list of those that wait.
Queued == {"acq_resume_yield", "acq_yield"}

\* The task has got a unit of the semaphore, or waits for it.
GrantedStep == {"acq_test", "acq_resume", "acq_resume_yield", "acq_yield",
                "held", "held_sleep_yield", "rel_inc"}

\* A task at this step of its code may be this one, in this use of the semaphore.
Caller(t, step) ==
  /\ step # "out" => t \in User
  /\ step \in AcquireStep => "acquire" \in Calls /\ t \in use.acquirers
  /\ step \in TryStep => Timeouts[t] # {}
  /\ step \in GrantedStep => Takes(use, t)

SemTypes ==
  /\ use \in Uses /\ kernel_ticks \in Tick /\ kernel_current_task \in Task
  /\ ready_switch_next \in BOOLEAN /\ pendsv \in BOOLEAN
  /\ state \in Int /\ state <= MaxValue
  /\ pc \in [Task -> Step]
  /\ timeout \in [Task -> Tick] /\ current_tick \in [Task -> Tick]

\* The task that runs is at the front of its list, unless it is on its way out.
FrontRuns ==
  pendsv \/ pc[kernel_current_task] \in Away \/ AtFront(ready, attr, kernel_current_task)

\* Only the task that runs is inside a window, and no other one can run then.
Windows ==
  /\ task_suspended_count = IF pc[kernel_current_task] \in Window THEN 1 ELSE 0
  /\ pc[kernel_current_task] \in Window => ~pendsv
  /\ \A t \in Task : t # kernel_current_task => pc[t] \notin Window

\* The tasks are where the calls of this use can bring them.
Callers ==
  /\ \A t \in Task : Caller(t, pc[t])
  /\ \A t \in Range(waiting) : pc[t] \in Queued \union {"held"}
  /\ waiting # <<>> => "acquire" \in Calls

\* n tasks wait when the state is s and the task that runs is at this step: one is
\* between the count and the list in the middle of each call.
CountOf(step, s, n) ==
  /\ step = "acq_test" /\ s < 0 => n = -s - 1
  /\ step = "rel_wake" /\ s < 0 => n = 1 - s
  /\ step = "rel_wake" /\ s = 0 => n \in {0, 1}
  /\ step \notin {"acq_test", "rel_wake"} /\ s < 0 => n = -s
  /\ step # "rel_wake" /\ s = 0 => n = 0
  /\ s > 0 => n = 0

Counted == CountOf(pc[kernel_current_task], state, Len(waiting))

GrantedOf(p, w) == {t \in Task : p[t] \in GrantedStep} \ Range(w)

\* The units are those free, those granted and those owed to the tasks that wait.
Summed ==
  "isr_release" \notin Calls
    => state + Len(waiting) + Cardinality(GrantedOf(pc, waiting)) <= MaxValue

\* The unit that semaphore_try_acquire has seen is still there.
TrySafe ==
  \A t \in Task : pc[t] = "try_take" =>
    /\ state >= 1 /\ t \in Range(ready.list[attr[t].priority])
    /\ attr[kernel_current_task].priority >= attr[t].priority

SemInd ==
  /\ SemTypes /\ Lists(ready, blocked_curr, blocked_next, attr, waiting)
  /\ FrontRuns /\ Windows /\ Callers /\ Counted /\ Summed /\ TrySafe

\* The same without the windows, which are not those of the mutex.
SemCore ==
  /\ SemTypes /\ Lists(ready, blocked_curr, blocked_next, attr, waiting)
  /\ FrontRuns /\ Callers /\ Counted /\ Summed /\ TrySafe

\* What the steps need besides: while a task is about to take a unit all tasks have
\* their own priorities, which the mutex changes.
UsedSoundly ==
  Sound(use) /\ \A t \in Task : pc[t] = "try_take" => attr = AttrOf

-----------------------------------------------------------------------------
(* Facts about one state *)

\* What the use of the semaphore is.
LEMMA UseFacts ==
  ASSUME use \in Uses
  PROVE  /\ MaxValue \in Nat \ {0}
         /\ AttrOf \in [Task -> Attribute]
         /\ Timeouts \in [User -> SUBSET Tick]
         /\ use.sleepers \subseteq User
         /\ use.init \in 0 .. MaxValue
BY SyncAssumption, SemaphoreAssumption DEF MaxValue, AttrOf, Timeouts, User, IdleTask

\* The task that runs, when it is not on its way out, is at the front and does not
\* wait.
LEMMA RunsAtFront ==
  ASSUME SemInd, NEW t \in Task, NEW from, AtStep(t, from), from \notin Away
  PROVE  /\ t = kernel_current_task /\ AtFront(ready, attr, t) /\ t \notin Range(waiting)
         /\ t \in Range(ready.list[attr[t].priority])
<1>1. t = kernel_current_task /\ pc[t] = from /\ ~pendsv
  BY DEF AtStep
<1>2. AtFront(ready, attr, t) /\ Lists(ready, blocked_curr, blocked_next, attr, waiting)
  BY <1>1 DEF SemInd, FrontRuns
<1> QED BY <1>1, <1>2, FrontIsReady

\* A task that waits is on its way out of semaphore_acquire.
LEMMA NotWaiting ==
  ASSUME SemInd, NEW t \in Task, NEW from, AtStep(t, from), from \notin Queued
  PROVE  t \notin Range(waiting)
<1>1. t = kernel_current_task /\ pc[t] = from
  BY DEF AtStep
<1>2. CASE from \in Away
  <2>1. from \notin Queued \union {"held"}
    BY <1>2 DEF Away, Queued
  <2> QED BY <1>1, <2>1 DEF SemInd, Callers
<1>3. CASE from \notin Away
  BY <1>3, RunsAtFront
<1> QED BY <1>2, <1>3

\* The tasks are finitely many, and so are those with a unit.
LEMMA TasksFinite == IsFiniteSet(Task) /\ Cardinality(Task) <= Len(Created)
<1>1. /\ Created \in [1 .. Len(Created) -> Task] /\ Len(Created) \in Nat
      /\ \A t \in Task : \E i \in 1 .. Len(Created) : Created[i] = t
  BY SyncAssumption DEF Range
<1>2. PICK n \in Nat : n = Len(Created)
  BY <1>1
<1>3. IsFiniteSet(1 .. n) /\ Cardinality(1 .. n) = n
  BY FS_Interval
<1>4. Created \in Surjection(1 .. n, Task)
  BY <1>1, <1>2 DEF Surjection
<1> QED BY <1>2, <1>3, <1>4, FS_Surjection

LEMMA GrantedFinite ==
  ASSUME NEW p, NEW w
  PROVE  /\ IsFiniteSet(GrantedOf(p, w)) /\ Cardinality(GrantedOf(p, w)) \in Nat
<1>1. GrantedOf(p, w) \in SUBSET Task
  BY DEF GrantedOf
<1> QED BY <1>1, TasksFinite, FS_Subset, FS_CardinalityType

\* The state is never below minus the number of the waiting tasks and one more, and
\* those are fewer than the tasks: the idle task does not wait.
LEMMA FewWait ==
  ASSUME NEW r, NEW curr, NEW next, NEW a, NEW w, Lists(r, curr, next, a, w)
  PROVE  Len(w) \in Nat /\ Len(w) <= Len(Created) - 1
<1>1. w \in Seq(Task) /\ Len(w) \in Nat /\ DOMAIN w = 1 .. Len(w)
  BY DEF Lists
<1>2. PICK n \in Nat : n = Len(w)
  BY <1>1
<1>3. \A i, j \in 1 .. n : w[i] = w[j] => i = j
  <2>1. PICK F : F = PlacesOf(r, curr, next, w)
    OBVIOUS
  <2>2. IsPlaces(F, r, curr, next, w) /\ Injective(F)
    BY <2>1, PlaceFacts
  <2>3. EXTRA \in PlaceName /\ F[EXTRA] = w
    BY <2>2, PlaceNames DEF IsPlaces
  <2> QED BY <1>1, <1>2, <2>2, <2>3 DEF Injective
<1>4. IdleTask \notin Range(w)
  <2>1. IdleTask \in Range(r.list[a[IdleTask].priority]) /\ a[IdleTask].priority \in Priority
    BY IdleIsTask, HasPriority DEF Lists
  <2> QED BY <2>1, WaiterNotReady
<1>5. w \in [1 .. n -> Task \ {IdleTask}]
  <2>1. \A i \in 1 .. n : w[i] \in Task /\ w[i] \in Range(w)
    BY <1>1, <1>2 DEF Range
  <2>2. \A i \in 1 .. n : w[i] \in Task \ {IdleTask}
    BY <1>4, <2>1
  <2>3. w \in [1 .. n -> Task]
    BY <1>1, <1>2
  <2> QED BY <2>2, <2>3
<1>6. w \in Injection(1 .. n, Task \ {IdleTask})
  BY <1>3, <1>5 DEF Injection, IsInjective
<1>7. IsFiniteSet(Task \ {IdleTask}) /\ Cardinality(Task \ {IdleTask}) = Cardinality(Task) - 1
  BY TasksFinite, IdleIsTask, FS_RemoveElement
<1>8. IsFiniteSet(1 .. n) /\ Cardinality(1 .. n) = n
  BY FS_Interval
<1>9. n <= Cardinality(Task \ {IdleTask})
  BY <1>6, <1>7, <1>8, FS_Injection
<1>10. Cardinality(Task) \in Nat
  BY TasksFinite, FS_CardinalityType
<1> QED BY <1>2, <1>7, <1>9, <1>10, TasksFinite, IdleIsTask

-----------------------------------------------------------------------------
(* Steps that change no list *)

\* A task goes from one step of its code to another, and the lists stay as they
\* are; inside a window the count of the suspensions is 1.
Quiet(t, from, to) ==
  /\ AtStep(t, from) /\ Goto(t, to) /\ to \in Step
  /\ UNCHANGED <<kernel_ticks, kernel_current_task, attr, ready, blocked_curr,
                 blocked_next, ready_switch_next, waiting, use>>
  /\ task_suspended_count' = IF to \in Window THEN 1 ELSE 0
  /\ pendsv' \in BOOLEAN
  /\ to \in Window => ~pendsv'
  /\ from \in Away => to \in Away \/ pendsv'
  /\ from \in Queued => to \in Queued \union {"held"}

\* The types of what such a step changes.
LocalTypes ==
  /\ state \in Int /\ state <= MaxValue
  /\ timeout \in [Task -> Tick] /\ current_tick \in [Task -> Tick]

\* The steps of the tasks after a step of t.
LEMMA Goes ==
  ASSUME NEW t \in Task, NEW to, pc \in [Task -> Step], Goto(t, to), to \in Step
  PROVE  /\ pc' \in [Task -> Step] /\ pc'[t] = to
         /\ \A u \in Task : u # t => pc'[u] = pc[u]
BY DEF Goto

LEMMA QuietTypes ==
  ASSUME SemInd, NEW t \in Task, NEW from, NEW to, Quiet(t, from, to), LocalTypes'
  PROVE  SemTypes'
<1>1. pc' \in [Task -> Step]
  BY Goes DEF SemInd, SemTypes, Quiet
<1>2. /\ use' \in Uses /\ kernel_ticks' \in Tick /\ kernel_current_task' \in Task
      /\ ready_switch_next' \in BOOLEAN /\ pendsv' \in BOOLEAN
  BY DEF SemInd, SemTypes, Quiet
<1> QED BY <1>1, <1>2 DEF SemTypes, LocalTypes

LEMMA QuietPlaces ==
  ASSUME SemInd, NEW t \in Task, NEW from, NEW to, Quiet(t, from, to)
  PROVE  /\ Lists(ready, blocked_curr, blocked_next, attr, waiting)'
         /\ FrontRuns' /\ Windows'
<1>1. /\ t = kernel_current_task /\ pc[t] = from /\ ~pendsv
      /\ kernel_current_task' = kernel_current_task
      /\ pc' \in [Task -> Step] /\ pc'[t] = to
      /\ \A u \in Task : u # t => pc'[u] = pc[u]
  BY Goes DEF SemInd, SemTypes, Quiet, AtStep
<1>2. Lists(ready, blocked_curr, blocked_next, attr, waiting)'
  <2>1. Lists(ready, blocked_curr, blocked_next, attr, waiting)
    BY DEF SemInd
  <2>2. /\ ready' = ready /\ blocked_curr' = blocked_curr /\ blocked_next' = blocked_next
        /\ attr' = attr /\ waiting' = waiting
    BY DEF Quiet
  <2>3. Lists(ready', blocked_curr', blocked_next', attr', waiting')
    BY <2>1, <2>2
  <2> QED BY <2>3
<1>3. FrontRuns'
  <2>1. CASE from \in Away
    BY <1>1, <2>1 DEF Quiet, FrontRuns
  <2>2. CASE from \notin Away
    <3>1. AtFront(ready, attr, t)
      BY <2>2, RunsAtFront DEF Quiet
    <3>2. AtFront(ready', attr', kernel_current_task')
      BY <1>1, <3>1 DEF Quiet
    <3> QED BY <3>2 DEF FrontRuns
  <2> QED BY <2>1, <2>2
<1>4. Windows'
  BY <1>1 DEF Quiet, SemInd, Windows
<1> QED BY <1>2, <1>3, <1>4

LEMMA QuietCallers ==
  ASSUME SemInd, NEW t \in Task, NEW from, NEW to, Quiet(t, from, to), Caller(t, to)
  PROVE  Callers'
<1>1. /\ t = kernel_current_task /\ pc[t] = from
      /\ pc' \in [Task -> Step] /\ pc'[t] = to
      /\ \A u \in Task : u # t => pc'[u] = pc[u]
  BY Goes DEF SemInd, SemTypes, Quiet, AtStep
<1>2. use' = use /\ waiting' = waiting
  BY DEF Quiet
<1>3. ASSUME NEW u \in Task PROVE Caller(u, pc[u])'
  <2>1. Caller(u, pc'[u])
    BY <1>1 DEF SemInd, Callers
  <2> QED BY <1>2, <2>1 DEF Caller, Calls, Timeouts, User
<1>4. ASSUME NEW u \in Range(waiting) PROVE pc'[u] \in Queued \union {"held"}
  <2>1. u \in Task
    BY WaiterNotReady DEF SemInd
  <2>2. CASE u = t
    <3>1. from \in Queued
      BY <1>4, <2>2, NotWaiting DEF Quiet
    <3> QED BY <1>1, <2>2, <3>1 DEF Quiet
  <2>3. CASE u # t
    BY <1>1, <2>1, <2>3 DEF SemInd, Callers
  <2> QED BY <2>2, <2>3
<1>5. waiting' # <<>> => "acquire" \in Calls'
  BY <1>2 DEF SemInd, Callers, Calls
<1> QED BY <1>2, <1>3, <1>4, <1>5 DEF Callers

\* A task gets a unit, gives one back, or neither.
LEMMA GrantedStays ==
  ASSUME NEW t \in Task, NEW p, NEW q, \A u \in Task : u # t => q[u] = p[u],
         p[t] \in GrantedStep <=> q[t] \in GrantedStep, NEW w
  PROVE  GrantedOf(q, w) = GrantedOf(p, w)
BY DEF GrantedOf

LEMMA GrantedOneMore ==
  ASSUME NEW t \in Task, NEW p, NEW q, \A u \in Task : u # t => q[u] = p[u], NEW w
  PROVE  Cardinality(GrantedOf(q, w)) <= Cardinality(GrantedOf(p, w)) + 1
<1>1. GrantedOf(q, w) \in SUBSET (GrantedOf(p, w) \union {t})
  BY DEF GrantedOf
<1>2. IsFiniteSet(GrantedOf(p, w)) /\ Cardinality(GrantedOf(p, w)) \in Nat
  BY GrantedFinite
<1>6. PICK g \in Nat : g = Cardinality(GrantedOf(p, w))
  BY <1>2
<1>7. /\ IsFiniteSet(GrantedOf(p, w) \union {t})
      /\ \/ Cardinality(GrantedOf(p, w) \union {t}) = g
         \/ Cardinality(GrantedOf(p, w) \union {t}) = g + 1
  BY <1>2, <1>6, FS_AddElement
<1>3. /\ IsFiniteSet(GrantedOf(p, w) \union {t})
      /\ Cardinality(GrantedOf(p, w) \union {t}) \in Nat
      /\ Cardinality(GrantedOf(p, w) \union {t}) <= Cardinality(GrantedOf(p, w)) + 1
  BY <1>6, <1>7
<1>4. Cardinality(GrantedOf(q, w)) <= Cardinality(GrantedOf(p, w) \union {t})
  BY <1>1, <1>3, FS_Subset
<1>5. Cardinality(GrantedOf(q, w)) \in Nat
  BY GrantedFinite
<1> QED BY <1>2, <1>3, <1>4, <1>5

LEMMA GrantedOneLess ==
  ASSUME NEW t \in Task, NEW p, NEW q, \A u \in Task : u # t => q[u] = p[u], NEW w, NEW v,
         t \in GrantedOf(p, w), t \notin GrantedOf(q, v), Range(w) \subseteq Range(v)
  PROVE  Cardinality(GrantedOf(q, v)) <= Cardinality(GrantedOf(p, w)) - 1
<1>1. GrantedOf(q, v) \in SUBSET (GrantedOf(p, w) \ {t})
  BY DEF GrantedOf
<1>2. IsFiniteSet(GrantedOf(p, w)) /\ Cardinality(GrantedOf(p, w)) \in Nat
  BY GrantedFinite
<1>3. /\ IsFiniteSet(GrantedOf(p, w) \ {t})
      /\ Cardinality(GrantedOf(p, w) \ {t}) = Cardinality(GrantedOf(p, w)) - 1
  BY <1>2, FS_RemoveElement
<1>4. Cardinality(GrantedOf(q, v)) <= Cardinality(GrantedOf(p, w) \ {t})
  BY <1>1, <1>3, FS_Subset
<1> QED BY <1>3, <1>4

\* What a step of a task does to the units.
Units(t, from, to) ==
  \/ (from \in GrantedStep <=> to \in GrantedStep) /\ state' <= state
  \/ to \in GrantedStep /\ state' = state - 1
  \/ from \in GrantedStep \ Queued /\ to \notin GrantedStep /\ state' <= state + 1

LEMMA QuietSummed ==
  ASSUME SemInd, NEW t \in Task, NEW from, NEW to, Quiet(t, from, to),
         LocalTypes', Units(t, from, to)
  PROVE  Summed'
<1>1. /\ pc[t] = from /\ pc'[t] = to
      /\ \A u \in Task : u # t => pc'[u] = pc[u]
  BY Goes DEF SemInd, SemTypes, Quiet, AtStep
<1>2. waiting' = waiting /\ Calls' = Calls /\ MaxValue' = MaxValue
  BY DEF Quiet, Calls, MaxValue
<1>3. PICK g \in Nat : g = Cardinality(GrantedOf(pc, waiting))
  BY GrantedFinite
<1>4. PICK h \in Nat : h = Cardinality(GrantedOf(pc', waiting))
  BY GrantedFinite
<1>5. PICK n \in Nat : n = Len(waiting)
  BY FewWait DEF SemInd
<1>6. state \in Int /\ state' \in Int /\ MaxValue \in Int
  BY UseFacts DEF LocalTypes, SemInd, SemTypes
<1>12. PICK m \in Int : m = MaxValue
  BY <1>6
<1>13. PICK s \in Int : s = state
  BY <1>6
<1>14. PICK s2 \in Int : s2 = state'
  BY <1>6
<1>7. SUFFICES ASSUME "isr_release" \notin Calls PROVE s2 + n + h <= m
  BY <1>2, <1>4, <1>5, <1>12, <1>14 DEF Summed
<1>8. s + n + g <= m
  BY <1>3, <1>5, <1>7, <1>12, <1>13 DEF SemInd, Summed
<1>9. CASE (from \in GrantedStep <=> to \in GrantedStep) /\ state' <= state
  <2>1. h = g
    BY <1>1, <1>3, <1>4, <1>9, GrantedStays
  <2>2. s2 <= s
    BY <1>9, <1>13, <1>14
  <2> QED BY <1>8, <2>1, <2>2
<1>10. CASE to \in GrantedStep /\ state' = state - 1
  <2>1. h <= g + 1
    BY <1>1, <1>3, <1>4, GrantedOneMore
  <2>2. s2 = s - 1
    BY <1>10, <1>13, <1>14
  <2> QED BY <1>8, <2>1, <2>2
<1>11. CASE from \in GrantedStep \ Queued /\ to \notin GrantedStep /\ state' <= state + 1
  <2>1. t \notin Range(waiting)
    BY <1>11, NotWaiting DEF Quiet
  <2>2. t \in GrantedOf(pc, waiting) /\ t \notin GrantedOf(pc', waiting)
    BY <1>1, <1>11, <2>1 DEF GrantedOf
  <2>3. h <= g - 1
    BY <1>1, <1>3, <1>4, <2>2, GrantedOneLess
  <2>4. s2 <= s + 1
    BY <1>11, <1>13, <1>14
  <2> QED BY <1>8, <2>3, <2>4
<1> QED BY <1>9, <1>10, <1>11 DEF Units

\* A task takes a unit only when no task that has seen one is about to.
LEMMA QuietTry ==
  ASSUME SemInd, UsedSoundly, NEW t \in Task, NEW from, NEW to, Quiet(t, from, to),
         LocalTypes', state' < state => t \in User /\ Takes(use, t),
         to = "try_take" => from \notin Away /\ state' >= 1
  PROVE  TrySafe'
<1>1. /\ t = kernel_current_task /\ pc[t] = from /\ pc'[t] = to
      /\ \A u \in Task : u # t => pc'[u] = pc[u]
  BY Goes DEF SemInd, SemTypes, Quiet, AtStep
<1>2. /\ ready' = ready /\ attr' = attr /\ kernel_current_task' = kernel_current_task
      /\ state \in Int /\ state' \in Int /\ attr \in [Task -> Attribute]
  BY DEF Quiet, LocalTypes, SemInd, SemTypes, Lists
<1>3. SUFFICES ASSUME NEW u \in Task, pc'[u] = "try_take"
               PROVE  /\ state' >= 1 /\ u \in Range(ready.list[attr[u].priority])
                      /\ attr[t].priority >= attr[u].priority
  BY <1>1, <1>2 DEF TrySafe
<1>4. attr[u].priority \in Int /\ attr[t].priority \in Int
  BY <1>2, HasPriority DEF Priority
<1>5. CASE u = t
  <2>1. to = "try_take"
    BY <1>1, <1>3, <1>5
  <2>2. u \in Range(ready.list[attr[u].priority])
    BY <1>5, <2>1, RunsAtFront DEF Quiet
  <2> QED BY <1>4, <1>5, <2>1, <2>2
<1>6. CASE u # t
  <2>1. /\ state >= 1 /\ u \in Range(ready.list[attr[u].priority])
        /\ attr[t].priority >= attr[u].priority
    BY <1>1, <1>3, <1>6 DEF SemInd, TrySafe
  <2>2. ~(state' < state)
    <3>1. SUFFICES ASSUME state' < state PROVE FALSE
      OBVIOUS
    <3>2. u \in User /\ use.timeouts[u] # {}
      <4>1. pc[u] = "try_take" /\ Caller(u, pc[u])
        BY <1>1, <1>3, <1>6 DEF SemInd, Callers
      <4> QED BY <4>1 DEF Caller, TryStep, Timeouts
    <3>3. use.attr[t].priority < use.attr[u].priority
      BY <1>6, <3>1, <3>2 DEF UsedSoundly, Sound
    <3>4. attr = AttrOf
      BY <1>1, <1>3, <1>6 DEF UsedSoundly
    <3> QED BY <1>2, <1>4, <2>1, <3>3, <3>4 DEF AttrOf
  <2> QED BY <1>2, <2>1, <2>2
<1> QED BY <1>5, <1>6

\* All of it: such a step keeps the invariant.
LEMMA QuietStep ==
  ASSUME SemInd, UsedSoundly, NEW t \in Task, NEW from, NEW to, Quiet(t, from, to),
         LocalTypes', Caller(t, to), CountOf(to, state', Len(waiting)),
         Units(t, from, to),
         state' < state => t \in User /\ Takes(use, t),
         to = "try_take" => from \notin Away /\ state' >= 1
  PROVE  SemInd'
<1>1. SemTypes' /\ Callers' /\ Summed' /\ TrySafe'
  BY QuietTypes, QuietCallers, QuietSummed, QuietTry
<1>2. /\ Lists(ready, blocked_curr, blocked_next, attr, waiting)'
      /\ FrontRuns' /\ Windows'
  BY QuietPlaces
<1>3. Counted'
  <2>1. pc'[kernel_current_task'] = to /\ waiting' = waiting
    BY Goes DEF SemInd, SemTypes, Quiet, AtStep
  <2> QED BY <2>1 DEF Counted
<1> QED BY <1>1, <1>2, <1>3 DEF SemInd

-----------------------------------------------------------------------------
(* The steps of the tasks *)

\* What holds where a task is.
LEMMA Here ==
  ASSUME SemInd, NEW t \in Task, NEW from, AtStep(t, from)
  PROVE  /\ pc[t] = from /\ t = kernel_current_task /\ pendsv = FALSE
         /\ task_suspended_count = IF from \in Window THEN 1 ELSE 0
         /\ Caller(t, from) /\ CountOf(from, state, Len(waiting))
         /\ state \in Int /\ state <= MaxValue /\ MaxValue \in Int /\ 1 <= MaxValue
         /\ Len(waiting) \in Nat
<1>1. pc[t] = from /\ t = kernel_current_task /\ ~pendsv
  BY DEF AtStep
<1>4. pendsv = FALSE
  BY <1>1 DEF SemInd, SemTypes
<1>2. Caller(t, from)
  BY <1>1 DEF SemInd, Callers
<1>3. Len(waiting) \in Nat
  BY FewWait DEF SemInd
<1> QED BY <1>1, <1>2, <1>3, <1>4, UseFacts DEF SemInd, SemTypes, Windows, Counted

\* The types, when the local variables of semaphore_try_acquire do not change.
LEMMA LocalsKept ==
  ASSUME SemInd, use' = use, state' \in Int, state' <= MaxValue, UNCHANGED localVars
  PROVE  LocalTypes'
BY DEF SemInd, SemTypes, LocalTypes, localVars, MaxValue

\* A task calls semaphore_acquire.
LEMMA AcquireSuspendKeeps ==
  ASSUME SemInd, UsedSoundly, NEW t \in Task, AcquireSuspend(t), use' = use
  PROVE  SemInd'
<1> USE DEF Step, Window, Away, Queued, AcquireStep, TryStep, GrantedStep
<1>1. AtStep(t, "out") /\ Goto(t, "acq_dec") /\ state' = state
  BY DEF AcquireSuspend, task_suspend_all, semVars
<1>2. /\ task_suspended_count = IF "out" \in Window THEN 1 ELSE 0
      /\ Caller(t, "out") /\ CountOf("out", state, Len(waiting)) /\ Len(waiting) \in Nat
      /\ state \in Int /\ state <= MaxValue /\ MaxValue \in Int /\ 1 <= MaxValue /\ ~pendsv
  BY <1>1, Here
<1>3. Quiet(t, "out", "acq_dec")
  <2>1. UNCHANGED <<kernel_ticks, kernel_current_task, attr, ready, blocked_curr,
                    blocked_next, ready_switch_next, waiting>>
    BY <1>1 DEF AcquireSuspend, task_suspend_all, semVars, UnchangedLists
  <2>2. /\ task_suspended_count' = IF "acq_dec" \in Window THEN 1 ELSE 0
        /\ pendsv' = FALSE
    BY <1>1, <1>2 DEF AcquireSuspend, task_suspend_all, semVars, UnchangedLists
  <2> QED BY <1>1, <2>1, <2>2 DEF Quiet
<1>4. state' \in Int /\ state' <= MaxValue
  BY <1>1, <1>2
<1>5. LocalTypes'
  BY <1>4, LocalsKept DEF AcquireSuspend, task_suspend_all, semVars
<1>6. CountOf("acq_dec", state', Len(waiting)) /\ Units(t, "out", "acq_dec")
  BY <1>1, <1>2 DEF CountOf, Units
<1>7. Caller(t, "acq_dec")
  BY <1>1, <1>2 DEF Caller, AcquireSuspend
<1>8. state' < state => t \in User /\ Takes(use, t)
  BY <1>1, <1>2 DEF Caller, Takes, Calls, Timeouts
<1> QED BY <1>1, <1>3, <1>5, <1>6, <1>7, <1>8, QuietStep

\* The state is decremented for a task in a window of semaphore_acquire.
LEMMA AcquireDecKeeps ==
  ASSUME SemInd, UsedSoundly, NEW t \in Task, AcquireDec(t), use' = use
  PROVE  SemInd'
<1> USE DEF Step, Window, Away, Queued, AcquireStep, TryStep, GrantedStep
<1>1. AtStep(t, "acq_dec") /\ Goto(t, "acq_test") /\ state' = state - 1
  BY DEF AcquireDec
<1>2. /\ task_suspended_count = IF "acq_dec" \in Window THEN 1 ELSE 0
      /\ Caller(t, "acq_dec") /\ CountOf("acq_dec", state, Len(waiting)) /\ Len(waiting) \in Nat
      /\ state \in Int /\ state <= MaxValue /\ MaxValue \in Int /\ 1 <= MaxValue /\ ~pendsv
  BY <1>1, Here
<1>3. Quiet(t, "acq_dec", "acq_test")
  <2>1. UNCHANGED <<kernel_ticks, kernel_current_task, attr, ready, blocked_curr,
                    blocked_next, ready_switch_next, waiting>>
    BY <1>1 DEF AcquireDec, kernelVars
  <2>2. /\ task_suspended_count' = IF "acq_test" \in Window THEN 1 ELSE 0
        /\ pendsv' = FALSE
    BY <1>1, <1>2 DEF AcquireDec, kernelVars
  <2> QED BY <1>1, <2>1, <2>2 DEF Quiet
<1>4. state' \in Int /\ state' <= MaxValue
  BY <1>1, <1>2
<1>5. LocalTypes'
  BY <1>4, LocalsKept DEF AcquireDec
<1>6. CountOf("acq_test", state', Len(waiting)) /\ Units(t, "acq_dec", "acq_test")
  BY <1>1, <1>2 DEF CountOf, Units
<1>7. Caller(t, "acq_test")
  BY <1>1, <1>2 DEF Caller, Takes, Calls
<1>8. state' < state => t \in User /\ Takes(use, t)
  BY <1>1, <1>2 DEF Caller, Takes, Calls, Timeouts
<1> QED BY <1>1, <1>3, <1>5, <1>6, <1>7, <1>8, QuietStep

\* There was a unit: semaphore_acquire does not wait.
LEMMA AcquireGoesOnKeeps ==
  ASSUME SemInd, UsedSoundly, NEW t \in Task, AcquireTest(t), ~must_wait, use' = use
  PROVE  SemInd'
<1> USE DEF Step, Window, Away, Queued, AcquireStep, TryStep, GrantedStep
<1>1. AtStep(t, "acq_test") /\ Goto(t, "acq_resume") /\ state' = state
  BY DEF AcquireTest
<1>2. /\ task_suspended_count = IF "acq_test" \in Window THEN 1 ELSE 0
      /\ Caller(t, "acq_test") /\ CountOf("acq_test", state, Len(waiting)) /\ Len(waiting) \in Nat
      /\ state \in Int /\ state <= MaxValue /\ MaxValue \in Int /\ 1 <= MaxValue /\ ~pendsv
  BY <1>1, Here
<1>3. Quiet(t, "acq_test", "acq_resume")
  <2>1. UNCHANGED <<kernel_ticks, kernel_current_task, attr, ready, blocked_curr,
                    blocked_next, ready_switch_next, waiting>>
    BY <1>1 DEF AcquireTest, kernelVars
  <2>2. /\ task_suspended_count' = IF "acq_resume" \in Window THEN 1 ELSE 0
        /\ pendsv' = FALSE
    BY <1>1, <1>2 DEF AcquireTest, kernelVars
  <2> QED BY <1>1, <2>1, <2>2 DEF Quiet
<1>4. state' \in Int /\ state' <= MaxValue
  BY <1>1, <1>2
<1>5. LocalTypes'
  BY <1>4, LocalsKept DEF AcquireTest
<1>6. CountOf("acq_resume", state', Len(waiting)) /\ Units(t, "acq_test", "acq_resume")
  BY <1>1, <1>2 DEF CountOf, Units, must_wait
<1>7. Caller(t, "acq_resume")
  BY <1>1, <1>2 DEF Caller
<1>8. state' < state => t \in User /\ Takes(use, t)
  BY <1>1, <1>2 DEF Caller, Takes, Calls, Timeouts
<1> QED BY <1>1, <1>3, <1>5, <1>6, <1>7, <1>8, QuietStep

\* The window ends and the task has the unit.
LEMMA AcquireResumeHeldKeeps ==
  ASSUME SemInd, UsedSoundly, NEW t \in Task, AcquireResume(t), AtStep(t, "acq_resume"), use' = use
  PROVE  SemInd'
<1> USE DEF Step, Window, Away, Queued, AcquireStep, TryStep, GrantedStep
<1>1. AtStep(t, "acq_resume") /\ Goto(t, "held") /\ state' = state
  BY DEF AcquireResume, task_resume_all, semVars, AtStep
<1>2. /\ task_suspended_count = IF "acq_resume" \in Window THEN 1 ELSE 0
      /\ Caller(t, "acq_resume") /\ CountOf("acq_resume", state, Len(waiting)) /\ Len(waiting) \in Nat
      /\ state \in Int /\ state <= MaxValue /\ MaxValue \in Int /\ 1 <= MaxValue /\ ~pendsv
  BY <1>1, Here
<1>3. Quiet(t, "acq_resume", "held")
  <2>1. UNCHANGED <<kernel_ticks, kernel_current_task, attr, ready, blocked_curr,
                    blocked_next, ready_switch_next, waiting>>
    BY <1>1 DEF AcquireResume, task_resume_all, semVars, UnchangedLists
  <2>2. /\ task_suspended_count' = IF "held" \in Window THEN 1 ELSE 0
        /\ pendsv' = FALSE
    BY <1>1, <1>2 DEF AcquireResume, task_resume_all, semVars, UnchangedLists
  <2> QED BY <1>1, <2>1, <2>2 DEF Quiet
<1>4. state' \in Int /\ state' <= MaxValue
  BY <1>1, <1>2
<1>5. LocalTypes'
  BY <1>4, LocalsKept DEF AcquireResume, task_resume_all, semVars
<1>6. CountOf("held", state', Len(waiting)) /\ Units(t, "acq_resume", "held")
  BY <1>1, <1>2 DEF CountOf, Units
<1>7. Caller(t, "held")
  BY <1>1, <1>2 DEF Caller
<1>8. state' < state => t \in User /\ Takes(use, t)
  BY <1>1, <1>2 DEF Caller, Takes, Calls, Timeouts
<1> QED BY <1>1, <1>3, <1>5, <1>6, <1>7, <1>8, QuietStep

\* The window ends and the task waits.
LEMMA AcquireResumeYieldKeeps ==
  ASSUME SemInd, UsedSoundly, NEW t \in Task, AcquireResume(t), AtStep(t, "acq_resume_yield"), use' = use
  PROVE  SemInd'
<1> USE DEF Step, Window, Away, Queued, AcquireStep, TryStep, GrantedStep
<1>1. AtStep(t, "acq_resume_yield") /\ Goto(t, "acq_yield") /\ state' = state
  BY DEF AcquireResume, task_resume_all, semVars, AtStep
<1>2. /\ task_suspended_count = IF "acq_resume_yield" \in Window THEN 1 ELSE 0
      /\ Caller(t, "acq_resume_yield") /\ CountOf("acq_resume_yield", state, Len(waiting)) /\ Len(waiting) \in Nat
      /\ state \in Int /\ state <= MaxValue /\ MaxValue \in Int /\ 1 <= MaxValue /\ ~pendsv
  BY <1>1, Here
<1>3. Quiet(t, "acq_resume_yield", "acq_yield")
  <2>1. UNCHANGED <<kernel_ticks, kernel_current_task, attr, ready, blocked_curr,
                    blocked_next, ready_switch_next, waiting>>
    BY <1>1 DEF AcquireResume, task_resume_all, semVars, UnchangedLists
  <2>2. /\ task_suspended_count' = IF "acq_yield" \in Window THEN 1 ELSE 0
        /\ pendsv' = FALSE
    BY <1>1, <1>2 DEF AcquireResume, task_resume_all, semVars, UnchangedLists
  <2> QED BY <1>1, <2>1, <2>2 DEF Quiet
<1>4. state' \in Int /\ state' <= MaxValue
  BY <1>1, <1>2
<1>5. LocalTypes'
  BY <1>4, LocalsKept DEF AcquireResume, task_resume_all, semVars
<1>6. CountOf("acq_yield", state', Len(waiting)) /\ Units(t, "acq_resume_yield", "acq_yield")
  BY <1>1, <1>2 DEF CountOf, Units
<1>7. Caller(t, "acq_yield")
  BY <1>1, <1>2 DEF Caller
<1>8. state' < state => t \in User /\ Takes(use, t)
  BY <1>1, <1>2 DEF Caller, Takes, Calls, Timeouts
<1> QED BY <1>1, <1>3, <1>5, <1>6, <1>7, <1>8, QuietStep

\* The waiting task gives up the CPU.
LEMMA AcquireYieldKeeps ==
  ASSUME SemInd, UsedSoundly, NEW t \in Task, AcquireYield(t), use' = use
  PROVE  SemInd'
<1> USE DEF Step, Window, Away, Queued, AcquireStep, TryStep, GrantedStep
<1>1. AtStep(t, "acq_yield") /\ Goto(t, "held") /\ state' = state
  BY DEF AcquireYield, task_yield, semVars
<1>2. /\ task_suspended_count = IF "acq_yield" \in Window THEN 1 ELSE 0
      /\ Caller(t, "acq_yield") /\ CountOf("acq_yield", state, Len(waiting)) /\ Len(waiting) \in Nat
      /\ state \in Int /\ state <= MaxValue /\ MaxValue \in Int /\ 1 <= MaxValue /\ ~pendsv
  BY <1>1, Here
<1>3. Quiet(t, "acq_yield", "held")
  <2>1. UNCHANGED <<kernel_ticks, kernel_current_task, attr, ready, blocked_curr,
                    blocked_next, ready_switch_next, waiting>>
    BY <1>1 DEF AcquireYield, task_yield, semVars, UnchangedLists
  <2>2. /\ task_suspended_count' = IF "held" \in Window THEN 1 ELSE 0
        /\ pendsv' = TRUE
    BY <1>1, <1>2 DEF AcquireYield, task_yield, semVars, UnchangedLists
  <2> QED BY <1>1, <2>1, <2>2 DEF Quiet
<1>4. state' \in Int /\ state' <= MaxValue
  BY <1>1, <1>2
<1>5. LocalTypes'
  BY <1>4, LocalsKept DEF AcquireYield, task_yield, semVars
<1>6. CountOf("held", state', Len(waiting)) /\ Units(t, "acq_yield", "held")
  BY <1>1, <1>2 DEF CountOf, Units
<1>7. Caller(t, "held")
  BY <1>1, <1>2 DEF Caller
<1>8. state' < state => t \in User /\ Takes(use, t)
  BY <1>1, <1>2 DEF Caller, Takes, Calls, Timeouts
<1> QED BY <1>1, <1>3, <1>5, <1>6, <1>7, <1>8, QuietStep

\* The types, when they do change.
LEMMA LocalsGood ==
  ASSUME SemInd, use' = use, state' \in Int, state' <= MaxValue,
         timeout' \in [Task -> Tick], current_tick' \in [Task -> Tick]
  PROVE  LocalTypes'
BY DEF LocalTypes, MaxValue

\* A task calls semaphore_try_acquire.
LEMMA TryAcquireKeeps ==
  ASSUME SemInd, UsedSoundly, NEW t \in Task, TryAcquire(t), use' = use
  PROVE  SemInd'
<1> USE DEF Step, Window, Away, Queued, AcquireStep, TryStep, GrantedStep
<1>1. AtStep(t, "out") /\ Goto(t, "try_test") /\ state' = state
  BY DEF TryAcquire, semVars
<1>2. /\ task_suspended_count = IF "out" \in Window THEN 1 ELSE 0
      /\ Caller(t, "out") /\ CountOf("out", state, Len(waiting)) /\ Len(waiting) \in Nat
      /\ state \in Int /\ state <= MaxValue /\ MaxValue \in Int /\ 1 <= MaxValue /\ ~pendsv
  BY <1>1, Here
<1>3. Quiet(t, "out", "try_test")
  <2>1. UNCHANGED <<kernel_ticks, kernel_current_task, attr, ready, blocked_curr,
                    blocked_next, ready_switch_next, waiting>>
    BY <1>1 DEF TryAcquire, semVars, kernelVars
  <2>2. /\ task_suspended_count' = IF "try_test" \in Window THEN 1 ELSE 0
        /\ pendsv' = FALSE
    BY <1>1, <1>2 DEF TryAcquire, semVars, kernelVars
  <2> QED BY <1>1, <2>1, <2>2 DEF Quiet
<1>9. timeout' \in [Task -> Tick] /\ current_tick' \in [Task -> Tick]
  <2>1. /\ kernel_ticks \in Tick /\ timeout \in [Task -> Tick] /\ current_tick \in [Task -> Tick]
        /\ Timeouts \in [User -> SUBSET Tick]
    BY UseFacts DEF SemInd, SemTypes
  <2>2. t \in User /\ \E n \in Timeouts[t] : timeout' = [timeout EXCEPT ![t] = n]
    BY DEF TryAcquire
  <2>3. PICK n \in Tick : timeout' = [timeout EXCEPT ![t] = n]
    BY <2>1, <2>2
  <2> QED BY <2>1, <2>3 DEF TryAcquire
<1>4. state' \in Int /\ state' <= MaxValue
  BY <1>1, <1>2
<1>5. LocalTypes'
  BY <1>4, <1>9, LocalsGood
<1>6. CountOf("try_test", state', Len(waiting)) /\ Units(t, "out", "try_test")
  BY <1>1, <1>2 DEF CountOf, Units
<1>7. Caller(t, "try_test")
  BY <1>1, <1>2 DEF Caller, TryAcquire
<1>8. state' < state => t \in User /\ Takes(use, t)
  BY <1>1, <1>2 DEF Caller, Takes, Calls, Timeouts
<1> QED BY <1>1, <1>3, <1>5, <1>6, <1>7, <1>8, QuietStep

\* semaphore_try_acquire sees a unit.
LEMMA TryTestTakeKeeps ==
  ASSUME SemInd, UsedSoundly, NEW t \in Task, TryTest(t), available, use' = use
  PROVE  SemInd'
<1> USE DEF Step, Window, Away, Queued, AcquireStep, TryStep, GrantedStep
<1>1. AtStep(t, "try_test") /\ Goto(t, "try_take") /\ state' = state
  BY DEF TryTest, semVars
<1>2. /\ task_suspended_count = IF "try_test" \in Window THEN 1 ELSE 0
      /\ Caller(t, "try_test") /\ CountOf("try_test", state, Len(waiting)) /\ Len(waiting) \in Nat
      /\ state \in Int /\ state <= MaxValue /\ MaxValue \in Int /\ 1 <= MaxValue /\ ~pendsv
  BY <1>1, Here
<1>3. Quiet(t, "try_test", "try_take")
  <2>1. UNCHANGED <<kernel_ticks, kernel_current_task, attr, ready, blocked_curr,
                    blocked_next, ready_switch_next, waiting>>
    BY <1>1 DEF TryTest, semVars, kernelVars
  <2>2. /\ task_suspended_count' = IF "try_take" \in Window THEN 1 ELSE 0
        /\ pendsv' = FALSE
    BY <1>1, <1>2 DEF TryTest, semVars, kernelVars
  <2> QED BY <1>1, <2>1, <2>2 DEF Quiet
<1>4. state' \in Int /\ state' <= MaxValue
  BY <1>1, <1>2
<1>5. LocalTypes'
  BY <1>4, LocalsKept DEF TryTest, semVars
<1>6. CountOf("try_take", state', Len(waiting)) /\ Units(t, "try_test", "try_take")
  BY <1>1, <1>2 DEF CountOf, Units
<1>7. Caller(t, "try_take")
  BY <1>1, <1>2 DEF Caller
<1>8. state' < state => t \in User /\ Takes(use, t)
  BY <1>1, <1>2 DEF Caller, Takes, Calls, Timeouts
<1>11. state' >= 1
  BY <1>1, <1>2 DEF available
<1> QED BY <1>1, <1>3, <1>5, <1>6, <1>7, <1>8, <1>11, QuietStep

\* semaphore_try_acquire sees no unit.
LEMMA TryTestTimeKeeps ==
  ASSUME SemInd, UsedSoundly, NEW t \in Task, TryTest(t), ~available, use' = use
  PROVE  SemInd'
<1> USE DEF Step, Window, Away, Queued, AcquireStep, TryStep, GrantedStep
<1>1. AtStep(t, "try_test") /\ Goto(t, "try_time") /\ state' = state
  BY DEF TryTest, semVars
<1>2. /\ task_suspended_count = IF "try_test" \in Window THEN 1 ELSE 0
      /\ Caller(t, "try_test") /\ CountOf("try_test", state, Len(waiting)) /\ Len(waiting) \in Nat
      /\ state \in Int /\ state <= MaxValue /\ MaxValue \in Int /\ 1 <= MaxValue /\ ~pendsv
  BY <1>1, Here
<1>3. Quiet(t, "try_test", "try_time")
  <2>1. UNCHANGED <<kernel_ticks, kernel_current_task, attr, ready, blocked_curr,
                    blocked_next, ready_switch_next, waiting>>
    BY <1>1 DEF TryTest, semVars, kernelVars
  <2>2. /\ task_suspended_count' = IF "try_time" \in Window THEN 1 ELSE 0
        /\ pendsv' = FALSE
    BY <1>1, <1>2 DEF TryTest, semVars, kernelVars
  <2> QED BY <1>1, <2>1, <2>2 DEF Quiet
<1>4. state' \in Int /\ state' <= MaxValue
  BY <1>1, <1>2
<1>5. LocalTypes'
  BY <1>4, LocalsKept DEF TryTest, semVars
<1>6. CountOf("try_time", state', Len(waiting)) /\ Units(t, "try_test", "try_time")
  BY <1>1, <1>2 DEF CountOf, Units
<1>7. Caller(t, "try_time")
  BY <1>1, <1>2 DEF Caller
<1>8. state' < state => t \in User /\ Takes(use, t)
  BY <1>1, <1>2 DEF Caller, Takes, Calls, Timeouts
<1> QED BY <1>1, <1>3, <1>5, <1>6, <1>7, <1>8, QuietStep

\* The unit that was seen is taken.
LEMMA TryTakeKeeps ==
  ASSUME SemInd, UsedSoundly, NEW t \in Task, TryTake(t), use' = use
  PROVE  SemInd'
<1> USE DEF Step, Window, Away, Queued, AcquireStep, TryStep, GrantedStep
<1>1. AtStep(t, "try_take") /\ Goto(t, "held") /\ state' = state - 1
  BY DEF TryTake
<1>2. /\ task_suspended_count = IF "try_take" \in Window THEN 1 ELSE 0
      /\ Caller(t, "try_take") /\ CountOf("try_take", state, Len(waiting)) /\ Len(waiting) \in Nat
      /\ state \in Int /\ state <= MaxValue /\ MaxValue \in Int /\ 1 <= MaxValue /\ ~pendsv
  BY <1>1, Here
<1>3. Quiet(t, "try_take", "held")
  <2>1. UNCHANGED <<kernel_ticks, kernel_current_task, attr, ready, blocked_curr,
                    blocked_next, ready_switch_next, waiting>>
    BY <1>1 DEF TryTake, kernelVars
  <2>2. /\ task_suspended_count' = IF "held" \in Window THEN 1 ELSE 0
        /\ pendsv' = FALSE
    BY <1>1, <1>2 DEF TryTake, kernelVars
  <2> QED BY <1>1, <2>1, <2>2 DEF Quiet
<1>9. timeout' \in [Task -> Tick] /\ current_tick' \in [Task -> Tick]
  BY TickModAssumption DEF SemInd, SemTypes, Tick, LocalsDead, TryTake
<1>4. state' \in Int /\ state' <= MaxValue
  BY <1>1, <1>2
<1>5. LocalTypes'
  BY <1>4, <1>9, LocalsGood
<1>10. state >= 1
  BY <1>1, Here DEF SemInd, TrySafe
<1>6. CountOf("held", state', Len(waiting)) /\ Units(t, "try_take", "held")
  BY <1>1, <1>2, <1>10 DEF CountOf, Units
<1>7. Caller(t, "held")
  BY <1>1, <1>2 DEF Caller, Takes, Timeouts
<1>8. state' < state => t \in User /\ Takes(use, t)
  BY <1>1, <1>2 DEF Caller, Takes, Calls, Timeouts
<1> QED BY <1>1, <1>3, <1>5, <1>6, <1>7, <1>8, QuietStep

\* The time is over.
LEMMA TryTimeOutKeeps ==
  ASSUME SemInd, UsedSoundly, NEW t \in Task, TryTime(t), timeout[t] = 0, use' = use
  PROVE  SemInd'
<1> USE DEF Step, Window, Away, Queued, AcquireStep, TryStep, GrantedStep
<1>1. AtStep(t, "try_time") /\ Goto(t, "out") /\ state' = state
  BY DEF TryTime, semVars
<1>2. /\ task_suspended_count = IF "try_time" \in Window THEN 1 ELSE 0
      /\ Caller(t, "try_time") /\ CountOf("try_time", state, Len(waiting)) /\ Len(waiting) \in Nat
      /\ state \in Int /\ state <= MaxValue /\ MaxValue \in Int /\ 1 <= MaxValue /\ ~pendsv
  BY <1>1, Here
<1>3. Quiet(t, "try_time", "out")
  <2>1. UNCHANGED <<kernel_ticks, kernel_current_task, attr, ready, blocked_curr,
                    blocked_next, ready_switch_next, waiting>>
    BY <1>1 DEF TryTime, semVars, kernelVars
  <2>2. /\ task_suspended_count' = IF "out" \in Window THEN 1 ELSE 0
        /\ pendsv' = FALSE
    BY <1>1, <1>2 DEF TryTime, semVars, kernelVars
  <2> QED BY <1>1, <2>1, <2>2 DEF Quiet
<1>9. timeout' \in [Task -> Tick] /\ current_tick' \in [Task -> Tick]
  BY TickModAssumption DEF SemInd, SemTypes, Tick, LocalsDead, TryTime
<1>4. state' \in Int /\ state' <= MaxValue
  BY <1>1, <1>2
<1>5. LocalTypes'
  BY <1>4, <1>9, LocalsGood
<1>6. CountOf("out", state', Len(waiting)) /\ Units(t, "try_time", "out")
  BY <1>1, <1>2 DEF CountOf, Units
<1>7. Caller(t, "out")
  BY <1>1, <1>2 DEF Caller
<1>8. state' < state => t \in User /\ Takes(use, t)
  BY <1>1, <1>2 DEF Caller, Takes, Calls, Timeouts
<1> QED BY <1>1, <1>3, <1>5, <1>6, <1>7, <1>8, QuietStep

\* The time is not over: the task waits for the next tick, or counts one that has
\* passed.
LEMMA TryTimeRunsKeeps ==
  ASSUME SemInd, UsedSoundly, NEW t \in Task, TryTime(t), timeout[t] # 0, use' = use
  PROVE  SemInd'
<1> USE DEF Step, Window, Away, Queued, AcquireStep, TryStep, GrantedStep
<1>1. timeout[t] \in Nat /\ timeout[t] > 0 /\ timeout[t] - 1 \in Tick
  BY TickModAssumption DEF SemInd, SemTypes, Tick
<1>2. PICK to \in {"try_yield", "try_test"} :
        /\ AtStep(t, "try_time") /\ Goto(t, to)
        /\ \/ UNCHANGED localVars
           \/ /\ current_tick' = [current_tick EXCEPT ![t] = kernel_ticks]
              /\ timeout' = [timeout EXCEPT ![t] = timeout[t] - 1]
  BY <1>1 DEF TryTime, next_timeout
<1>3. UNCHANGED <<kernelVars, semVars>>
  BY DEF TryTime
<1>4. /\ task_suspended_count = IF "try_time" \in Window THEN 1 ELSE 0
      /\ pendsv = FALSE /\ Caller(t, "try_time") /\ CountOf("try_time", state, Len(waiting)) /\ Len(waiting) \in Nat
      /\ state \in Int /\ state <= MaxValue /\ MaxValue \in Int
  BY <1>2, Here
<1>5. state' = state
  BY <1>3 DEF semVars
<1>6. Quiet(t, "try_time", to)
  <2>1. /\ to \in Step /\ to \notin Window
        /\ task_suspended_count' = 0 /\ pendsv' = FALSE
    BY <1>2, <1>3, <1>4 DEF kernelVars
  <2> QED BY <1>2, <1>3, <2>1 DEF Quiet, kernelVars, semVars
<1>7. timeout' \in [Task -> Tick] /\ current_tick' \in [Task -> Tick]
  BY <1>1, <1>2 DEF SemInd, SemTypes, localVars
<1>8. LocalTypes'
  BY <1>4, <1>5, <1>7, LocalsGood
<1>9. CountOf(to, state', Len(waiting)) /\ Units(t, "try_time", to)
  <2>1. CASE to = "try_yield"
    BY <1>4, <1>5, <2>1 DEF CountOf, Units
  <2>2. CASE to = "try_test"
    BY <1>4, <1>5, <2>2 DEF CountOf, Units
  <2> QED BY <1>2, <2>1, <2>2
<1>10. Caller(t, to)
  <2>1. to # "out" /\ to \in TryStep /\ to \notin AcquireStep /\ to \notin GrantedStep
    BY <1>2
  <2>2. t \in User /\ Timeouts[t] # {}
    BY <1>4 DEF Caller
  <2> QED BY <2>1, <2>2 DEF Caller
<1>11. ~(state' < state) /\ to # "try_take"
  BY <1>2, <1>4, <1>5
<1> QED BY <1>6, <1>8, <1>9, <1>10, <1>11, QuietStep

\* semaphore_try_acquire gives up the CPU until the next tick.
LEMMA TryYieldKeeps ==
  ASSUME SemInd, UsedSoundly, NEW t \in Task, TryYield(t), use' = use
  PROVE  SemInd'
<1> USE DEF Step, Window, Away, Queued, AcquireStep, TryStep, GrantedStep
<1>1. AtStep(t, "try_yield") /\ Goto(t, "try_test") /\ state' = state
  BY DEF TryYield, task_yield, semVars
<1>2. /\ task_suspended_count = IF "try_yield" \in Window THEN 1 ELSE 0
      /\ Caller(t, "try_yield") /\ CountOf("try_yield", state, Len(waiting)) /\ Len(waiting) \in Nat
      /\ state \in Int /\ state <= MaxValue /\ MaxValue \in Int /\ 1 <= MaxValue /\ ~pendsv
  BY <1>1, Here
<1>3. Quiet(t, "try_yield", "try_test")
  <2>1. UNCHANGED <<kernel_ticks, kernel_current_task, attr, ready, blocked_curr,
                    blocked_next, ready_switch_next, waiting>>
    BY <1>1 DEF TryYield, task_yield, semVars, UnchangedLists
  <2>2. /\ task_suspended_count' = IF "try_test" \in Window THEN 1 ELSE 0
        /\ pendsv' = TRUE
    BY <1>1, <1>2 DEF TryYield, task_yield, semVars, UnchangedLists
  <2> QED BY <1>1, <2>1, <2>2 DEF Quiet
<1>4. state' \in Int /\ state' <= MaxValue
  BY <1>1, <1>2
<1>5. LocalTypes'
  BY <1>4, LocalsKept DEF TryYield, task_yield, semVars
<1>6. CountOf("try_test", state', Len(waiting)) /\ Units(t, "try_yield", "try_test")
  BY <1>1, <1>2 DEF CountOf, Units
<1>7. Caller(t, "try_test")
  BY <1>1, <1>2 DEF Caller
<1>8. state' < state => t \in User /\ Takes(use, t)
  BY <1>1, <1>2 DEF Caller, Takes, Calls, Timeouts
<1> QED BY <1>1, <1>3, <1>5, <1>6, <1>7, <1>8, QuietStep

\* A task calls semaphore_release.
LEMMA ReleaseSuspendKeeps ==
  ASSUME SemInd, UsedSoundly, NEW t \in Task, ReleaseSuspend(t), use' = use
  PROVE  SemInd'
<1> USE DEF Step, Window, Away, Queued, AcquireStep, TryStep, GrantedStep
<1>1. AtStep(t, "held") /\ Goto(t, "rel_inc") /\ state' = state
  BY DEF ReleaseSuspend, task_suspend_all, semVars
<1>2. /\ task_suspended_count = IF "held" \in Window THEN 1 ELSE 0
      /\ Caller(t, "held") /\ CountOf("held", state, Len(waiting)) /\ Len(waiting) \in Nat
      /\ state \in Int /\ state <= MaxValue /\ MaxValue \in Int /\ 1 <= MaxValue /\ ~pendsv
  BY <1>1, Here
<1>3. Quiet(t, "held", "rel_inc")
  <2>1. UNCHANGED <<kernel_ticks, kernel_current_task, attr, ready, blocked_curr,
                    blocked_next, ready_switch_next, waiting>>
    BY <1>1 DEF ReleaseSuspend, task_suspend_all, semVars, UnchangedLists
  <2>2. /\ task_suspended_count' = IF "rel_inc" \in Window THEN 1 ELSE 0
        /\ pendsv' = FALSE
    BY <1>1, <1>2 DEF ReleaseSuspend, task_suspend_all, semVars, UnchangedLists
  <2> QED BY <1>1, <2>1, <2>2 DEF Quiet
<1>4. state' \in Int /\ state' <= MaxValue
  BY <1>1, <1>2
<1>5. LocalTypes'
  BY <1>4, LocalsKept DEF ReleaseSuspend, task_suspend_all, semVars
<1>6. CountOf("rel_inc", state', Len(waiting)) /\ Units(t, "held", "rel_inc")
  BY <1>1, <1>2 DEF CountOf, Units
<1>7. Caller(t, "rel_inc")
  BY <1>1, <1>2 DEF Caller
<1>8. state' < state => t \in User /\ Takes(use, t)
  BY <1>1, <1>2 DEF Caller, Takes, Calls, Timeouts
<1> QED BY <1>1, <1>3, <1>5, <1>6, <1>7, <1>8, QuietStep

\* The state is incremented up to its maximum.
LEMMA ReleaseIncKeeps ==
  ASSUME SemInd, UsedSoundly, NEW t \in Task, ReleaseInc(t), use' = use
  PROVE  SemInd'
<1> USE DEF Step, Window, Away, Queued, AcquireStep, TryStep, GrantedStep
<1>1. AtStep(t, "rel_inc") /\ Goto(t, "rel_wake") /\ state' = incremented
  BY DEF ReleaseInc
<1>2. /\ task_suspended_count = IF "rel_inc" \in Window THEN 1 ELSE 0
      /\ Caller(t, "rel_inc") /\ CountOf("rel_inc", state, Len(waiting)) /\ Len(waiting) \in Nat
      /\ state \in Int /\ state <= MaxValue /\ MaxValue \in Int /\ 1 <= MaxValue /\ ~pendsv
  BY <1>1, Here
<1>3. Quiet(t, "rel_inc", "rel_wake")
  <2>1. UNCHANGED <<kernel_ticks, kernel_current_task, attr, ready, blocked_curr,
                    blocked_next, ready_switch_next, waiting>>
    BY <1>1 DEF ReleaseInc, kernelVars
  <2>2. /\ task_suspended_count' = IF "rel_wake" \in Window THEN 1 ELSE 0
        /\ pendsv' = FALSE
    BY <1>1, <1>2 DEF ReleaseInc, kernelVars
  <2> QED BY <1>1, <2>1, <2>2 DEF Quiet
<1>4. state' \in Int /\ state' <= MaxValue
  BY <1>1, <1>2 DEF incremented
<1>5. LocalTypes'
  BY <1>4, LocalsKept DEF ReleaseInc
<1>6. CountOf("rel_wake", state', Len(waiting)) /\ Units(t, "rel_inc", "rel_wake")
  <2>1. PICK s \in Int : s = state
    BY <1>2
  <2>2. PICK n \in Nat : n = Len(waiting)
    BY <1>2
  <2>3. PICK e \in Int : e = state'
    BY <1>4
  <2>4. \/ e = s + 1
        \/ e = s /\ s > 0
    BY <1>1, <1>2, <2>1, <2>3 DEF incremented
  <2>5. CountOf("rel_inc", s, n)
    BY <1>2, <2>1, <2>2
  <2>6. CountOf("rel_wake", e, n)
    BY <2>4, <2>5 DEF CountOf
  <2>7. Units(t, "rel_inc", "rel_wake")
    BY <2>1, <2>3, <2>4 DEF Units
  <2> QED BY <2>2, <2>3, <2>6, <2>7
<1>7. Caller(t, "rel_wake")
  BY <1>1, <1>2 DEF Caller
<1>8. state' < state => t \in User /\ Takes(use, t)
  BY <1>1, <1>2 DEF Caller, Takes, Calls, Timeouts
<1> QED BY <1>1, <1>3, <1>5, <1>6, <1>7, <1>8, QuietStep

\* No task waits for what is released.
LEMMA ReleaseNoWakeKeeps ==
  ASSUME SemInd, UsedSoundly, NEW t \in Task, ReleaseWake(t), ~wakes, use' = use
  PROVE  SemInd'
<1> USE DEF Step, Window, Away, Queued, AcquireStep, TryStep, GrantedStep
<1>1. AtStep(t, "rel_wake") /\ Goto(t, "rel_resume") /\ state' = state
  BY DEF ReleaseWake
<1>2. /\ task_suspended_count = IF "rel_wake" \in Window THEN 1 ELSE 0
      /\ Caller(t, "rel_wake") /\ CountOf("rel_wake", state, Len(waiting)) /\ Len(waiting) \in Nat
      /\ state \in Int /\ state <= MaxValue /\ MaxValue \in Int /\ 1 <= MaxValue /\ ~pendsv
  BY <1>1, Here
<1>3. Quiet(t, "rel_wake", "rel_resume")
  <2>1. UNCHANGED <<kernel_ticks, kernel_current_task, attr, ready, blocked_curr,
                    blocked_next, ready_switch_next, waiting>>
    BY <1>1 DEF ReleaseWake, UnchangedScheduler
  <2>2. /\ task_suspended_count' = IF "rel_resume" \in Window THEN 1 ELSE 0
        /\ pendsv' = FALSE
    BY <1>1, <1>2 DEF ReleaseWake, UnchangedScheduler
  <2> QED BY <1>1, <2>1, <2>2 DEF Quiet
<1>4. state' \in Int /\ state' <= MaxValue
  BY <1>1, <1>2
<1>5. LocalTypes'
  BY <1>4, LocalsKept DEF ReleaseWake
<1>6. CountOf("rel_resume", state', Len(waiting)) /\ Units(t, "rel_wake", "rel_resume")
  <2>1. PICK s \in Int : s = state
    BY <1>2
  <2>2. PICK n \in Nat : n = Len(waiting)
    BY <1>2
  <2>3. s > 0 \/ n = 0
    BY <2>1, <2>2 DEF wakes
  <2>4. CountOf("rel_wake", s, n)
    BY <1>2, <2>1, <2>2
  <2>5. CountOf("rel_resume", s, n)
    BY <2>3, <2>4 DEF CountOf
  <2> QED BY <1>1, <1>2, <2>1, <2>2, <2>5 DEF Units
<1>7. Caller(t, "rel_resume")
  BY <1>1, <1>2 DEF Caller
<1>8. state' < state => t \in User /\ Takes(use, t)
  BY <1>1, <1>2 DEF Caller, Takes, Calls, Timeouts
<1> QED BY <1>1, <1>3, <1>5, <1>6, <1>7, <1>8, QuietStep

\* The window of semaphore_release ends.
LEMMA ReleaseResumeKeeps ==
  ASSUME SemInd, UsedSoundly, NEW t \in Task, ReleaseResume(t), use' = use
  PROVE  SemInd'
<1> USE DEF Step, Window, Away, Queued, AcquireStep, TryStep, GrantedStep
<1>1. AtStep(t, "rel_resume") /\ Goto(t, "out") /\ state' = state
  BY DEF ReleaseResume, task_resume_all, semVars
<1>2. /\ task_suspended_count = IF "rel_resume" \in Window THEN 1 ELSE 0
      /\ Caller(t, "rel_resume") /\ CountOf("rel_resume", state, Len(waiting)) /\ Len(waiting) \in Nat
      /\ state \in Int /\ state <= MaxValue /\ MaxValue \in Int /\ 1 <= MaxValue /\ ~pendsv
  BY <1>1, Here
<1>3. Quiet(t, "rel_resume", "out")
  <2>1. UNCHANGED <<kernel_ticks, kernel_current_task, attr, ready, blocked_curr,
                    blocked_next, ready_switch_next, waiting>>
    BY <1>1 DEF ReleaseResume, task_resume_all, semVars, UnchangedLists
  <2>2. /\ task_suspended_count' = IF "out" \in Window THEN 1 ELSE 0
        /\ pendsv' = FALSE
    BY <1>1, <1>2 DEF ReleaseResume, task_resume_all, semVars, UnchangedLists
  <2> QED BY <1>1, <2>1, <2>2 DEF Quiet
<1>4. state' \in Int /\ state' <= MaxValue
  BY <1>1, <1>2
<1>5. LocalTypes'
  BY <1>4, LocalsKept DEF ReleaseResume, task_resume_all, semVars
<1>6. CountOf("out", state', Len(waiting)) /\ Units(t, "rel_resume", "out")
  BY <1>1, <1>2 DEF CountOf, Units
<1>7. Caller(t, "out")
  BY <1>1, <1>2 DEF Caller
<1>8. state' < state => t \in User /\ Takes(use, t)
  BY <1>1, <1>2 DEF Caller, Takes, Calls, Timeouts
<1> QED BY <1>1, <1>3, <1>5, <1>6, <1>7, <1>8, QuietStep

\* A task uses a unit up.
LEMMA ConsumeKeeps ==
  ASSUME SemInd, UsedSoundly, NEW t \in Task, Consume(t), use' = use
  PROVE  SemInd'
<1> USE DEF Step, Window, Away, Queued, AcquireStep, TryStep, GrantedStep
<1>1. AtStep(t, "held") /\ Goto(t, "out") /\ state' = state
  BY DEF Consume, semVars
<1>2. /\ task_suspended_count = IF "held" \in Window THEN 1 ELSE 0
      /\ Caller(t, "held") /\ CountOf("held", state, Len(waiting)) /\ Len(waiting) \in Nat
      /\ state \in Int /\ state <= MaxValue /\ MaxValue \in Int /\ 1 <= MaxValue /\ ~pendsv
  BY <1>1, Here
<1>3. Quiet(t, "held", "out")
  <2>1. UNCHANGED <<kernel_ticks, kernel_current_task, attr, ready, blocked_curr,
                    blocked_next, ready_switch_next, waiting>>
    BY <1>1 DEF Consume, semVars, kernelVars
  <2>2. /\ task_suspended_count' = IF "out" \in Window THEN 1 ELSE 0
        /\ pendsv' = FALSE
    BY <1>1, <1>2 DEF Consume, semVars, kernelVars
  <2> QED BY <1>1, <2>1, <2>2 DEF Quiet
<1>4. state' \in Int /\ state' <= MaxValue
  BY <1>1, <1>2
<1>5. LocalTypes'
  BY <1>4, LocalsKept DEF Consume, semVars
<1>6. CountOf("out", state', Len(waiting)) /\ Units(t, "held", "out")
  BY <1>1, <1>2 DEF CountOf, Units
<1>7. Caller(t, "out")
  BY <1>1, <1>2 DEF Caller
<1>8. state' < state => t \in User /\ Takes(use, t)
  BY <1>1, <1>2 DEF Caller, Takes, Calls, Timeouts
<1> QED BY <1>1, <1>3, <1>5, <1>6, <1>7, <1>8, QuietStep

\* A sleeping task gives up the CPU.
LEMMA SleepYieldOutKeeps ==
  ASSUME SemInd, UsedSoundly, NEW t \in Task, SleepYield(t), AtStep(t, "sleep_yield"), use' = use
  PROVE  SemInd'
<1> USE DEF Step, Window, Away, Queued, AcquireStep, TryStep, GrantedStep
<1>1. AtStep(t, "sleep_yield") /\ Goto(t, "out") /\ state' = state
  BY DEF SleepYield, sleep_yield, task_yield, semVars, AtStep
<1>2. /\ task_suspended_count = IF "sleep_yield" \in Window THEN 1 ELSE 0
      /\ Caller(t, "sleep_yield") /\ CountOf("sleep_yield", state, Len(waiting)) /\ Len(waiting) \in Nat
      /\ state \in Int /\ state <= MaxValue /\ MaxValue \in Int /\ 1 <= MaxValue /\ ~pendsv
  BY <1>1, Here
<1>3. Quiet(t, "sleep_yield", "out")
  <2>1. UNCHANGED <<kernel_ticks, kernel_current_task, attr, ready, blocked_curr,
                    blocked_next, ready_switch_next, waiting>>
    BY <1>1 DEF SleepYield, sleep_yield, task_yield, semVars, UnchangedLists
  <2>2. /\ task_suspended_count' = IF "out" \in Window THEN 1 ELSE 0
        /\ pendsv' = TRUE
    BY <1>1, <1>2 DEF SleepYield, sleep_yield, task_yield, semVars, UnchangedLists
  <2> QED BY <1>1, <2>1, <2>2 DEF Quiet
<1>4. state' \in Int /\ state' <= MaxValue
  BY <1>1, <1>2
<1>5. LocalTypes'
  BY <1>4, LocalsKept DEF SleepYield, sleep_yield, task_yield, semVars
<1>6. CountOf("out", state', Len(waiting)) /\ Units(t, "sleep_yield", "out")
  BY <1>1, <1>2 DEF CountOf, Units
<1>7. Caller(t, "out")
  BY <1>1, <1>2 DEF Caller
<1>8. state' < state => t \in User /\ Takes(use, t)
  BY <1>1, <1>2 DEF Caller, Takes, Calls, Timeouts
<1> QED BY <1>1, <1>3, <1>5, <1>6, <1>7, <1>8, QuietStep

\* A task that sleeps with the semaphore gives up the CPU.
LEMMA SleepYieldHeldKeeps ==
  ASSUME SemInd, UsedSoundly, NEW t \in Task, SleepYield(t), AtStep(t, "held_sleep_yield"), use' = use
  PROVE  SemInd'
<1> USE DEF Step, Window, Away, Queued, AcquireStep, TryStep, GrantedStep
<1>1. AtStep(t, "held_sleep_yield") /\ Goto(t, "held") /\ state' = state
  BY DEF SleepYield, sleep_yield, task_yield, semVars, AtStep
<1>2. /\ task_suspended_count = IF "held_sleep_yield" \in Window THEN 1 ELSE 0
      /\ Caller(t, "held_sleep_yield") /\ CountOf("held_sleep_yield", state, Len(waiting)) /\ Len(waiting) \in Nat
      /\ state \in Int /\ state <= MaxValue /\ MaxValue \in Int /\ 1 <= MaxValue /\ ~pendsv
  BY <1>1, Here
<1>3. Quiet(t, "held_sleep_yield", "held")
  <2>1. UNCHANGED <<kernel_ticks, kernel_current_task, attr, ready, blocked_curr,
                    blocked_next, ready_switch_next, waiting>>
    BY <1>1 DEF SleepYield, sleep_yield, task_yield, semVars, UnchangedLists
  <2>2. /\ task_suspended_count' = IF "held" \in Window THEN 1 ELSE 0
        /\ pendsv' = TRUE
    BY <1>1, <1>2 DEF SleepYield, sleep_yield, task_yield, semVars, UnchangedLists
  <2> QED BY <1>1, <2>1, <2>2 DEF Quiet
<1>4. state' \in Int /\ state' <= MaxValue
  BY <1>1, <1>2
<1>5. LocalTypes'
  BY <1>4, LocalsKept DEF SleepYield, sleep_yield, task_yield, semVars
<1>6. CountOf("held", state', Len(waiting)) /\ Units(t, "held_sleep_yield", "held")
  BY <1>1, <1>2 DEF CountOf, Units
<1>7. Caller(t, "held")
  BY <1>1, <1>2 DEF Caller
<1>8. state' < state => t \in User /\ Takes(use, t)
  BY <1>1, <1>2 DEF Caller, Takes, Calls, Timeouts
<1> QED BY <1>1, <1>3, <1>5, <1>6, <1>7, <1>8, QuietStep

\* The idle task yields.
LEMMA IdleYieldKeeps ==
  ASSUME SemInd, UsedSoundly, IdleYield, use' = use
  PROVE  SemInd'
<1> USE DEF Step, Window, Away, Queued, AcquireStep, TryStep, GrantedStep
<1>1. PICK t \in Task : t = IdleTask
  BY IdleIsTask
<1>2. /\ AtStep(t, "out") /\ pendsv' = TRUE /\ pc' = pc
      /\ UNCHANGED <<kernel_ticks, kernel_current_task, attr, ready, blocked_curr,
                     blocked_next, ready_switch_next, waiting, state>>
      /\ task_suspended_count' = task_suspended_count /\ UNCHANGED localVars
  BY <1>1 DEF IdleYield, idle_yield, task_yield, UnchangedLists, semVars
<1>3. /\ task_suspended_count = IF "out" \in Window THEN 1 ELSE 0
      /\ Caller(t, "out") /\ CountOf("out", state, Len(waiting)) /\ state \in Int /\ state <= MaxValue
  BY <1>2, Here
<1>4. Goto(t, "out")
  BY <1>2 DEF Goto, AtStep, SemInd, SemTypes
<1>5. Quiet(t, "out", "out")
  <2>1. task_suspended_count' = 0
    BY <1>2, <1>3
  <2> QED BY <1>2, <1>4, <2>1 DEF Quiet
<1>6. LocalTypes'
  BY <1>2, <1>3, LocalsKept
<1>7. CountOf("out", state', Len(waiting)) /\ Units(t, "out", "out") /\ ~(state' < state)
  BY <1>2, <1>3 DEF Units
<1> QED BY <1>3, <1>5, <1>6, <1>7, QuietStep

-----------------------------------------------------------------------------
(* The steps that move a task *)

\* A task that has seen a unit stays ready, when the lists keep all but another one
\* ready and the state and the current task stay as they are.
LEMMA TryStays ==
  ASSUME SemInd, NEW t \in Task, StayReady(ready, ready', {t}), pc'[t] # "try_take",
         \A u \in Task : u # t => pc'[u] = pc[u],
         state' = state, attr' = attr, kernel_current_task' = kernel_current_task
  PROVE  TrySafe'
<1>1. SUFFICES ASSUME NEW u \in Task, pc'[u] = "try_take"
               PROVE  /\ state >= 1 /\ u \in Range(ready'.list[attr[u].priority])
                      /\ attr[kernel_current_task].priority >= attr[u].priority
  BY DEF TrySafe
<1>2. u # t /\ pc[u] = "try_take"
  BY <1>1
<1>3. /\ state >= 1 /\ u \in Range(ready.list[attr[u].priority])
      /\ attr[kernel_current_task].priority >= attr[u].priority
  BY <1>2 DEF SemInd, TrySafe
<1>4. PICK p \in Priority : p = attr[u].priority
  BY HasPriority DEF SemInd, Lists
<1>5. u \in Range(ready'.list[p])
  BY <1>2, <1>3, <1>4, ReadyStill
<1> QED BY <1>3, <1>4, <1>5

\* The task for which there is no unit waits, behind the others.
LEMMA AcquireWaitKeeps ==
  ASSUME SemInd, NEW t \in Task, AcquireTest(t), must_wait, use' = use
  PROVE  SemInd'
<1> USE DEF Step, Window, Away, Queued, AcquireStep, TryStep, GrantedStep
<1>1. /\ AtStep(t, "acq_test") /\ Goto(t, "acq_resume_yield") /\ state' = state /\ state < 0
      /\ wait_front(waiting, queue_list_push(waiting, front_task)) /\ UNCHANGED localVars
  BY DEF AcquireTest, must_wait
<1>2. /\ task_suspended_count = IF "acq_test" \in Window THEN 1 ELSE 0
      /\ Caller(t, "acq_test") /\ CountOf("acq_test", state, Len(waiting)) /\ Len(waiting) \in Nat
      /\ state \in Int /\ state <= MaxValue /\ MaxValue \in Int /\ pendsv = FALSE
      /\ pc[t] = "acq_test"
  BY <1>1, Here
<1>3. t = kernel_current_task /\ AtFront(ready, attr, t) /\ t \notin Range(waiting)
  BY <1>1, RunsAtFront
<1>4. front_task = t
  BY <1>3 DEF front_task, tasklist_get_front_task, AtFront, CurrentPriority
<1>5. /\ ready' = tasklist_remove_front(ready, attr[t].priority)
      /\ waiting' = Append(waiting, t)
  BY <1>1, <1>3, <1>4, NoTaskAssumption DEF wait_front, queue_list_push, CurrentPriority
<1>6. /\ UNCHANGED <<kernel_ticks, kernel_current_task, attr, blocked_curr, blocked_next,
                     ready_switch_next, task_suspended_count, pendsv>>
  BY <1>1 DEF wait_front, UnchangedScheduler
<1>7. /\ pc' \in [Task -> Step] /\ pc'[t] = "acq_resume_yield"
      /\ \A u \in Task : u # t => pc'[u] = pc[u]
  BY <1>1, Goes DEF SemInd, SemTypes
<1>8. t \in User /\ waiting \in Seq(Task) /\ attr \in [Task -> Attribute]
  BY <1>2 DEF Caller, SemInd, Lists
<1>9. /\ Append(waiting, t) \in Seq(Task)
      /\ IsInsert(Append(waiting, t), waiting, Len(waiting) + 1, t)
      /\ Range(Append(waiting, t)) = Range(waiting) \union {t}
      /\ Len(Append(waiting, t)) = Len(waiting) + 1
  BY <1>8, AppendInserts, AppendRange
<1>10. /\ Lists(ready', blocked_curr', blocked_next', attr', waiting')
       /\ StayReady(ready, ready', {t})
  <2>1. PICK new \in Seq(Task) : new = Append(waiting, t)
    BY <1>9
  <2>2. PICK n \in 1 .. Len(waiting) + 1 : n = Len(waiting) + 1
    BY <1>2
  <2>3. PICK s : s = ready'
    OBVIOUS
  <2>4. /\ Lists(s, blocked_curr, blocked_next, attr, new)
        /\ StayReady(ready, s, {t})
    <3>1. Lists(ready, blocked_curr, blocked_next, attr, waiting)
      BY DEF SemInd
    <3>2. IsInsert(new, waiting, n, t) /\ s = tasklist_remove_front(ready, attr[t].priority)
      BY <1>5, <1>9, <2>1, <2>2, <2>3
    <3> QED BY <1>3, <1>8, <3>1, <3>2, WaitLists
  <2> QED BY <1>5, <1>6, <2>1, <2>3, <2>4
<1>11. SemTypes'
  <2>1. LocalTypes'
    BY <1>1, <1>2, LocalsKept
  <2> QED BY <1>6, <1>7, <2>1 DEF SemTypes, LocalTypes, SemInd, AttrOf
<1>12. FrontRuns'
  BY <1>3, <1>6, <1>7 DEF FrontRuns
<1>13. Windows'
  <2>1. task_suspended_count' = 1 /\ pendsv' = FALSE
    BY <1>2, <1>6
  <2> QED BY <1>3, <1>6, <1>7, <2>1 DEF SemInd, Windows
<1>14. Callers'
  <2>1. ASSUME NEW u \in Task PROVE Caller(u, pc[u])'
    <3>1. Caller(u, pc'[u])
      BY <1>2, <1>7 DEF SemInd, Callers, Caller
    <3> QED BY <3>1 DEF Caller, Calls, Timeouts, User
  <2>2. ASSUME NEW u \in Range(waiting') PROVE pc'[u] \in Queued \union {"held"}
    <3>1. CASE u = t
      BY <1>7, <3>1
    <3>2. CASE u # t
      <4>1. u \in Range(waiting)
        BY <1>5, <1>9, <2>2, <3>2
      <4>2. u \in Task
        BY <4>1, WaiterNotReady DEF SemInd
      <4> QED BY <1>7, <3>2, <4>1, <4>2 DEF SemInd, Callers
    <3> QED BY <3>1, <3>2
  <2>3. "acquire" \in Calls'
    BY <1>2 DEF Caller, Calls
  <2> QED BY <2>1, <2>2, <2>3 DEF Callers
<1>15. Counted'
  <2>1. PICK s \in Int : s = state
    BY <1>2
  <2>2. PICK n \in Nat : n = Len(waiting)
    BY <1>2
  <2>3. s < 0 /\ CountOf("acq_test", s, n)
    BY <1>1, <1>2, <2>1, <2>2
  <2>4. CountOf("acq_resume_yield", s, n + 1)
    BY <2>3 DEF CountOf
  <2>5. pc'[kernel_current_task'] = "acq_resume_yield" /\ Len(waiting') = n + 1
    BY <1>3, <1>5, <1>6, <1>7, <1>9, <2>2
  <2> QED BY <1>1, <2>1, <2>4, <2>5 DEF Counted
<1>16. Summed'
  <2>1. t \in GrantedOf(pc, waiting) /\ t \notin GrantedOf(pc', waiting')
    BY <1>2, <1>3, <1>5, <1>9 DEF GrantedOf
  <2>2. Range(waiting) \subseteq Range(waiting')
    BY <1>5, <1>9
  <2>3. PICK g \in Nat : g = Cardinality(GrantedOf(pc, waiting))
    BY GrantedFinite
  <2>4. PICK h \in Nat : h = Cardinality(GrantedOf(pc', waiting'))
    BY GrantedFinite
  <2>5. h <= g - 1
    BY <1>7, <2>1, <2>2, <2>3, <2>4, GrantedOneLess
  <2>6. PICK n \in Nat : n = Len(waiting)
    BY <1>2
  <2>7. PICK s \in Int : s = state
    BY <1>2
  <2>8. PICK m \in Int : m = MaxValue
    BY <1>2
  <2>9. SUFFICES ASSUME "isr_release" \notin Calls PROVE s + (n + 1) + h <= m
    BY <1>1, <1>5, <1>9, <2>4, <2>6, <2>7, <2>8 DEF Summed, Calls, MaxValue
  <2>10. s + n + g <= m
    BY <2>3, <2>6, <2>7, <2>8, <2>9 DEF SemInd, Summed
  <2> QED BY <2>5, <2>10
<1>17. TrySafe'
  BY <1>1, <1>6, <1>7, <1>10, TryStays
<1>18. Lists(ready, blocked_curr, blocked_next, attr, waiting)'
  BY <1>10
<1> QED BY <1>11, <1>12, <1>13, <1>14, <1>15, <1>16, <1>17, <1>18 DEF SemInd

\* The first of the waiting tasks gets the unit that is released.
LEMMA ReleaseWakesKeeps ==
  ASSUME SemInd, NEW t \in Task, ReleaseWake(t), wakes, use' = use
  PROVE  SemInd'
<1> USE DEF Step, Window, Away, Queued, AcquireStep, TryStep, GrantedStep
<1>1. /\ AtStep(t, "rel_wake") /\ Goto(t, "rel_resume") /\ state' = state /\ state <= 0
      /\ waiting # <<>> /\ waiting' = Tail(waiting)
      /\ ready' = tasklist_append(ready, attr[Head(waiting)].priority, Head(waiting))
      /\ UNCHANGED localVars
      /\ UNCHANGED <<kernel_ticks, kernel_current_task, attr, blocked_curr, blocked_next,
                     ready_switch_next, task_suspended_count, pendsv>>
  BY DEF ReleaseWake, wakes, make_ready, UnchangedScheduler
<1>2. /\ task_suspended_count = IF "rel_wake" \in Window THEN 1 ELSE 0
      /\ Caller(t, "rel_wake") /\ CountOf("rel_wake", state, Len(waiting)) /\ Len(waiting) \in Nat
      /\ state \in Int /\ state <= MaxValue /\ MaxValue \in Int /\ pendsv = FALSE
      /\ pc[t] = "rel_wake"
  BY <1>1, Here
<1>3. t = kernel_current_task /\ AtFront(ready, attr, t) /\ t \notin Range(waiting)
  BY <1>1, RunsAtFront
<1>4. /\ pc' \in [Task -> Step] /\ pc'[t] = "rel_resume"
      /\ \A u \in Task : u # t => pc'[u] = pc[u]
  BY <1>1, Goes DEF SemInd, SemTypes
<1>5. waiting \in Seq(Task) /\ attr \in [Task -> Attribute]
  BY DEF SemInd, Lists
<1>6. /\ Head(waiting) \in Task /\ Len(Tail(waiting)) = Len(waiting) - 1 /\ Len(waiting) > 0
      /\ Range(waiting) \ {Head(waiting)} \subseteq Range(Tail(waiting))
      /\ Range(Tail(waiting)) \subseteq Range(waiting)
  BY <1>1, <1>5, InRange, TailRangeOf
<1>7. /\ Lists(ready', blocked_curr', blocked_next', attr', waiting')
      /\ StayReady(ready, ready', {})
      /\ StayFront(ready, ready', attr)
  <2>1. PICK s : s = ready'
    OBVIOUS
  <2>2. /\ Lists(ready, blocked_curr, blocked_next, attr, waiting)
        /\ s = tasklist_append(ready, attr[Head(waiting)].priority, Head(waiting))
    BY <1>1, <2>1 DEF SemInd
  <2>3. /\ Lists(s, blocked_curr, blocked_next, attr, Tail(waiting))
        /\ StayReady(ready, s, {})
        /\ StayFront(ready, s, attr)
    BY <1>1, <2>2, WakeLists
  <2> QED BY <1>1, <2>1, <2>3
<1>8. SemTypes'
  <2>1. LocalTypes'
    BY <1>1, <1>2, LocalsKept
  <2> QED BY <1>1, <1>4, <2>1 DEF SemTypes, LocalTypes, SemInd, AttrOf
<1>9. FrontRuns'
  <2>1. AtFront(ready', attr', kernel_current_task')
    BY <1>1, <1>3, <1>7 DEF StayFront
  <2> QED BY <2>1 DEF FrontRuns
<1>10. Windows'
  <2>1. task_suspended_count' = 1 /\ pendsv' = FALSE
    BY <1>1, <1>2
  <2> QED BY <1>1, <1>3, <1>4, <2>1 DEF SemInd, Windows
<1>11. Callers'
  <2>1. ASSUME NEW u \in Task PROVE Caller(u, pc[u])'
    <3>1. Caller(u, pc'[u])
      BY <1>2, <1>4 DEF SemInd, Callers, Caller
    <3> QED BY <3>1 DEF Caller, Calls, Timeouts, User
  <2>2. ASSUME NEW u \in Range(waiting') PROVE pc'[u] \in Queued \union {"held"}
    <3>1. u \in Range(waiting) /\ u # t
      BY <1>1, <1>3, <1>6, <2>2
    <3>2. u \in Task
      BY <3>1, WaiterNotReady DEF SemInd
    <3> QED BY <1>4, <3>1, <3>2 DEF SemInd, Callers
  <2>3. "acquire" \in Calls'
    BY <1>1 DEF SemInd, Callers, Calls
  <2> QED BY <2>1, <2>2, <2>3 DEF Callers
<1>12. Counted'
  <2>1. PICK s \in Int : s = state
    BY <1>2
  <2>2. PICK n \in Nat : n = Len(waiting)
    BY <1>2
  <2>3. s <= 0 /\ n > 0 /\ CountOf("rel_wake", s, n)
    BY <1>1, <1>2, <1>6, <2>1, <2>2
  <2>4. CountOf("rel_resume", s, n - 1)
    BY <2>3 DEF CountOf
  <2>5. pc'[kernel_current_task'] = "rel_resume" /\ Len(waiting') = n - 1
    BY <1>1, <1>3, <1>4, <1>6, <2>2
  <2> QED BY <1>1, <2>1, <2>4, <2>5 DEF Counted
<1>13. Summed'
  <2>1. GrantedOf(pc', waiting') \in SUBSET (GrantedOf(pc, waiting) \union {Head(waiting)})
    <3>1. ASSUME NEW u \in GrantedOf(pc', waiting'), u # Head(waiting)
          PROVE  u \in GrantedOf(pc, waiting)
      <4>1. u \in Task /\ pc'[u] \in GrantedStep /\ u \notin Range(Tail(waiting))
        BY <1>1, <3>1 DEF GrantedOf
      <4>2. pc[u] \in GrantedStep
        BY <1>4, <4>1
      <4>3. u \notin Range(waiting)
        BY <1>6, <3>1, <4>1
      <4> QED BY <4>1, <4>2, <4>3 DEF GrantedOf
    <3> QED BY <3>1
  <2>2. IsFiniteSet(GrantedOf(pc, waiting))
    BY GrantedFinite
  <2>3. PICK g \in Nat : g = Cardinality(GrantedOf(pc, waiting))
    BY GrantedFinite
  <2>4. PICK h \in Nat : h = Cardinality(GrantedOf(pc', waiting'))
    BY GrantedFinite
  <2>5. h <= g + 1
    <3>1. /\ IsFiniteSet(GrantedOf(pc, waiting) \union {Head(waiting)})
          /\ \/ Cardinality(GrantedOf(pc, waiting) \union {Head(waiting)}) = g
             \/ Cardinality(GrantedOf(pc, waiting) \union {Head(waiting)}) = g + 1
      BY <2>2, <2>3, FS_AddElement
    <3>2. h <= Cardinality(GrantedOf(pc, waiting) \union {Head(waiting)})
      BY <2>1, <2>4, <3>1, FS_Subset
    <3> QED BY <3>1, <3>2
  <2>6. PICK n \in Nat : n = Len(waiting)
    BY <1>2
  <2>7. PICK s \in Int : s = state
    BY <1>2
  <2>8. PICK m \in Int : m = MaxValue
    BY <1>2
  <2>9. SUFFICES ASSUME "isr_release" \notin Calls PROVE s + (n - 1) + h <= m
    BY <1>1, <1>6, <2>4, <2>6, <2>7, <2>8 DEF Summed, Calls, MaxValue
  <2>10. s + n + g <= m
    BY <2>3, <2>6, <2>7, <2>8, <2>9 DEF SemInd, Summed
  <2> QED BY <2>5, <2>10
<1>14. TrySafe'
  <2>1. StayReady(ready, ready', {t})
    BY <1>7 DEF StayReady
  <2> QED BY <1>1, <1>4, <2>1, TryStays
<1>15. Lists(ready, blocked_curr, blocked_next, attr, waiting)'
  BY <1>7
<1> QED BY <1>8, <1>9, <1>10, <1>11, <1>12, <1>13, <1>14, <1>15 DEF SemInd

\* A task sleeps, with a unit or without.
LEMMA SleepKeeps ==
  ASSUME SemInd, NEW t \in Task, Sleep(t), use' = use
  PROVE  SemInd'
<1> USE DEF Step, Window, Away, Queued, AcquireStep, TryStep, GrantedStep
<1>1. PICK from \in {"out", "held"}, to \in {"sleep_yield", "held_sleep_yield"} :
        /\ from = "held" <=> to = "held_sleep_yield"
        /\ AtStep(t, from) /\ t \in use.sleepers
        /\ sleep_front(kernel_ticks) /\ Goto(t, to)
        /\ UNCHANGED <<kernel_ticks, kernel_current_task, attr, ready_switch_next,
                       task_suspended_count, pendsv>>
  BY DEF Sleep, sleep_one_tick
<1>2. UNCHANGED <<state, waiting>> /\ UNCHANGED localVars
  BY DEF Sleep, semVars
<1>3. /\ task_suspended_count = IF from \in Window THEN 1 ELSE 0
      /\ Caller(t, from) /\ CountOf(from, state, Len(waiting)) /\ Len(waiting) \in Nat
      /\ state \in Int /\ state <= MaxValue /\ pendsv = FALSE /\ pc[t] = from
  BY <1>1, Here
<1>4. t = kernel_current_task /\ AtFront(ready, attr, t) /\ t \notin Range(waiting)
  BY <1>1, RunsAtFront
<1>5. /\ pc' \in [Task -> Step] /\ pc'[t] = to
      /\ \A u \in Task : u # t => pc'[u] = pc[u]
  BY <1>1, Goes DEF SemInd, SemTypes
<1>6. t \in User /\ kernel_ticks \in Tick
  BY <1>1, UseFacts DEF SemInd, SemTypes
<1>7. /\ Lists(ready', blocked_curr', blocked_next', attr', waiting')
      /\ StayReady(ready, ready', {t})
  <2>1. Lists(ready, blocked_curr, blocked_next, attr, waiting)
    BY DEF SemInd
  <2>2. /\ Lists(ready', blocked_curr', blocked_next', attr, waiting)
        /\ StayReady(ready, ready', {kernel_current_task})
    BY <1>1, <1>4, <1>6, <2>1, SleepLists
  <2> QED BY <1>1, <1>2, <1>4, <2>2
<1>8. SemTypes'
  <2>1. LocalTypes'
    BY <1>2, <1>3, LocalsKept
  <2> QED BY <1>1, <1>5, <2>1 DEF SemTypes, LocalTypes, SemInd, AttrOf
<1>9. FrontRuns'
  BY <1>1, <1>4, <1>5 DEF FrontRuns
<1>10. Windows'
  <2>1. task_suspended_count' = 0 /\ pendsv' = FALSE
    BY <1>1, <1>3
  <2> QED BY <1>1, <1>4, <1>5, <2>1 DEF SemInd, Windows
<1>11. Callers'
  <2>1. ASSUME NEW u \in Task PROVE Caller(u, pc[u])'
    <3>1. Caller(u, pc'[u])
      BY <1>1, <1>3, <1>5, <1>6 DEF SemInd, Callers, Caller
    <3> QED BY <3>1 DEF Caller, Calls, Timeouts, User
  <2>2. ASSUME NEW u \in Range(waiting') PROVE pc'[u] \in Queued \union {"held"}
    <3>1. u \in Range(waiting) /\ u # t
      BY <1>2, <1>4, <2>2
    <3>2. u \in Task
      BY <3>1, WaiterNotReady DEF SemInd
    <3> QED BY <1>5, <3>1, <3>2 DEF SemInd, Callers
  <2>3. waiting' # <<>> => "acquire" \in Calls'
    BY <1>2 DEF SemInd, Callers, Calls
  <2> QED BY <2>1, <2>2, <2>3 DEF Callers
<1>12. Counted'
  <2>1. CountOf(to, state, Len(waiting))
    <3>1. from \notin {"acq_test", "rel_wake"} /\ to \notin {"acq_test", "rel_wake"}
      BY <1>1
    <3> QED BY <1>3, <3>1 DEF CountOf
  <2> QED BY <1>1, <1>2, <1>4, <1>5, <2>1 DEF Counted
<1>13. Summed'
  <2>1. pc[t] \in GrantedStep <=> pc'[t] \in GrantedStep
    BY <1>1, <1>3, <1>5
  <2>2. GrantedOf(pc', waiting) = GrantedOf(pc, waiting)
    BY <1>5, <2>1, GrantedStays
  <2> QED BY <1>2, <2>2 DEF SemInd, Summed, Calls, MaxValue
<1>14. TrySafe'
  <2>1. pc'[t] # "try_take"
    BY <1>1, <1>5
  <2> QED BY <1>1, <1>2, <1>5, <1>7, <2>1, TryStays
<1>15. Lists(ready, blocked_curr, blocked_next, attr, waiting)'
  BY <1>7
<1> QED BY <1>8, <1>9, <1>10, <1>11, <1>12, <1>13, <1>14, <1>15 DEF SemInd

-----------------------------------------------------------------------------
(* The handlers, the tick and the context switch *)

LEMMA SemParts == SemInd <=> SemCore /\ Windows
BY DEF SemInd, SemCore

\* What holds of the state and the list, whatever the task that runs does.
LEMMA CoreNumbers ==
  ASSUME SemCore
  PROVE  /\ state \in Int /\ state <= MaxValue /\ MaxValue \in Int /\ 1 <= MaxValue
         /\ Len(waiting) \in Nat /\ CountOf(pc[kernel_current_task], state, Len(waiting))
         /\ kernel_current_task \in Task /\ pc[kernel_current_task] \in Step
BY FewWait, UseFacts DEF SemCore, SemTypes, Counted

LEMMA Numbers ==
  ASSUME SemInd
  PROVE  /\ state \in Int /\ state <= MaxValue /\ MaxValue \in Int /\ 1 <= MaxValue
         /\ Len(waiting) \in Nat /\ CountOf(pc[kernel_current_task], state, Len(waiting))
         /\ kernel_current_task \in Task /\ pc[kernel_current_task] \in Step
BY SemParts, CoreNumbers

\* A handler changes the state and nothing else.
LEMMA HandlerStep ==
  ASSUME SemInd, UNCHANGED <<kernelVars, waiting, pc, localVars, use>>,
         state' \in Int, state' <= MaxValue,
         CountOf(pc[kernel_current_task], state', Len(waiting)),
         "isr_release" \notin Calls => state' <= state,
         \A t \in Task : pc[t] = "try_take" => state' >= 1
  PROVE  SemInd'
<1>1. UNCHANGED <<kernel_ticks, kernel_current_task, attr, ready, blocked_curr, blocked_next,
                  ready_switch_next, task_suspended_count, pendsv, waiting, pc, use,
                  timeout, current_tick>>
  BY DEF kernelVars, localVars
<1>2. /\ SemTypes' /\ FrontRuns' /\ Windows' /\ Callers'
  BY <1>1 DEF SemInd, SemTypes, FrontRuns, Windows, Callers, Caller, Calls, Timeouts,
              MaxValue, AttrOf, User
<1>3. Lists(ready, blocked_curr, blocked_next, attr, waiting)'
  <2>1. Lists(ready', blocked_curr', blocked_next', attr', waiting')
    BY <1>1 DEF SemInd
  <2> QED BY <2>1
<1>4. Counted'
  BY <1>1 DEF Counted
<1>5. TrySafe'
  BY <1>1 DEF SemInd, TrySafe
<1>6. Summed'
  <2>1. PICK g \in Nat : g = Cardinality(GrantedOf(pc, waiting))
    BY GrantedFinite
  <2>2. PICK n \in Nat : n = Len(waiting)
    BY Numbers
  <2>3. PICK s \in Int : s = state
    BY Numbers
  <2>4. PICK s2 \in Int : s2 = state'
    OBVIOUS
  <2>5. PICK m \in Int : m = MaxValue
    BY Numbers
  <2>6. SUFFICES ASSUME "isr_release" \notin Calls PROVE s2 + n + g <= m
    BY <1>1, <2>1, <2>2, <2>4, <2>5 DEF Summed, Calls, MaxValue
  <2>7. s + n + g <= m
    BY <2>1, <2>2, <2>3, <2>5, <2>6 DEF SemInd, Summed
  <2>8. s2 <= s
    BY <2>3, <2>4, <2>6
  <2> QED BY <2>7, <2>8
<1> QED BY <1>2, <1>3, <1>4, <1>5, <1>6 DEF SemInd

\* A handler takes a unit there is, unless a task might have seen it.
LEMMA IsrAcquireKeeps ==
  ASSUME SemInd, UsedSoundly, semaphore_acquire_from_isr, use' = use
  PROVE  SemInd'
<1>1. /\ "isr_acquire" \in Calls /\ state' = state - 1
      /\ UNCHANGED <<kernelVars, waiting, pc, localVars>>
  BY DEF semaphore_acquire_from_isr
<1>2. PICK s \in Int : s = state
  BY Numbers
<1>3. PICK n \in Nat : n = Len(waiting)
  BY Numbers
<1>4. s >= 1
  BY <1>2 DEF semaphore_acquire_from_isr, available
<1>5. state' \in Int /\ state' <= MaxValue /\ state' <= state
  BY <1>1, Numbers
<1>6. CountOf(pc[kernel_current_task], state', Len(waiting))
  <2>1. PICK step : step = pc[kernel_current_task]
    OBVIOUS
  <2>2. CountOf(step, s, n)
    BY <1>2, <1>3, <2>1, Numbers
  <2>3. CountOf(step, s - 1, n)
    BY <1>4, <2>2 DEF CountOf
  <2> QED BY <1>1, <1>2, <1>3, <2>1, <2>3
<1>7. ASSUME NEW t \in Task, pc[t] = "try_take" PROVE FALSE
  <2>1. t \in User /\ use.timeouts[t] # {}
    BY <1>7 DEF SemInd, Callers, Caller, TryStep, Timeouts
  <2> QED BY <1>1, <2>1 DEF UsedSoundly, Sound, Calls
<1> QED BY <1>1, <1>5, <1>6, <1>7, HandlerStep

\* A handler gives a unit to a semaphore for which no task waits.
LEMMA IsrReleaseKeeps ==
  ASSUME SemInd, UsedSoundly, semaphore_release_from_isr, use' = use
  PROVE  SemInd'
<1>1. /\ "isr_release" \in Calls /\ state' = incremented
      /\ UNCHANGED <<kernelVars, waiting, pc, localVars>>
  BY DEF semaphore_release_from_isr
<1>2. "acquire" \notin Calls
  BY <1>1 DEF UsedSoundly, Sound, Calls
<1>3. Len(waiting) = 0
  <2>1. waiting = <<>>
    BY <1>2 DEF SemInd, Callers
  <2> QED BY <2>1
<1>4. PICK s \in Int : s = state
  BY Numbers
<1>5. PICK m \in Int : m = MaxValue /\ s <= m
  BY <1>4, Numbers
<1>6. PICK e \in Int : e = state' /\ e <= m /\ e >= s
  <2>1. CASE s < m
    <3>1. s + 1 \in Int /\ s + 1 <= m /\ s + 1 >= s /\ state' = s + 1
      BY <1>1, <1>4, <1>5, <2>1 DEF incremented
    <3> QED BY <3>1
  <2>2. CASE ~(s < m)
    <3>1. s >= s /\ state' = s
      BY <1>1, <1>4, <1>5, <2>2 DEF incremented
    <3> QED BY <1>5, <3>1
  <2> QED BY <2>1, <2>2
<1>7. CountOf(pc[kernel_current_task], state', Len(waiting))
  <2>1. PICK step : step = pc[kernel_current_task]
    OBVIOUS
  <2>2. CountOf(step, s, 0)
    BY <1>3, <1>4, <2>1, Numbers
  <2>3. step # "acq_test"
    BY <1>2, <2>1, Numbers DEF SemInd, Callers, Caller, AcquireStep
  <2>4. s >= 0
    BY <2>2, <2>3 DEF CountOf
  <2>6. e >= 0
    BY <1>6, <2>4
  <2>5. CountOf(step, e, 0)
    BY <2>6 DEF CountOf
  <2> QED BY <1>3, <1>6, <2>1, <2>5
<1>8. \A t \in Task : pc[t] = "try_take" => state' >= 1
  <2>1. ASSUME NEW t \in Task, pc[t] = "try_take" PROVE e >= 1
    <3>1. s >= 1
      BY <1>4, <2>1 DEF SemInd, TrySafe
    <3> QED BY <1>6, <3>1
  <2> QED BY <1>6, <2>1
<1>9. state' \in Int /\ state' <= MaxValue
  BY <1>5, <1>6
<1> QED BY <1>1, <1>7, <1>8, <1>9, HandlerStep

\* The tick and the context switch leave the semaphore and its callers alone.
LEMMA KernelStep ==
  ASSUME SemCore, UNCHANGED <<semVars, pc, localVars, use>>,
         kernel_ticks' \in Tick, kernel_current_task' \in Task, attr' = attr,
         ready_switch_next' \in BOOLEAN, pendsv' \in BOOLEAN
  PROVE  SemTypes' /\ Callers' /\ Summed'
<1>1. UNCHANGED <<state, waiting, pc, timeout, current_tick, use>>
  BY DEF semVars, localVars
<1>2. SemTypes'
  BY <1>1 DEF SemCore, SemTypes, MaxValue, AttrOf
<1>3. Callers'
  BY <1>1 DEF SemCore, Callers, Caller, Calls, Timeouts, User
<1>4. Summed'
  BY <1>1 DEF SemCore, Summed, Calls, MaxValue
<1> QED BY <1>2, <1>3, <1>4

\* The tick makes a task ready, and asks for a switch unless the scheduler is suspended.
LEMMA TickCore ==
  ASSUME SemCore, TickInterrupt, use' = use
  PROVE  SemCore' /\ (pendsv' = TRUE => pendsv \/ task_suspended_count = 0)
<1>1. /\ SysTick /\ pc' = pc /\ UNCHANGED <<semVars, localVars>>
      /\ kernel_current_task' = kernel_current_task /\ attr' = attr
      /\ task_suspended_count' = task_suspended_count
  BY DEF TickInterrupt, tick_interrupt, SysTick
<1>2. kernel_ticks' \in Tick
  <2>1. kernel_ticks + 1 \in Int
    BY DEF SemCore, SemTypes, Tick
  <2>2. next_tick \in Tick
    BY <2>1, ModTick DEF next_tick
  <2> QED BY <1>1, <2>2 DEF SysTick
<1>3. pendsv' \in BOOLEAN /\ ready_switch_next' \in BOOLEAN
  <2>1. pendsv' = (pendsv \/ need_switch)
    BY <1>1 DEF SysTick
  <2>2. ready_switch_next' = ((ready_switch_next \/ next_tick = 0) /\ ~switch_cycle)
    BY <1>1 DEF SysTick
  <2>3. pendsv' \in BOOLEAN
    BY <2>1, Zenon
  <2>4. ready_switch_next' \in BOOLEAN
    BY <2>2, Zenon
  <2> QED BY <2>3, <2>4
<1>4. SemTypes' /\ Callers' /\ Summed'
  <2>1. kernel_current_task' \in Task
    BY <1>1 DEF SemCore, SemTypes
  <2> QED BY <1>1, <1>2, <1>3, <2>1, KernelStep
<1>5. /\ Lists(ready', blocked_curr', blocked_next', attr', waiting)
      /\ StayReady(ready, ready', {})
      /\ StayFront(ready, ready', attr)
  <2>1. Lists(ready, blocked_curr, blocked_next, attr, waiting) /\ kernel_current_task \in Task
    BY DEF SemCore, SemTypes
  <2> QED BY <1>1, <2>1, TickLists
<1>6. waiting' = waiting /\ state' = state
  BY <1>1 DEF semVars
<1>7. Lists(ready, blocked_curr, blocked_next, attr, waiting)'
  BY <1>5, <1>6
<1>8. FrontRuns'
  <2>1. pendsv => pendsv'
    BY <1>1 DEF SysTick
  <2>2. kernel_current_task \in Task
    BY DEF SemCore, SemTypes
  <2>3. AtFront(ready, attr, kernel_current_task) => AtFront(ready', attr', kernel_current_task')
    BY <1>1, <1>5, <2>2 DEF StayFront
  <2> QED BY <1>1, <2>1, <2>3 DEF SemCore, FrontRuns
<1>10. Counted'
  BY <1>1, <1>6 DEF SemCore, Counted
<1>11. TrySafe'
  <2>1. SUFFICES ASSUME NEW t \in Task, pc[t] = "try_take"
                 PROVE  /\ state >= 1 /\ t \in Range(ready'.list[attr[t].priority])
                        /\ attr[kernel_current_task].priority >= attr[t].priority
    BY <1>1, <1>6 DEF TrySafe
  <2>2. /\ state >= 1 /\ t \in Range(ready.list[attr[t].priority])
        /\ attr[kernel_current_task].priority >= attr[t].priority
    BY <2>1 DEF SemCore, TrySafe
  <2>3. PICK p \in Priority : p = attr[t].priority
    BY HasPriority DEF SemCore, Lists
  <2>4. t \in Range(ready'.list[p])
    BY <1>5, <2>2, <2>3, ReadyStill
  <2> QED BY <2>2, <2>3, <2>4
<1>9. pendsv' = TRUE => pendsv \/ task_suspended_count = 0
  BY <1>1 DEF SysTick, need_switch
<1> QED BY <1>4, <1>7, <1>8, <1>9, <1>10, <1>11 DEF SemCore

\* In a window no switch is asked for.
LEMMA TickKeeps ==
  ASSUME SemInd, TickInterrupt, use' = use
  PROVE  SemInd'
<1>1. /\ pc' = pc /\ kernel_current_task' = kernel_current_task
      /\ task_suspended_count' = task_suspended_count
  BY DEF TickInterrupt, tick_interrupt, SysTick
<1>2. SemCore' /\ (pendsv' = TRUE => pendsv \/ task_suspended_count = 0)
  BY SemParts, TickCore
<1>3. pendsv' \in BOOLEAN
  BY <1>2 DEF SemCore, SemTypes
<1>4. Windows'
  BY <1>1, <1>2, <1>3 DEF SemInd, Windows
<1>5. SemCore' /\ Windows' => SemInd'
  BY DEF SemInd, SemCore
<1> QED BY <1>2, <1>4, <1>5

\* The context switch starts a task at the front, outside of every window.
LEMMA SwitchKeeps ==
  ASSUME SemInd, ContextSwitch, use' = use
  PROVE  SemInd'
<1>1. /\ PendSV /\ pendsv /\ pendsv' = FALSE /\ pc' = pc /\ UNCHANGED <<semVars, localVars>>
      /\ kernel_ticks' = kernel_ticks /\ attr' = attr
      /\ ready_switch_next' = ready_switch_next
      /\ task_suspended_count' = task_suspended_count
  BY DEF ContextSwitch, context_switch, PendSV
<1>2. waiting' = waiting /\ state' = state
  BY <1>1 DEF semVars
<1>3. /\ Lists(ready', blocked_curr', blocked_next', attr', waiting)
      /\ StayReady(ready, ready', {})
      /\ kernel_current_task' \in Task /\ AtFront(ready', attr', kernel_current_task')
      /\ \A p \in Priority : ready'.list[p] # <<>> => p <= attr'[kernel_current_task'].priority
  <2>1. Lists(ready, blocked_curr, blocked_next, attr, waiting) /\ kernel_current_task \in Task
    BY DEF SemInd, SemTypes
  <2> QED BY <1>1, <2>1, SwitchLists
<1>4. SemTypes' /\ Callers' /\ Summed'
  <2>1. kernel_ticks' \in Tick /\ ready_switch_next' \in BOOLEAN /\ pendsv' \in BOOLEAN
    BY <1>1 DEF SemInd, SemTypes
  <2> QED BY <1>1, <1>3, <2>1, SemParts, KernelStep
<1>5. Lists(ready, blocked_curr, blocked_next, attr, waiting)'
  BY <1>2, <1>3
<1>6. FrontRuns'
  BY <1>3 DEF FrontRuns
<1>7. \A t \in Task : pc[t] \notin Window
  BY <1>1 DEF SemInd, Windows
<1>8. Windows'
  <2>1. task_suspended_count = 0
    BY <1>7, Numbers DEF SemInd, Windows
  <2> QED BY <1>1, <1>3, <1>7, <2>1 DEF Windows
<1>9. Counted'
  <2>1. PICK from : from = pc[kernel_current_task]
    OBVIOUS
  <2>2. PICK to : to = pc[kernel_current_task']
    OBVIOUS
  <2>3. from \notin {"acq_test", "rel_wake"} /\ to \notin {"acq_test", "rel_wake"}
    BY <1>3, <1>7, <2>1, <2>2, Numbers DEF Window
  <2>4. CountOf(from, state, Len(waiting))
    BY <2>1, Numbers
  <2>5. CountOf(to, state, Len(waiting))
    BY <2>3, <2>4 DEF CountOf
  <2> QED BY <1>1, <1>2, <2>2, <2>5 DEF Counted
<1>10. TrySafe'
  <2>1. SUFFICES ASSUME NEW t \in Task, pc[t] = "try_take"
                 PROVE  /\ state >= 1 /\ t \in Range(ready'.list[attr[t].priority])
                        /\ attr[kernel_current_task'].priority >= attr[t].priority
    BY <1>1, <1>2 DEF TrySafe
  <2>2. /\ state >= 1 /\ t \in Range(ready.list[attr[t].priority])
    BY <2>1 DEF SemInd, TrySafe
  <2>3. PICK p \in Priority : p = attr[t].priority
    BY HasPriority DEF SemInd, Lists
  <2>10. t \in Range(ready.list[p]) /\ t \notin {} /\ StayReady(ready, ready', {})
    BY <1>3, <2>2, <2>3
  <2>4. t \in Range(ready'.list[p])
    BY <2>10, ReadyStill
  <2>5. ready'.list[p] # <<>>
    BY <2>4 DEF Range
  <2>6. p <= attr[kernel_current_task'].priority
    BY <1>1, <1>3, <2>5
  <2>7. attr[kernel_current_task'].priority \in Int
    <3>1. PICK c \in Task : c = kernel_current_task'
      BY <1>3
    <3>2. attr[c].priority \in Priority
      BY HasPriority DEF SemInd, Lists
    <3> QED BY <3>1, <3>2 DEF Priority
  <2>8. p \in Int
    BY DEF Priority
  <2>9. attr[kernel_current_task'].priority >= p
    BY <2>6, <2>7, <2>8
  <2> QED BY <2>2, <2>3, <2>4, <2>9
<1> QED BY <1>4, <1>5, <1>6, <1>8, <1>9, <1>10 DEF SemInd

-----------------------------------------------------------------------------
(* The theorems *)

LEMMA SemInit ==
  ASSUME Init
  PROVE  SemInd /\ attr = AttrOf
<1>1. /\ use \in Uses /\ KernelStarted(Created, AttrOf) /\ state = use.init /\ waiting = <<>>
      /\ pc = [t \in Task |-> "out"]
      /\ timeout = [t \in Task |-> 0] /\ current_tick = [t \in Task |-> 0]
  BY DEF Init
<1>2. PICK a \in [Task -> Attribute] : a = AttrOf
  BY <1>1, UseFacts
<1>3. /\ Lists(ready, blocked_curr, blocked_next, attr, <<>>)
      /\ kernel_current_task \in Task /\ AtFront(ready, attr, kernel_current_task)
  BY <1>1, <1>2, StartedLists
<1>4. /\ kernel_ticks = 0 /\ attr = AttrOf /\ ready_switch_next = FALSE
      /\ task_suspended_count = 0 /\ pendsv = FALSE
  BY <1>1 DEF KernelStarted
<1>5. 0 \in Tick
  BY TickModAssumption DEF Tick
<1>6. /\ state \in Int /\ 0 <= state /\ state <= MaxValue /\ MaxValue \in Int
  BY <1>1, UseFacts
<1>7. SemTypes
  BY <1>1, <1>3, <1>4, <1>5, <1>6 DEF SemTypes, Step
<1>8. FrontRuns
  BY <1>3 DEF FrontRuns
<1>9. Windows
  BY <1>1, <1>3, <1>4 DEF Windows, Window
<1>10. Callers
  BY <1>1 DEF Callers, Caller, AcquireStep, TryStep, GrantedStep, Range
<1>11. Counted
  BY <1>1, <1>3, <1>6 DEF Counted, CountOf
<1>12. Summed
  <2>1. GrantedOf(pc, waiting) = {}
    BY <1>1 DEF GrantedOf, GrantedStep
  <2>2. Cardinality(GrantedOf(pc, waiting)) = 0 /\ Len(waiting) = 0
    BY <1>1, <2>1, FS_EmptySet
  <2> QED BY <1>6, <2>2 DEF Summed
<1>13. TrySafe
  BY <1>1 DEF TrySafe
<1> QED BY <1>1, <1>3, <1>4, <1>7, <1>8, <1>9, <1>10, <1>11, <1>12, <1>13 DEF SemInd

LEMMA SemNext ==
  ASSUME SemInd, UsedSoundly, [Next]_<<vars, use>>
  PROVE  SemInd'
<1>1. CASE UNCHANGED <<vars, use>>
  <2>1. UNCHANGED <<kernelVars, waiting, pc, localVars, use>> /\ state' = state
    BY <1>1 DEF vars, semVars
  <2>2. \A t \in Task : pc[t] = "try_take" => state >= 1
    BY DEF SemInd, TrySafe
  <2> QED BY <2>1, <2>2, Numbers, HandlerStep
<1>2. CASE Next
  <2>1. use' = use
    BY <1>2 DEF Next
  <2>2. CASE TickInterrupt
    BY <2>1, <2>2, TickKeeps
  <2>3. CASE ContextSwitch
    BY <2>1, <2>3, SwitchKeeps
  <2>4. CASE semaphore_acquire_from_isr
    BY <2>1, <2>4, IsrAcquireKeeps
  <2>5. CASE semaphore_release_from_isr
    BY <2>1, <2>5, IsrReleaseKeeps
  <2>6. CASE IdleYield
    BY <2>1, <2>6, IdleYieldKeeps
  <2>7. ASSUME NEW t \in Task, Call(t) PROVE SemInd'
    BY <2>1, <2>7, AcquireSuspendKeeps, TryAcquireKeeps, ReleaseSuspendKeeps, ConsumeKeeps,
       SleepKeeps DEF Call
  <2>8. ASSUME NEW t \in Task, InCall(t) PROVE SemInd'
    <3>1. CASE AcquireDec(t) \/ AcquireYield(t) \/ TryTake(t) \/ TryYield(t) \/ ReleaseInc(t)
               \/ ReleaseResume(t)
      BY <2>1, <3>1, AcquireDecKeeps, AcquireYieldKeeps, TryTakeKeeps, TryYieldKeeps,
         ReleaseIncKeeps, ReleaseResumeKeeps
    <3>2. CASE AcquireTest(t)
      BY <2>1, <3>2, AcquireWaitKeeps, AcquireGoesOnKeeps
    <3>3. CASE AcquireResume(t)
      <4>1. AtStep(t, "acq_resume") \/ AtStep(t, "acq_resume_yield")
        BY <3>3 DEF AcquireResume
      <4> QED BY <2>1, <3>3, <4>1, AcquireResumeHeldKeeps, AcquireResumeYieldKeeps
    <3>4. CASE TryTest(t)
      BY <2>1, <3>4, TryTestTakeKeeps, TryTestTimeKeeps
    <3>5. CASE TryTime(t)
      BY <2>1, <3>5, TryTimeOutKeeps, TryTimeRunsKeeps
    <3>6. CASE ReleaseWake(t)
      BY <2>1, <3>6, ReleaseWakesKeeps, ReleaseNoWakeKeeps
    <3>7. CASE SleepYield(t)
      <4>1. AtStep(t, "sleep_yield") \/ AtStep(t, "held_sleep_yield")
        BY <3>7 DEF SleepYield, sleep_yield
      <4> QED BY <2>1, <3>7, <4>1, SleepYieldOutKeeps, SleepYieldHeldKeeps
    <3> QED BY <2>8, <3>1, <3>2, <3>3, <3>4, <3>5, <3>6, <3>7 DEF InCall
  <2> QED BY <1>2, <2>2, <2>3, <2>4, <2>5, <2>6, <2>7, <2>8 DEF Next
<1> QED BY <1>1, <1>2

\* No function of the semaphore changes a priority.
LEMMA AttrKept ==
  ASSUME [Next]_<<vars, use>>
  PROVE  UNCHANGED <<attr, use>>
<1>1. CASE UNCHANGED <<vars, use>>
  BY <1>1 DEF vars, kernelVars
<1>2. CASE Next
  <2>1. use' = use
    BY <1>2 DEF Next
  <2>2. CASE TickInterrupt \/ ContextSwitch
    BY <2>1, <2>2 DEF TickInterrupt, tick_interrupt, SysTick, ContextSwitch, context_switch, PendSV
  <2>3. CASE semaphore_acquire_from_isr \/ semaphore_release_from_isr \/ IdleYield
    BY <2>1, <2>3 DEF semaphore_acquire_from_isr, semaphore_release_from_isr, IdleYield,
       idle_yield, task_yield, UnchangedLists, kernelVars
  <2>4. ASSUME NEW t \in Task, Call(t) PROVE attr' = attr
    BY <2>4 DEF Call, AcquireSuspend, TryAcquire, ReleaseSuspend, Consume, Sleep,
       sleep_one_tick, task_suspend_all, UnchangedLists, kernelVars
  <2>5. ASSUME NEW t \in Task, InCall(t) PROVE attr' = attr
    <3>1. CASE AcquireDec(t) \/ AcquireResume(t) \/ AcquireYield(t)
      BY <3>1 DEF AcquireDec, AcquireResume, AcquireYield, task_resume_all, task_yield,
         UnchangedLists, kernelVars
    <3>2. CASE AcquireTest(t) \/ ReleaseWake(t)
      BY <3>2 DEF AcquireTest, ReleaseWake, wait_front, UnchangedScheduler, kernelVars
    <3>3. CASE TryTest(t) \/ TryTake(t) \/ TryTime(t) \/ TryYield(t)
      BY <3>3 DEF TryTest, TryTake, TryTime, TryYield, task_yield, UnchangedLists, kernelVars
    <3>4. CASE ReleaseInc(t) \/ ReleaseResume(t) \/ SleepYield(t)
      BY <3>4 DEF ReleaseInc, ReleaseResume, SleepYield, sleep_yield, task_resume_all, task_yield,
         UnchangedLists, kernelVars
    <3> QED BY <2>5, <3>1, <3>2, <3>3, <3>4 DEF InCall
  <2> QED BY <1>2, <2>1, <2>2, <2>3, <2>4, <2>5 DEF Next
<1> QED BY <1>1, <1>2

\* The invariant holds of every system that uses the semaphore soundly.
LEMMA SemInvariance ==
  ASSUME \A u \in Uses : Sound(u)
  PROVE  FairSpec => [](SemInd /\ attr = AttrOf)
<1>1. Init => SemInd /\ attr = AttrOf
  BY SemInit
<1>2. (SemInd /\ attr = AttrOf) /\ [Next]_<<vars, use>> => (SemInd /\ attr = AttrOf)'
  <2>1. SUFFICES ASSUME SemInd, attr = AttrOf, [Next]_<<vars, use>>
                 PROVE  SemInd' /\ attr' = AttrOf'
    OBVIOUS
  <2>2. UsedSoundly
    BY <2>1 DEF UsedSoundly, SemInd, SemTypes
  <2>3. attr' = AttrOf'
    BY <2>1, AttrKept DEF AttrOf
  <2> QED BY <2>1, <2>2, <2>3, SemNext
<1> QED BY <1>1, <1>2, PTL DEF FairSpec

\* The types, and the bound of the state.
LEMMA CoreTypeOK ==
  ASSUME SemCore, task_suspended_count \in Nat
  PROVE  TypeOK
<1>1. PICK s \in Int : s = state /\ s <= MaxValue
  BY CoreNumbers
<1>2. PICK n \in Nat : n = Len(waiting)
  BY CoreNumbers
<1>3. PICK step : step = pc[kernel_current_task]
  OBVIOUS
<1>4. CountOf(step, s, n)
  BY <1>1, <1>2, <1>3, CoreNumbers
<1>5. PICK c \in Nat : c = Len(Created)
  BY IdleIsTask
<1>6. n <= c - 1
  BY <1>2, <1>5, FewWait DEF SemCore
<1>7. -c <= s
  BY <1>4, <1>6 DEF CountOf
<1>8. state \in -Len(Created) .. MaxValue
  BY <1>1, <1>5, <1>7, CoreNumbers
<1>9. KernelTypeOK
  <2>1. /\ kernel_ticks \in Tick /\ kernel_current_task \in Task
        /\ ready_switch_next \in BOOLEAN /\ pendsv \in BOOLEAN
        /\ attr \in [Task -> Attribute] /\ ready \in ReadyType
        /\ blocked_curr \in Seq(Sleeper) /\ blocked_next \in Seq(Sleeper)
    BY DEF SemCore, SemTypes, Lists
  <2> QED BY <2>1 DEF KernelTypeOK, ReadyType
<1> QED BY <1>8, <1>9 DEF TypeOK, SemCore, SemTypes, Lists

\* Outside of the windows a negative state is the number of the tasks that wait, and
\* otherwise none waits; the state never falls below minus the number of the tasks.
THEOREM SemaphoreCounts ==
  ASSUME \A u \in Uses : Sound(u)
  PROVE  FairSpec => []SemaphoreInv
<1>1. SemInd => SemaphoreInv
  <2>1. SUFFICES ASSUME SemInd PROVE SemaphoreInv
    OBVIOUS
  <2>2. task_suspended_count \in Nat
    BY <2>1 DEF SemInd, Windows
  <2>3. TypeOK
    BY <2>1, <2>2, SemParts, CoreTypeOK
  <2>4. WaitersCounted
    <3>1. SUFFICES ASSUME task_suspended_count = 0
                   PROVE  Len(waiting) = IF state < 0 THEN -state ELSE 0
      BY DEF WaitersCounted
    <3>2. PICK s \in Int : s = state
      BY <2>1, Numbers
    <3>3. PICK n \in Nat : n = Len(waiting)
      BY <2>1, Numbers
    <3>4. PICK step : step = pc[kernel_current_task]
      OBVIOUS
    <3>5. step \notin {"acq_test", "rel_wake"}
      BY <2>1, <3>1, <3>4 DEF SemInd, Windows, Window
    <3>6. CountOf(step, s, n)
      BY <2>1, <3>2, <3>3, <3>4, Numbers
    <3>7. n = IF s < 0 THEN -s ELSE 0
      BY <3>5, <3>6 DEF CountOf
    <3> QED BY <3>2, <3>3, <3>7
  <2> QED BY <2>3, <2>4 DEF SemaphoreInv
<1> QED BY <1>1, SemInvariance, PTL

\* No more tasks hold the semaphore than its maximum: with a maximum of 1 the code
\* between acquire and release is a critical section.
THEOREM HoldersStayBounded ==
  ASSUME \A u \in Uses : Sound(u) /\ Few(u)
  PROVE  FairSpec => []HoldersBounded
<1>1. SemInd => HoldersBounded
  <2>1. SUFFICES ASSUME SemInd PROVE Cardinality(Holding) <= MaxValue
    BY DEF HoldersBounded
  <2>2. use \in Uses /\ Few(use)
    BY <2>1 DEF SemInd, SemTypes
  <2>3. Holding \in SUBSET GrantedOf(pc, waiting)
    BY DEF Holding, GrantedOf, GrantedStep
  <2>4. IsFiniteSet(GrantedOf(pc, waiting))
    BY GrantedFinite
  <2>5. PICK g \in Nat : g = Cardinality(GrantedOf(pc, waiting))
    BY GrantedFinite
  <2>6. IsFiniteSet(Holding) /\ Cardinality(Holding) <= g
    BY <2>3, <2>4, <2>5, FS_Subset
  <2>7. PICK h \in Nat : h = Cardinality(Holding)
    BY <2>6, FS_CardinalityType
  <2>8. PICK m \in Int : m = MaxValue
    BY <2>1, Numbers
  <2>9. CASE "isr_release" \in Calls
    <3>1. Cardinality({t \in User : Takes(use, t)}) <= MaxValue
      BY <2>2, <2>9 DEF Few, Calls, MaxValue
    <3>2. Holding \in SUBSET {t \in User : Takes(use, t)}
      BY <2>1 DEF Holding, SemInd, Callers, Caller, GrantedStep
    <3>3. {t \in User : Takes(use, t)} \in SUBSET Task
      BY DEF User
    <3>4. IsFiniteSet({t \in User : Takes(use, t)})
      BY <3>3, TasksFinite, FS_Subset
    <3>5. h <= Cardinality({t \in User : Takes(use, t)})
      BY <2>7, <3>2, <3>4, FS_Subset
    <3>6. PICK k \in Nat : k = Cardinality({t \in User : Takes(use, t)})
      BY <3>4, FS_CardinalityType
    <3>7. h <= m
      BY <2>8, <3>1, <3>5, <3>6
    <3> QED BY <2>7, <2>8, <3>7
  <2>10. CASE "isr_release" \notin Calls
    <3>1. PICK s \in Int : s = state
      BY <2>1, Numbers
    <3>2. PICK n \in Nat : n = Len(waiting)
      BY <2>1, Numbers
    <3>3. s + n + g <= m
      BY <2>1, <2>5, <2>8, <2>10, <3>1, <3>2 DEF SemInd, Summed
    <3>4. PICK step : step = pc[kernel_current_task]
      OBVIOUS
    <3>5. CountOf(step, s, n)
      BY <2>1, <3>1, <3>2, <3>4, Numbers
    <3>6. CASE step = "acq_test"
      <4>1. kernel_current_task \notin Range(waiting) /\ kernel_current_task \in Task
        <5>1. ASSUME kernel_current_task \in Range(waiting) PROVE FALSE
          BY <2>1, <3>4, <3>6, <5>1 DEF SemInd, Callers, Queued
        <5> QED BY <2>1, <5>1, Numbers
      <4>2. kernel_current_task \in GrantedOf(pc, waiting) /\ kernel_current_task \notin Holding
        BY <3>4, <3>6, <4>1 DEF GrantedOf, GrantedStep, Holding
      <4>3. Holding \in SUBSET (GrantedOf(pc, waiting) \ {kernel_current_task})
        BY <2>3, <4>2
      <4>4. /\ IsFiniteSet(GrantedOf(pc, waiting) \ {kernel_current_task})
            /\ Cardinality(GrantedOf(pc, waiting) \ {kernel_current_task}) = g - 1
        BY <2>4, <2>5, <4>2, FS_RemoveElement
      <4>5. h <= g - 1
        BY <2>7, <4>3, <4>4, FS_Subset
      <4>6. s + n >= -1
        BY <3>5, <3>6 DEF CountOf
      <4>7. h <= m
        BY <3>3, <4>5, <4>6
      <4> QED BY <2>7, <2>8, <4>7
    <3>7. CASE step # "acq_test"
      <4>1. s + n >= 0
        BY <3>5, <3>7 DEF CountOf
      <4>2. h <= g
        BY <2>6, <2>7
      <4>3. h <= m
        BY <3>3, <4>1, <4>2
      <4> QED BY <2>7, <2>8, <4>3
    <3> QED BY <3>6, <3>7
  <2> QED BY <2>9, <2>10
<1>2. \A u \in Uses : Sound(u)
  OBVIOUS
<1>3. FairSpec => [](SemInd /\ attr = AttrOf)
  BY <1>2, SemInvariance
<1> QED BY <1>1, <1>3, PTL

-----------------------------------------------------------------------------
(* The inductive invariant of the mutex *)

\* The steps in the windows in which the priority is exchanged.
SwapWindow == {"lock_swap", "lock_resume", "unlock_swap", "unlock_resume"}

\* The task is the owner.
Owning == MutexStep \ {"lock_owner", "release"}

\* The task has the priority of the ceiling.
Raised == {"lock_resume", "locked", "unlock_suspend", "unlock_swap"}

InSwap == mpc[kernel_current_task] \in SwapWindow

\* The windows of the mutex are not those of the semaphore.
SwapWindows ==
  IF InSwap
    THEN /\ task_suspended_count = 1 /\ ~pendsv
         /\ \A t \in Task : pc[t] \notin Window
    ELSE Windows

MutexTypes ==
  /\ use.mutex
  /\ owner \in Task \union {NoTask} /\ ceiling_priority \in Priority
  /\ mpc \in [Task -> MutexStep]

\* A task inside the functions of the mutex holds the semaphore, and it runs when it
\* exchanges its priority.
MutexCallers ==
  \A t \in Task :
    /\ mpc[t] # "lock_owner" => pc[t] \in {"held", "held_sleep_yield"} /\ t \notin Range(waiting)
    /\ mpc[t] \notin {"lock_owner", "locked"} => pc[t] = "held"
    /\ mpc[t] \in SwapWindow => t = kernel_current_task

OwnerOwns == \A t \in Task : owner = t <=> mpc[t] \in Owning

\* Either a task is raised and the mutex keeps its priority, or none is.
Exchanged ==
  /\ \A t \in Task :
       IF mpc[t] \in Raised
         THEN /\ attr[t] = [AttrOf[t] EXCEPT !.priority = Ceiling]
              /\ ceiling_priority = AttrOf[t].priority
         ELSE attr[t] = AttrOf[t]
  /\ (\A t \in Task : mpc[t] \notin Raised) => ceiling_priority = Ceiling

MutexInd ==
  SemCore /\ SwapWindows /\ MutexTypes /\ MutexCallers /\ OwnerOwns /\ Exchanged

-----------------------------------------------------------------------------
(* Facts about the mutex in one state *)

\* What the use of the mutex is.
LEMMA MutexUse ==
  ASSUME use \in Uses, use.mutex
  PROVE  /\ Ceiling \in Priority /\ MaxValue = 1
         /\ "isr_release" \notin Calls /\ "isr_acquire" \notin Calls
BY MutexAssumption DEF Ceiling, MaxValue, Calls, MutexUses

\* One task at most has got the semaphore, and then there is nothing left of it.
LEMMA OneGranted ==
  ASSUME SemCore, use.mutex, NEW t \in GrantedOf(pc, waiting)
  PROVE  /\ state < 1
         /\ pc[kernel_current_task] # "acq_test" => \A u \in GrantedOf(pc, waiting) : u = t
<1>1. use \in Uses
  BY DEF SemCore, SemTypes
<1>2. PICK s \in Int : s = state
  BY CoreNumbers
<1>3. PICK n \in Nat : n = Len(waiting)
  BY CoreNumbers
<1>4. IsFiniteSet(GrantedOf(pc, waiting))
  BY GrantedFinite
<1>5. PICK g \in Nat : g = Cardinality(GrantedOf(pc, waiting))
  BY GrantedFinite
<1>6. s + n + g <= 1
  BY <1>1, <1>2, <1>3, <1>5, MutexUse DEF SemCore, Summed
<1>7. g # 0
  BY <1>4, <1>5, FS_EmptySet
<1>8. s < 1
  BY <1>3, <1>5, <1>6, <1>7
<1>9. PICK step : step = pc[kernel_current_task]
  OBVIOUS
<1>10. CountOf(step, s, n)
  BY <1>2, <1>3, <1>9, CoreNumbers
<1>11. ASSUME step # "acq_test" PROVE \A u \in GrantedOf(pc, waiting) : u = t
  <2>1. s + n >= 0
    BY <1>10, <1>11 DEF CountOf
  <2>2. g = 1
    BY <1>5, <1>6, <1>7, <2>1
  <2>3. \E x : GrantedOf(pc, waiting) = {x}
    BY <1>4, <1>5, <2>2, FS_Singleton
  <2> QED BY <2>3
<1> QED BY <1>2, <1>8, <1>9, <1>11

\* A task in the functions of the mutex has got the semaphore.
LEMMA InsideGranted ==
  ASSUME MutexInd, NEW t \in Task, mpc[t] # "lock_owner"
  PROVE  t \in GrantedOf(pc, waiting) /\ t \in User /\ Takes(use, t)
<1>1. pc[t] \in {"held", "held_sleep_yield"} /\ t \notin Range(waiting)
  BY DEF MutexInd, MutexCallers
<1>2. Caller(t, pc[t])
  BY DEF MutexInd, SemCore, Callers
<1> QED BY <1>1, <1>2 DEF GrantedOf, GrantedStep, Caller

\* Without a raised task all have their own priorities.
LEMMA NoneRaised ==
  ASSUME MutexInd, \A t \in Task : mpc[t] \notin Raised
  PROVE  attr = AttrOf /\ ceiling_priority = Ceiling
<1>1. attr \in [Task -> Attribute] /\ AttrOf \in [Task -> Attribute]
  BY UseFacts DEF MutexInd, SemCore, SemTypes, Lists
<1>2. (\A t \in Task : attr[t] = AttrOf[t]) /\ ceiling_priority = Ceiling
  BY DEF MutexInd, Exchanged
<1> QED BY <1>1, <1>2

\* While a task may take a unit of the semaphore no priority is exchanged.
LEMMA MutexUsedSoundly ==
  ASSUME MutexInd, Sound(use)
  PROVE  UsedSoundly
<1>1. SUFFICES ASSUME NEW t \in Task, pc[t] = "try_take" PROVE attr = AttrOf
  BY DEF UsedSoundly
<1>2. state >= 1 /\ state \in Int
  BY <1>1, CoreNumbers DEF MutexInd, SemCore, TrySafe
<1>3. ASSUME NEW u \in Task PROVE mpc[u] \notin Raised
  <2>1. SUFFICES ASSUME mpc[u] # "lock_owner" PROVE FALSE
    BY DEF Raised
  <2>2. SemCore /\ use.mutex /\ u \in GrantedOf(pc, waiting)
    BY <2>1, InsideGranted DEF MutexInd, MutexTypes
  <2>3. state < 1
    BY <2>2, OneGranted
  <2> QED BY <1>2, <2>3
<1> QED BY <1>3, NoneRaised

\* Outside of the windows of the mutex the invariant of the semaphore holds.
LEMMA OutsideSwap ==
  ASSUME MutexInd, ~InSwap
  PROVE  SemInd
BY SemParts DEF MutexInd, SwapWindows

\* Where a task in a function of the mutex is.
LEMMA InsideHere ==
  ASSUME MutexInd, NEW t \in Task, NEW from, AtMutexStep(t, from)
  PROVE  /\ t = kernel_current_task /\ pendsv = FALSE /\ pc[t] = "held" /\ mpc[t] = from
         /\ AtFront(ready, attr, t) /\ t \notin Range(waiting)
         /\ t \in User /\ Takes(use, t)
<1>1. t = kernel_current_task /\ ~pendsv /\ pc[t] = "held" /\ mpc[t] = from
  BY DEF AtMutexStep, AtStep
<1>2. pendsv = FALSE
  BY <1>1 DEF MutexInd, SemCore, SemTypes
<1>3. AtFront(ready, attr, t)
  BY <1>1 DEF MutexInd, SemCore, FrontRuns, Away
<1>4. t \notin Range(waiting)
  BY <1>3, FrontIsReady DEF MutexInd, SemCore
<1>5. Caller(t, "held")
  BY <1>1 DEF MutexInd, SemCore, Callers
<1> QED BY <1>1, <1>2, <1>3, <1>4, <1>5 DEF Caller, GrantedStep

-----------------------------------------------------------------------------
(* The steps of the mutex *)

\* The steps of the tasks after one of t.
LEMMA MutexGoes ==
  ASSUME MutexInd, NEW t \in Task, NEW to \in MutexStep, MutexGoto(t, to)
  PROVE  /\ mpc' \in [Task -> MutexStep] /\ mpc'[t] = to
         /\ \A u \in Task : u # t => mpc'[u] = mpc[u]
BY DEF MutexInd, MutexTypes, MutexGoto

\* The tasks stay where they are.
LEMMA GoesCallers ==
  ASSUME MutexInd, NEW t \in Task, NEW from, AtMutexStep(t, from),
         NEW to \in MutexStep, MutexGoto(t, to),
         UNCHANGED <<pc, waiting, kernel_current_task>>
  PROVE  MutexCallers' /\ (InSwap' <=> to \in SwapWindow)
<1>1. /\ t = kernel_current_task /\ pc[t] = "held" /\ t \notin Range(waiting)
  BY InsideHere
<1>2. /\ mpc'[t] = to /\ \A u \in Task : u # t => mpc'[u] = mpc[u]
  BY MutexGoes
<1>3. MutexCallers'
  BY <1>1, <1>2 DEF MutexInd, MutexCallers
<1>4. InSwap' <=> to \in SwapWindow
  BY <1>1, <1>2 DEF InSwap
<1> QED BY <1>3, <1>4

\* A step that does not raise the task or restore it.
LEMMA GoesExchanged ==
  ASSUME MutexInd, NEW t \in Task, NEW to \in MutexStep, MutexGoto(t, to),
         mpc[t] \in Raised <=> to \in Raised,
         UNCHANGED <<attr, ceiling_priority, use>>
  PROVE  Exchanged'
<1>1. \A u \in Task : mpc'[u] \in Raised <=> mpc[u] \in Raised
  BY MutexGoes
<1>2. AttrOf' = AttrOf /\ Ceiling' = Ceiling /\ attr' = attr /\ ceiling_priority' = ceiling_priority
  BY DEF AttrOf, Ceiling
<1> QED BY <1>1, <1>2 DEF MutexInd, Exchanged

\* A step that does not change the owner.
LEMMA GoesOwner ==
  ASSUME MutexInd, NEW t \in Task, NEW to \in MutexStep, MutexGoto(t, to),
         mpc[t] \in Owning <=> to \in Owning, owner' = owner
  PROVE  OwnerOwns'
<1>1. \A u \in Task : mpc'[u] \in Owning <=> mpc[u] \in Owning
  BY MutexGoes
<1> QED BY <1>1 DEF MutexInd, OwnerOwns

\* The semaphore does not change, nor what its invariant says.
LEMMA CoreSame ==
  ASSUME SemCore, UNCHANGED <<kernel_ticks, kernel_current_task, attr, ready, blocked_curr,
         blocked_next, ready_switch_next, pendsv, pc, semVars, localVars, use>>
  PROVE  SemCore'
<1>1. UNCHANGED <<kernel_ticks, kernel_current_task, attr, ready, blocked_curr, blocked_next,
                  ready_switch_next, pendsv, waiting, state, pc, use, timeout, current_tick>>
  BY DEF semVars, localVars
<1>2. /\ SemTypes' /\ FrontRuns' /\ Callers'
  BY <1>1 DEF SemCore, SemTypes, FrontRuns, Callers, Caller, Calls, Timeouts,
              MaxValue, AttrOf, User
<1>3. Lists(ready, blocked_curr, blocked_next, attr, waiting)'
  <2>1. Lists(ready', blocked_curr', blocked_next', attr', waiting')
    BY <1>1 DEF SemCore
  <2> QED BY <2>1
<1>4. Counted'
  BY <1>1 DEF SemCore, Counted
<1>5. TrySafe'
  BY <1>1 DEF SemCore, TrySafe
<1>6. Summed'
  BY <1>1 DEF SemCore, Summed, Calls, MaxValue
<1> QED BY <1>2, <1>3, <1>4, <1>5, <1>6 DEF SemCore

LEMMA SemSame ==
  ASSUME SemInd, UNCHANGED <<vars, use>>
  PROVE  SemInd'
<1>1. SemCore /\ Windows
  BY SemParts
<1>2. UNCHANGED <<kernel_ticks, kernel_current_task, attr, ready, blocked_curr, blocked_next,
         ready_switch_next, task_suspended_count, pendsv, pc, semVars, localVars, use>>
  BY DEF vars, kernelVars
<1>3. SemCore'
  BY <1>1, <1>2, CoreSame
<1>4. Windows'
  BY <1>1, <1>2 DEF Windows
<1>5. SemCore' /\ Windows' => SemInd'
  BY DEF SemInd, SemCore
<1> QED BY <1>3, <1>4, <1>5

\* Nothing changes but what the mutex knows, outside of its windows.
LEMMA StaysOutside ==
  ASSUME MutexInd, ~InSwap, UNCHANGED <<vars, use>>, ~InSwap'
  PROVE  SemCore' /\ SwapWindows'
<1>1. SemInd'
  BY OutsideSwap, SemSame
<1>2. SemInd' => SemCore' /\ Windows'
  BY DEF SemInd, SemCore
<1> QED BY <1>1, <1>2 DEF SwapWindows

LEMMA LockOwnerKeeps ==
  ASSUME MutexInd, NEW t \in Task, LockOwner(t), use' = use
  PROVE  MutexInd'
<1>1. /\ AtMutexStep(t, "lock_owner") /\ owner' = t /\ MutexGoto(t, "lock_suspend")
      /\ UNCHANGED <<vars, ceiling_priority>>
  BY DEF LockOwner
<1>2. UNCHANGED <<pc, waiting, kernel_current_task, attr>>
  BY <1>1 DEF vars, kernelVars, semVars
<1>3. /\ t = kernel_current_task /\ pc[t] = "held" /\ mpc[t] = "lock_owner"
      /\ t \notin Range(waiting)
  BY <1>1, InsideHere
<1>4. "lock_suspend" \in MutexStep
  BY DEF MutexStep
<1>5. /\ mpc' \in [Task -> MutexStep] /\ mpc'[t] = "lock_suspend"
      /\ \A u \in Task : u # t => mpc'[u] = mpc[u]
  BY <1>1, <1>4, MutexGoes
<1>6. MutexCallers' /\ (InSwap' <=> "lock_suspend" \in SwapWindow)
  BY <1>1, <1>2, <1>4, GoesCallers
<1>7. ~InSwap' /\ ~InSwap
  BY <1>3, <1>6 DEF SwapWindow, InSwap
<1>8. SemCore' /\ SwapWindows'
  BY <1>1, <1>7, StaysOutside
<1>9. Exchanged'
  <2>1. mpc[t] \in Raised <=> "lock_suspend" \in Raised
    BY <1>3 DEF Raised
  <2> QED BY <1>1, <1>2, <1>4, <2>1, GoesExchanged
<1>10. MutexTypes'
  BY <1>1, <1>5 DEF MutexInd, MutexTypes
<1>11. \A u \in Task : u # t => mpc[u] = "lock_owner"
  <2>1. SemCore /\ use.mutex
    BY DEF MutexInd, MutexTypes
  <2>2. t \in GrantedOf(pc, waiting) /\ pc[kernel_current_task] # "acq_test"
    BY <1>3 DEF GrantedOf, GrantedStep
  <2>3. \A u \in GrantedOf(pc, waiting) : u = t
    BY <2>1, <2>2, OneGranted
  <2> QED BY <2>3, InsideGranted
<1>12. OwnerOwns'
  BY <1>1, <1>5, <1>11 DEF OwnerOwns, Owning, MutexStep
<1> QED BY <1>6, <1>8, <1>9, <1>10, <1>12 DEF MutexInd

\* A step between two windows that changes no variable of the semaphore.
LEMMA GoesOutside ==
  ASSUME MutexInd, NEW t \in Task, NEW from \in MutexStep \ SwapWindow, AtMutexStep(t, from),
         NEW to \in MutexStep \ SwapWindow, MutexGoto(t, to),
         from \in Raised <=> to \in Raised,
         UNCHANGED <<vars, ceiling_priority, use>>,
         owner' \in Task \union {NoTask}
  PROVE  OwnerOwns' => MutexInd'
<1>1. mpc[t] = from /\ t = kernel_current_task
  BY InsideHere
<1>2. UNCHANGED <<pc, waiting, kernel_current_task, attr>>
  BY DEF vars, kernelVars, semVars
<1>3. MutexCallers' /\ ~InSwap'
  BY <1>2, GoesCallers
<1>4. ~InSwap
  BY <1>1 DEF InSwap
<1>5. SemCore' /\ SwapWindows'
  BY <1>3, <1>4, StaysOutside
<1>6. Exchanged'
  BY <1>1, <1>2, GoesExchanged
<1>7. MutexTypes'
  BY MutexGoes DEF MutexInd, MutexTypes
<1> QED BY <1>3, <1>5, <1>6, <1>7 DEF MutexInd

LEMMA UnlockKeeps ==
  ASSUME MutexInd, NEW t \in Task, mutex_unlock(t), use' = use
  PROVE  MutexInd'
<1>1. /\ AtMutexStep(t, "locked") /\ MutexGoto(t, "unlock_suspend")
      /\ UNCHANGED <<vars, owner, ceiling_priority>>
  BY DEF mutex_unlock
<1>2. /\ "locked" \in MutexStep \ SwapWindow /\ "unlock_suspend" \in MutexStep \ SwapWindow
      /\ "locked" \in Raised /\ "unlock_suspend" \in Raised
      /\ "locked" \in Owning /\ "unlock_suspend" \in Owning
  BY DEF MutexStep, SwapWindow, Raised, Owning
<1>3. mpc[t] = "locked" /\ owner' \in Task \union {NoTask}
  BY <1>1, InsideHere DEF MutexInd, MutexTypes
<1>4. OwnerOwns'
  BY <1>1, <1>2, <1>3, GoesOwner
<1> QED BY <1>1, <1>2, <1>3, <1>4, GoesOutside

LEMMA UnlockOwnerKeeps ==
  ASSUME MutexInd, NEW t \in Task, UnlockOwner(t), use' = use
  PROVE  MutexInd'
<1>1. /\ AtMutexStep(t, "unlock_owner") /\ MutexGoto(t, "release") /\ owner' = NoTask
      /\ UNCHANGED <<vars, ceiling_priority>>
  BY DEF UnlockOwner
<1>2. /\ "unlock_owner" \in MutexStep \ SwapWindow /\ "release" \in MutexStep \ SwapWindow
      /\ "unlock_owner" \notin Raised /\ "release" \notin Raised
      /\ "unlock_owner" \in Owning /\ "release" \notin Owning
  BY DEF MutexStep, SwapWindow, Raised, Owning
<1>3. mpc[t] = "unlock_owner"
  BY <1>1, InsideHere
<1>4. mpc'[t] = "release" /\ \A u \in Task : u # t => mpc'[u] = mpc[u]
  BY <1>1, <1>2, MutexGoes
<1>5. owner = t
  BY <1>2, <1>3 DEF MutexInd, OwnerOwns
<1>6. \A u \in Task : u # t => mpc[u] \notin Owning
  BY <1>5 DEF MutexInd, OwnerOwns
<1>7. OwnerOwns'
  BY <1>1, <1>2, <1>4, <1>6, NoTaskAssumption DEF OwnerOwns
<1> QED BY <1>1, <1>2, <1>7, GoesOutside

\* The windows of the mutex open.
LEMMA SwapSuspendKeeps ==
  ASSUME MutexInd, NEW t \in Task, SwapSuspend(t), use' = use
  PROVE  MutexInd'
<1>0. PICK from \in {"lock_suspend", "unlock_suspend"} :
        AtMutexStep(t, from) /\ MutexGoto(t, IF from = "lock_suspend" THEN "lock_swap" ELSE "unlock_swap")
  BY DEF SwapSuspend
<1>1. PICK to :
        /\ (from = "lock_suspend" /\ to = "lock_swap") \/ (from = "unlock_suspend" /\ to = "unlock_swap")
        /\ AtMutexStep(t, from) /\ MutexGoto(t, to)
  BY <1>0
<1>2. /\ task_suspended_count' = task_suspended_count + 1
      /\ UNCHANGED <<kernel_ticks, kernel_current_task, attr, ready, blocked_curr,
                     blocked_next, ready_switch_next, pendsv,
                     pc, semVars, localVars, owner, ceiling_priority>>
  BY DEF SwapSuspend, task_suspend_all, UnchangedLists
<1>3. /\ from \in MutexStep \ SwapWindow /\ to \in MutexStep /\ to \in SwapWindow
  BY <1>1 DEF MutexStep, SwapWindow
<1>13. from \in Raised <=> to \in Raised
  BY <1>1 DEF Raised
<1>14. from \in Owning <=> to \in Owning
  BY <1>1 DEF MutexStep, Owning
<1>4. /\ t = kernel_current_task /\ pendsv = FALSE /\ pc[t] = "held" /\ mpc[t] = from
  BY <1>1, InsideHere
<1>5. UNCHANGED <<pc, waiting, kernel_current_task>>
  BY <1>2 DEF semVars
<1>6. MutexCallers' /\ InSwap'
  BY <1>1, <1>3, <1>5, GoesCallers
<1>7. SemInd
  BY <1>3, <1>4, OutsideSwap DEF InSwap
<1>8. SemCore'
  <2>1. SemCore
    BY DEF MutexInd
  <2> QED BY <1>2, <2>1, CoreSame
<1>9. SwapWindows'
  <2>1. pc[kernel_current_task] \notin Window
    BY <1>4 DEF Window
  <2>2. task_suspended_count = 0 /\ \A u \in Task : pc[u] \notin Window
    BY <1>7, <2>1 DEF SemInd, Windows
  <2>3. task_suspended_count' = 1
    BY <1>2, <2>2
  <2> QED BY <1>2, <1>4, <1>6, <2>2, <2>3 DEF SwapWindows
<1>10. MutexTypes'
  BY <1>1, <1>2, <1>3, MutexGoes DEF MutexInd, MutexTypes
<1>11. OwnerOwns'
  BY <1>1, <1>2, <1>3, <1>4, <1>14, GoesOwner
<1>12. Exchanged'
  BY <1>1, <1>2, <1>3, <1>4, <1>13, GoesExchanged
<1> QED BY <1>6, <1>8, <1>9, <1>10, <1>11, <1>12 DEF MutexInd

\* The windows of the mutex close.
LEMMA SwapResumeKeeps ==
  ASSUME MutexInd, NEW t \in Task, SwapResume(t), use' = use
  PROVE  MutexInd'
<1>0. PICK from \in {"lock_resume", "unlock_resume"} :
        AtMutexStep(t, from) /\ MutexGoto(t, IF from = "lock_resume" THEN "locked" ELSE "unlock_owner")
  BY DEF SwapResume
<1>1. PICK to :
        /\ (from = "lock_resume" /\ to = "locked") \/ (from = "unlock_resume" /\ to = "unlock_owner")
        /\ AtMutexStep(t, from) /\ MutexGoto(t, to)
  BY <1>0
<1>2. /\ task_suspended_count' = task_suspended_count - 1
      /\ UNCHANGED <<kernel_ticks, kernel_current_task, attr, ready, blocked_curr,
                     blocked_next, ready_switch_next, pendsv,
                     pc, semVars, localVars, owner, ceiling_priority>>
  BY DEF SwapResume, task_resume_all, UnchangedLists
<1>3. from \in SwapWindow /\ to \in MutexStep /\ to \notin SwapWindow
  BY <1>1 DEF MutexStep, SwapWindow
<1>13. from \in Raised <=> to \in Raised
  BY <1>1 DEF Raised
<1>14. from \in Owning <=> to \in Owning
  BY <1>1 DEF MutexStep, Owning
<1>4. /\ t = kernel_current_task /\ pendsv = FALSE /\ pc[t] = "held" /\ mpc[t] = from
  BY <1>1, InsideHere
<1>5. UNCHANGED <<pc, waiting, kernel_current_task>>
  BY <1>2 DEF semVars
<1>6. MutexCallers' /\ ~InSwap'
  BY <1>1, <1>3, <1>5, GoesCallers
<1>8. SemCore'
  <2>1. SemCore
    BY DEF MutexInd
  <2> QED BY <1>2, <2>1, CoreSame
<1>9. SwapWindows'
  <2>1. InSwap
    BY <1>3, <1>4 DEF InSwap
  <2>2. task_suspended_count = 1 /\ \A u \in Task : pc[u] \notin Window
    BY <2>1 DEF MutexInd, SwapWindows
  <2>3. task_suspended_count' = 0
    BY <1>2, <2>2
  <2>4. pc[kernel_current_task] \notin Window
    BY <1>4 DEF Window
  <2>5. Windows'
    BY <1>2, <2>2, <2>3, <2>4 DEF Windows
  <2> QED BY <1>6, <2>5 DEF SwapWindows
<1>10. MutexTypes'
  BY <1>1, <1>2, <1>3, MutexGoes DEF MutexInd, MutexTypes
<1>11. OwnerOwns'
  BY <1>1, <1>2, <1>3, <1>4, <1>14, GoesOwner
<1>12. Exchanged'
  BY <1>1, <1>2, <1>3, <1>4, <1>13, GoesExchanged
<1> QED BY <1>6, <1>8, <1>9, <1>10, <1>11, <1>12 DEF MutexInd

\* The owner changes its priority and nothing else, and it is the front task of its
\* new list.
LEMMA OwnerSwaps ==
  ASSUME MutexInd, NEW t \in Task, NEW from, AtMutexStep(t, from), owner = t,
         NEW q \in Priority, q = ceiling_priority, ReadyTasks(q) \subseteq {t}, swap
  PROVE  /\ attr' = [attr EXCEPT ![t].priority = q] /\ ceiling_priority' = attr[t].priority
         /\ Lists(ready', blocked_curr, blocked_next, attr', waiting)
         /\ AtFront(ready', attr', t)
<1>1. AtFront(ready, attr, t) /\ t \in User
  BY InsideHere
<1>2. Lists(ready, blocked_curr, blocked_next, attr, waiting)
  BY DEF MutexInd, SemCore
<1>3. tasklist_get_front_task(ready, attr[t].priority) = t /\ t # NoTask
  BY <1>1, NoTaskAssumption DEF tasklist_get_front_task, AtFront
<1>4. /\ attr' = [attr EXCEPT ![t].priority = q]
      /\ ready' = tasklist_append(tasklist_remove_front(ready, attr[t].priority), q, t)
      /\ ceiling_priority' = attr[t].priority
  BY <1>3 DEF swap
<1>5. Range(ready.list[q]) \subseteq {t}
  BY DEF ReadyTasks
<1>6. PICK b, s : b = attr' /\ s = ready'
  OBVIOUS
<1>7. /\ b = [attr EXCEPT ![t].priority = q]
      /\ s = tasklist_append(tasklist_remove_front(ready, attr[t].priority), q, t)
  BY <1>4, <1>6
<1>8. attr \in [Task -> Attribute] /\ t \in Task
  BY <1>2 DEF Lists
<1>9. /\ b \in [Task -> Attribute] /\ b[t].priority = q
       /\ \A u \in Task \ {t} : b[u] = attr[u]
  BY <1>7, <1>8 DEF Attribute
<1>10. PICK p \in Priority : p = attr[t].priority
  BY <1>8, HasPriority
<1>11. s = tasklist_append(tasklist_remove_front(ready, p), q, t)
  BY <1>7, <1>10
<1>12. Lists(s, blocked_curr, blocked_next, b, waiting) /\ AtFront(s, b, t)
  BY <1>1, <1>2, <1>5, <1>9, <1>10, <1>11, SwapLists
<1> QED BY <1>4, <1>6, <1>12

\* The rest of the semaphore's invariant does not look at the priorities.
LEMMA SwapCore ==
  ASSUME SemCore, use.mutex, NEW t \in Task, t = kernel_current_task,
         t \in GrantedOf(pc, waiting),
         UNCHANGED <<kernel_ticks, kernel_current_task, blocked_curr, blocked_next,
                     ready_switch_next, pendsv, pc, semVars, localVars, use>>,
         Lists(ready', blocked_curr, blocked_next, attr', waiting), AtFront(ready', attr', t)
  PROVE  SemCore'
<1>1. UNCHANGED <<kernel_ticks, kernel_current_task, blocked_curr, blocked_next,
                  ready_switch_next, pendsv, waiting, state, pc, use, timeout, current_tick>>
  BY DEF semVars, localVars
<1>2. SemTypes' /\ Callers'
  BY <1>1 DEF SemCore, SemTypes, Callers, Caller, Calls, Timeouts, MaxValue, AttrOf, User
<1>3. Lists(ready, blocked_curr, blocked_next, attr, waiting)'
  <2>1. Lists(ready', blocked_curr', blocked_next', attr', waiting')
    BY <1>1
  <2> QED BY <2>1
<1>4. FrontRuns'
  BY <1>1 DEF FrontRuns
<1>5. Counted'
  BY <1>1 DEF SemCore, Counted
<1>6. Summed'
  BY <1>1 DEF SemCore, Summed, Calls, MaxValue
<1>7. TrySafe'
  <2>1. SUFFICES ASSUME NEW u \in Task, pc[u] = "try_take" PROVE FALSE
    BY <1>1 DEF TrySafe
  <2>2. state >= 1 /\ state \in Int
    BY <2>1, CoreNumbers DEF SemCore, TrySafe
  <2>3. state < 1
    BY OneGranted
  <2> QED BY <2>2, <2>3
<1> QED BY <1>2, <1>3, <1>4, <1>5, <1>6, <1>7 DEF SemCore

\* A task that takes the lock gets the priority of the ceiling.
LEMMA SwapRaises ==
  ASSUME MutexInd, SwapsAlone, NEW t \in Task, AtMutexStep(t, "lock_swap"),
         MutexGoto(t, "lock_resume"), swap, use' = use
  PROVE  /\ Lists(ready', blocked_curr, blocked_next, attr', waiting)
         /\ AtFront(ready', attr', t) /\ ceiling_priority' \in Priority /\ Exchanged'
<1>1. mpc[t] = "lock_swap" /\ use \in Uses /\ use.mutex
  BY InsideHere DEF MutexInd, SemCore, SemTypes, MutexTypes
<1>2. owner = t /\ \A u \in Task : u # t => mpc[u] \notin Owning
  BY <1>1 DEF MutexInd, OwnerOwns, Owning, MutexStep
<1>3. \A u \in Task : mpc[u] \notin Raised
  BY <1>1, <1>2 DEF Owning, Raised, MutexStep
<1>4. attr = AttrOf /\ ceiling_priority = Ceiling
  BY <1>3, NoneRaised
<1>5. PICK q \in Priority : q = ceiling_priority
  BY <1>1, <1>4, MutexUse
<1>6. ReadyTasks(q) \subseteq {t}
  BY <1>5 DEF SwapsAlone
<1>7. /\ attr' = [attr EXCEPT ![t].priority = q] /\ ceiling_priority' = attr[t].priority
      /\ Lists(ready', blocked_curr, blocked_next, attr', waiting)
      /\ AtFront(ready', attr', t)
  BY <1>2, <1>5, <1>6, OwnerSwaps
<1>8. attr \in [Task -> Attribute]
  BY DEF MutexInd, SemCore, Lists
<1>9. /\ attr'[t] = [attr[t] EXCEPT !.priority = q]
      /\ \A u \in Task : u # t => attr'[u] = attr[u]
  BY <1>7, <1>8
<1>10. "lock_resume" \in MutexStep /\ "lock_resume" \in Raised
  BY DEF MutexStep, Raised
<1>11. /\ mpc'[t] = "lock_resume" /\ \A u \in Task : u # t => mpc'[u] = mpc[u]
  BY <1>10, MutexGoes
<1>12. AttrOf' = AttrOf /\ Ceiling' = Ceiling
  BY DEF AttrOf, Ceiling
<1>13. Exchanged'
  BY <1>3, <1>4, <1>5, <1>7, <1>9, <1>10, <1>11, <1>12 DEF Exchanged
<1>14. ceiling_priority' \in Priority
  BY <1>7, <1>8, HasPriority
<1> QED BY <1>7, <1>13, <1>14

\* A task that gives the lock back gets its own priority back.
LEMMA SwapRestores ==
  ASSUME MutexInd, SwapsAlone, NEW t \in Task, AtMutexStep(t, "unlock_swap"),
         MutexGoto(t, "unlock_resume"), swap, use' = use
  PROVE  /\ Lists(ready', blocked_curr, blocked_next, attr', waiting)
         /\ AtFront(ready', attr', t) /\ ceiling_priority' \in Priority /\ Exchanged'
<1>1. mpc[t] = "unlock_swap" /\ use \in Uses /\ use.mutex
  BY InsideHere DEF MutexInd, SemCore, SemTypes, MutexTypes
<1>2. owner = t /\ \A u \in Task : u # t => mpc[u] \notin Owning
  BY <1>1 DEF MutexInd, OwnerOwns, Owning, MutexStep
<1>3. mpc[t] \in Raised /\ \A u \in Task : u # t => mpc[u] \notin Raised
  BY <1>1, <1>2 DEF Owning, Raised, MutexStep
<1>4. /\ attr[t] = [AttrOf[t] EXCEPT !.priority = Ceiling]
      /\ ceiling_priority = AttrOf[t].priority
      /\ \A u \in Task : u # t => attr[u] = AttrOf[u]
  BY <1>3 DEF MutexInd, Exchanged
<1>5. AttrOf \in [Task -> Attribute] /\ attr \in [Task -> Attribute]
  BY <1>1, UseFacts DEF MutexInd, SemCore, Lists
<1>6. PICK q \in Priority : q = ceiling_priority
  BY <1>4, <1>5, HasPriority
<1>7. attr[t].priority = Ceiling
  BY <1>4, <1>5 DEF Attribute
<1>8. ReadyTasks(q) \subseteq {t}
  BY <1>6 DEF SwapsAlone
<1>9. /\ attr' = [attr EXCEPT ![t].priority = q] /\ ceiling_priority' = attr[t].priority
      /\ Lists(ready', blocked_curr, blocked_next, attr', waiting)
      /\ AtFront(ready', attr', t)
  BY <1>2, <1>6, <1>8, OwnerSwaps
<1>10. /\ attr'[t] = [attr[t] EXCEPT !.priority = q]
       /\ \A u \in Task : u # t => attr'[u] = attr[u]
  BY <1>5, <1>9
<1>11. attr'[t] = AttrOf[t]
  BY <1>4, <1>5, <1>6, <1>10 DEF Attribute
<1>12. "unlock_resume" \in MutexStep /\ "unlock_resume" \notin Raised
  BY DEF MutexStep, Raised
<1>13. /\ mpc'[t] = "unlock_resume" /\ \A u \in Task : u # t => mpc'[u] = mpc[u]
  BY <1>12, MutexGoes
<1>14. AttrOf' = AttrOf /\ Ceiling' = Ceiling
  BY DEF AttrOf, Ceiling
<1>15. ceiling_priority' = Ceiling
  BY <1>7, <1>9
<1>16. \A u \in Task : mpc'[u] \notin Raised /\ attr'[u] = AttrOf[u]
  BY <1>3, <1>4, <1>10, <1>11, <1>12, <1>13
<1>17. Exchanged'
  BY <1>14, <1>15, <1>16 DEF Exchanged
<1>18. ceiling_priority' \in Priority
  BY <1>1, <1>15, MutexUse
<1> QED BY <1>9, <1>17, <1>18

LEMMA SwapKeeps ==
  ASSUME MutexInd, SwapsAlone, NEW t \in Task, Swap(t), use' = use
  PROVE  MutexInd'
<1>0. PICK from \in {"lock_swap", "unlock_swap"} :
        AtMutexStep(t, from) /\ MutexGoto(t, IF from = "lock_swap" THEN "lock_resume" ELSE "unlock_resume")
  BY DEF Swap
<1>1. PICK to :
        /\ (from = "lock_swap" /\ to = "lock_resume") \/ (from = "unlock_swap" /\ to = "unlock_resume")
        /\ AtMutexStep(t, from) /\ MutexGoto(t, to)
  BY <1>0
<1>2. /\ swap
      /\ UNCHANGED <<kernel_ticks, kernel_current_task, blocked_curr, blocked_next,
                     ready_switch_next, task_suspended_count, pendsv,
                     pc, semVars, localVars, owner>>
  BY DEF Swap
<1>3. from \in SwapWindow /\ to \in MutexStep /\ to \in SwapWindow
  BY <1>1 DEF MutexStep, SwapWindow
<1>4. from \in Owning <=> to \in Owning
  BY <1>1 DEF MutexStep, Owning
<1>5. /\ t = kernel_current_task /\ pendsv = FALSE /\ pc[t] = "held" /\ mpc[t] = from
      /\ t \notin Range(waiting)
  BY <1>1, InsideHere
<1>6. /\ Lists(ready', blocked_curr, blocked_next, attr', waiting)
      /\ AtFront(ready', attr', t) /\ ceiling_priority' \in Priority /\ Exchanged'
  BY <1>1, <1>2, SwapRaises, SwapRestores
<1>7. UNCHANGED <<pc, waiting, kernel_current_task>>
  BY <1>2 DEF semVars
<1>8. MutexCallers' /\ InSwap'
  BY <1>1, <1>3, <1>7, GoesCallers
<1>9. SemCore'
  <2>1. SemCore /\ use.mutex
    BY DEF MutexInd, MutexTypes
  <2>2. t \in GrantedOf(pc, waiting)
    BY <1>5 DEF GrantedOf, GrantedStep
  <2> QED BY <1>2, <1>5, <1>6, <2>1, <2>2, SwapCore
<1>10. SwapWindows'
  <2>1. InSwap
    BY <1>3, <1>5 DEF InSwap
  <2>2. task_suspended_count = 1 /\ \A u \in Task : pc[u] \notin Window
    BY <2>1 DEF MutexInd, SwapWindows
  <2> QED BY <1>2, <1>5, <1>8, <2>2 DEF SwapWindows
<1>11. MutexTypes'
  BY <1>1, <1>2, <1>3, <1>6, MutexGoes DEF MutexInd, MutexTypes
<1>12. OwnerOwns'
  BY <1>1, <1>2, <1>3, <1>4, <1>5, GoesOwner
<1> QED BY <1>6, <1>8, <1>9, <1>10, <1>11, <1>12 DEF MutexInd

-----------------------------------------------------------------------------
(* The steps of the semaphore, the tick and the context switch in a mutex *)

\* A step of t in the functions of the semaphore, or before and after it sleeps:
\* a task that has the lock stays in its own code.
TaskMove(t) ==
  /\ kernel_current_task = t /\ kernel_current_task' = t
  /\ \A u \in Task : u # t => pc'[u] = pc[u]
  /\ Range(waiting') \subseteq Range(waiting) \union {t}
  /\ pc[t] \in {"held", "held_sleep_yield"} =>
       pc'[t] \in {"held", "held_sleep_yield"} /\ waiting' = waiting

\* A step of the semaphore outside of the windows keeps the mutex as it is.
LEMMA SemStepKeeps ==
  ASSUME MutexInd, Sound(use), ~InSwap, [Next]_<<vars, use>>,
         UNCHANGED <<mutexVars, use>>, MutexCallers'
  PROVE  MutexInd'
<1>1. UNCHANGED <<owner, ceiling_priority, mpc, use>>
  BY DEF mutexVars
<1>2. SemInd /\ UsedSoundly
  BY OutsideSwap, MutexUsedSoundly
<1>3. SemInd' /\ attr' = attr
  BY <1>2, SemNext, AttrKept
<1>4. SemCore' /\ Windows'
  <2>1. SemInd' => SemCore' /\ Windows'
    BY DEF SemInd, SemCore
  <2> QED BY <1>3, <2>1
<1>5. ~InSwap'
  <2>1. SUFFICES ASSUME mpc[kernel_current_task'] \in SwapWindow PROVE FALSE
    BY <1>1 DEF InSwap
  <2>2. PICK c \in Task : c = kernel_current_task'
    BY <1>4 DEF SemCore, SemTypes
  <2>3. c = kernel_current_task
    BY <2>1, <2>2 DEF MutexInd, MutexCallers
  <2> QED BY <2>1, <2>2, <2>3 DEF InSwap
<1>6. SwapWindows'
  BY <1>4, <1>5 DEF SwapWindows
<1>7. MutexTypes' /\ OwnerOwns'
  BY <1>1 DEF MutexInd, MutexTypes, OwnerOwns
<1>8. Exchanged'
  BY <1>1, <1>3 DEF MutexInd, Exchanged, AttrOf, Ceiling
<1> QED BY <1>4, <1>6, <1>7, <1>8 DEF MutexInd

\* The task that runs in the semaphore is not inside the mutex.
LEMMA MoveKeepsCallers ==
  ASSUME MutexInd, NEW t \in Task, TaskMove(t), mpc' = mpc,
         pc[t] = "held" => mpc[t] \in {"lock_owner", "locked"}
  PROVE  ~InSwap /\ MutexCallers'
<1>1. mpc[t] \notin {"lock_owner", "locked"} => pc[t] = "held"
  BY DEF MutexInd, MutexCallers
<1>2. mpc[t] \in {"lock_owner", "locked"}
  BY <1>1
<1>3. ~InSwap
  BY <1>2 DEF InSwap, SwapWindow, TaskMove
<1>4. ASSUME NEW u \in Task
      PROVE  /\ mpc[u] # "lock_owner" =>
                  pc'[u] \in {"held", "held_sleep_yield"} /\ u \notin Range(waiting')
             /\ mpc[u] \notin {"lock_owner", "locked"} => pc'[u] = "held"
             /\ mpc[u] \in SwapWindow => u = kernel_current_task'
  <2>1. CASE u = t
    <3>1. mpc[u] \notin SwapWindow
      BY <1>2, <2>1 DEF SwapWindow
    <3>2. SUFFICES ASSUME mpc[t] = "locked"
                   PROVE  pc'[t] \in {"held", "held_sleep_yield"} /\ t \notin Range(waiting')
      BY <1>2, <2>1, <3>1
    <3>3. pc[t] \in {"held", "held_sleep_yield"} /\ t \notin Range(waiting)
      BY <3>2 DEF MutexInd, MutexCallers
    <3> QED BY <3>3 DEF TaskMove
  <2>2. CASE u # t
    <3>1. mpc[u] \notin SwapWindow
      BY <1>3, <2>2 DEF MutexInd, MutexCallers, InSwap, TaskMove
    <3>2. pc'[u] = pc[u] /\ (u \in Range(waiting') => u \in Range(waiting))
      BY <2>2 DEF TaskMove
    <3> QED BY <3>1, <3>2 DEF MutexInd, MutexCallers
  <2> QED BY <2>1, <2>2
<1>5. MutexCallers'
  BY <1>4 DEF MutexCallers
<1> QED BY <1>3, <1>5

\* A step that leaves the list of the waiting tasks alone.
LEMMA MoveInPlace ==
  ASSUME MutexInd, NEW t \in Task, NEW from, NEW to, AtStep(t, from), Goto(t, to),
         waiting' = waiting, kernel_current_task' = kernel_current_task,
         from \in {"held", "held_sleep_yield"} => to \in {"held", "held_sleep_yield"}
  PROVE  TaskMove(t)
<1>1. pc \in [Task -> Step] /\ kernel_current_task = t /\ pc[t] = from
  BY DEF MutexInd, SemCore, SemTypes, AtStep
<1>2. pc'[t] = to /\ \A u \in Task : u # t => pc'[u] = pc[u]
  BY <1>1 DEF Goto
<1> QED BY <1>1, <1>2 DEF TaskMove

\* The calls of semaphore_acquire and semaphore_try_acquire.
LEMMA AcquireMoves ==
  ASSUME MutexInd, NEW t \in Task,
         \/ AcquireSuspend(t) \/ TryAcquire(t) \/ AcquireDec(t) \/ AcquireResume(t)
         \/ AcquireYield(t) \/ TryTest(t) \/ TryTake(t) \/ TryTime(t) \/ TryYield(t)
  PROVE  TaskMove(t) /\ pc[t] # "held"
<1>1. CASE AcquireSuspend(t) \/ TryAcquire(t)
  <2>1. PICK to : /\ AtStep(t, "out") /\ Goto(t, to) /\ waiting' = waiting
                  /\ kernel_current_task' = kernel_current_task
    BY <1>1 DEF AcquireSuspend, TryAcquire, task_suspend_all, UnchangedLists, kernelVars, semVars
  <2> QED BY <2>1, MoveInPlace DEF AtStep
<1>2. CASE AcquireDec(t) \/ AcquireResume(t) \/ AcquireYield(t)
  <2>1. PICK from, to : /\ from \in {"acq_dec", "acq_resume", "acq_resume_yield", "acq_yield"}
                        /\ AtStep(t, from) /\ Goto(t, to) /\ waiting' = waiting
                        /\ kernel_current_task' = kernel_current_task
    BY <1>2 DEF AcquireDec, AcquireResume, AcquireYield, task_resume_all, task_yield,
                UnchangedLists, kernelVars, semVars
  <2> QED BY <2>1, MoveInPlace DEF AtStep
<1>3. CASE TryTest(t) \/ TryTake(t) \/ TryTime(t) \/ TryYield(t)
  <2>1. PICK from, to : /\ from \in {"try_test", "try_take", "try_time", "try_yield"}
                        /\ AtStep(t, from) /\ Goto(t, to) /\ waiting' = waiting
                        /\ kernel_current_task' = kernel_current_task
    <3>1. CASE TryTest(t)
      BY <3>1 DEF TryTest, kernelVars, semVars
    <3>2. CASE TryTake(t)
      BY <3>2 DEF TryTake, kernelVars
    <3>3. CASE TryTime(t)
      BY <3>3 DEF TryTime, kernelVars, semVars
    <3>4. CASE TryYield(t)
      BY <3>4 DEF TryYield, task_yield, UnchangedLists, kernelVars, semVars
    <3> QED BY <1>3, <3>1, <3>2, <3>3, <3>4
  <2> QED BY <2>1, MoveInPlace DEF AtStep
<1> QED BY <1>1, <1>2, <1>3

\* The task that waits is the one that called.
LEMMA WaitMoves ==
  ASSUME MutexInd, NEW t \in Task, AcquireTest(t)
  PROVE  TaskMove(t) /\ pc[t] # "held"
<1>1. AtStep(t, "acq_test") /\ kernel_current_task = t /\ pc[t] = "acq_test" /\ ~pendsv
  BY DEF AcquireTest, AtStep
<1>2. ~InSwap
  BY <1>1 DEF MutexInd, SwapWindows, InSwap, Window
<1>3. SemInd
  BY <1>2, OutsideSwap
<1>4. AtFront(ready, attr, t)
  BY <1>1, <1>3, RunsAtFront DEF Away
<1>5. front_task = t
  BY <1>1, <1>4, NoTaskAssumption
     DEF front_task, tasklist_get_front_task, AtFront, CurrentPriority
<1>6. CASE must_wait
  <2>1. /\ waiting' = Append(waiting, t) /\ Goto(t, "acq_resume_yield")
        /\ kernel_current_task' = kernel_current_task
    BY <1>5, <1>6, NoTaskAssumption DEF AcquireTest, wait_front, queue_list_push, UnchangedScheduler
  <2>2. Range(waiting') = Range(waiting) \union {t}
    <3>1. waiting \in Seq(Task)
      BY <1>3 DEF SemInd, Lists
    <3> QED BY <2>1, <3>1, AppendRange
  <2>3. \A u \in Task : u # t => pc'[u] = pc[u]
    BY <2>1, Goes, <1>3 DEF SemInd, SemTypes, Goto
  <2> QED BY <1>1, <2>1, <2>2, <2>3 DEF TaskMove
<1>7. CASE ~must_wait
  <2>1. /\ waiting' = waiting /\ Goto(t, "acq_resume")
        /\ kernel_current_task' = kernel_current_task
    BY <1>7 DEF AcquireTest, kernelVars
  <2> QED BY <1>1, <2>1, MoveInPlace
<1> QED BY <1>6, <1>7

\* semaphore_release after the step that begins it.
LEMMA ReleaseMoves ==
  ASSUME MutexInd, NEW t \in Task, ReleaseInc(t) \/ ReleaseWake(t) \/ ReleaseResume(t)
  PROVE  TaskMove(t) /\ pc[t] # "held"
<1>1. CASE ReleaseInc(t) \/ ReleaseResume(t)
  <2>1. PICK from, to : /\ from \in {"rel_inc", "rel_resume"}
                        /\ AtStep(t, from) /\ Goto(t, to) /\ waiting' = waiting
                        /\ kernel_current_task' = kernel_current_task
    BY <1>1 DEF ReleaseInc, ReleaseResume, task_resume_all, UnchangedLists, kernelVars, semVars
  <2> QED BY <2>1, MoveInPlace DEF AtStep
<1>2. CASE ReleaseWake(t)
  <2>1. /\ AtStep(t, "rel_wake") /\ Goto(t, "rel_resume")
        /\ kernel_current_task' = kernel_current_task
        /\ waiting' = waiting \/ (waiting # <<>> /\ waiting' = Tail(waiting))
    BY <1>2 DEF ReleaseWake, UnchangedScheduler, wakes
  <2>2. waiting \in Seq(Task) /\ pc \in [Task -> Step]
    BY DEF MutexInd, SemCore, SemTypes, Lists
  <2>3. Range(waiting') \subseteq Range(waiting)
    BY <2>1, <2>2, TailRangeOf
  <2>4. \A u \in Task : u # t => pc'[u] = pc[u]
    BY <2>1, <2>2 DEF Goto
  <2>5. pc[t] = "rel_wake" /\ kernel_current_task = t
    BY <2>1 DEF AtStep
  <2> QED BY <2>1, <2>3, <2>4, <2>5 DEF TaskMove
<1> QED BY <1>1, <1>2

\* A task sleeps with the lock or without it.
LEMMA SleepMoves ==
  ASSUME MutexInd, NEW t \in Task, MutexSleep(t) \/ SleepYield(t)
  PROVE  TaskMove(t) /\ (pc[t] = "held" => mpc[t] = "locked")
<1>1. CASE MutexSleep(t)
  <2>1. PICK from, to : /\ \/ (from = "out" /\ to = "sleep_yield")
                           \/ (from = "held" /\ to = "held_sleep_yield")
                        /\ AtStep(t, from) /\ Goto(t, to) /\ waiting' = waiting
                        /\ kernel_current_task' = kernel_current_task
    BY <1>1 DEF MutexSleep, Sleep, sleep_one_tick, semVars
  <2>2. pc[t] = "held" => mpc[t] = "locked"
    BY <1>1, <2>1 DEF MutexSleep, AtStep
  <2> QED BY <2>1, <2>2, MoveInPlace
<1>2. CASE SleepYield(t)
  <2>1. PICK from, to : /\ \/ (from = "sleep_yield" /\ to = "out")
                           \/ (from = "held_sleep_yield" /\ to = "held")
                        /\ AtStep(t, from) /\ Goto(t, to) /\ waiting' = waiting
                        /\ kernel_current_task' = kernel_current_task
    BY <1>2 DEF SleepYield, sleep_yield, task_yield, UnchangedLists, semVars
  <2>2. pc[t] # "held"
    BY <2>1 DEF AtStep
  <2> QED BY <2>1, <2>2, MoveInPlace
<1> QED BY <1>1, <1>2

\* All steps of the tasks in the semaphore, but for the one that releases it.
InSemaphore(t) ==
  \/ AcquireSuspend(t) \/ TryAcquire(t)
  \/ AcquireDec(t) \/ AcquireTest(t) \/ AcquireResume(t) \/ AcquireYield(t)
  \/ TryTest(t) \/ TryTake(t) \/ TryTime(t) \/ TryYield(t)
  \/ ReleaseInc(t) \/ ReleaseWake(t) \/ ReleaseResume(t)
  \/ MutexSleep(t) \/ SleepYield(t)

LEMMA InSemaphoreKeeps ==
  ASSUME MutexInd, Sound(use), NEW t \in Task, InSemaphore(t),
         UNCHANGED <<mutexVars, use>>
  PROVE  MutexInd'
<1>1. TaskMove(t) /\ (pc[t] = "held" => mpc[t] = "locked")
  BY AcquireMoves, WaitMoves, ReleaseMoves, SleepMoves DEF InSemaphore
<1>2. mpc' = mpc
  BY DEF mutexVars
<1>3. ~InSwap /\ MutexCallers'
  BY <1>1, <1>2, MoveKeepsCallers
<1>4. Next
  <2>1. Call(t) \/ InCall(t)
    BY DEF InSemaphore, Call, InCall, MutexSleep
  <2> QED BY <2>1 DEF Next
<1> QED BY <1>3, <1>4, SemStepKeeps

\* The owner that has restored its priority releases the semaphore.
LEMMA UnlockReleaseKeeps ==
  ASSUME MutexInd, Sound(use), NEW t \in Task, UnlockRelease(t), use' = use
  PROVE  MutexInd'
<1>1. /\ mpc[t] = "release" /\ AtStep(t, "held") /\ Goto(t, "rel_inc") /\ ReleaseSuspend(t)
      /\ MutexGoto(t, "lock_owner") /\ UNCHANGED <<owner, ceiling_priority>>
      /\ waiting' = waiting /\ kernel_current_task' = kernel_current_task
  BY DEF UnlockRelease, ReleaseSuspend, task_suspend_all, UnchangedLists, semVars
<1>2. kernel_current_task = t /\ pc[t] = "held" /\ pc \in [Task -> Step]
  BY <1>1 DEF AtStep, MutexInd, SemCore, SemTypes
<1>3. ~InSwap
  BY <1>1, <1>2 DEF InSwap, SwapWindow
<1>4. /\ "lock_owner" \in MutexStep /\ "lock_owner" \notin SwapWindow
      /\ ("release" \in Raised <=> "lock_owner" \in Raised)
      /\ ("release" \in Owning <=> "lock_owner" \in Owning)
  BY DEF MutexStep, SwapWindow, Raised, Owning
<1>5. /\ mpc' \in [Task -> MutexStep] /\ mpc'[t] = "lock_owner"
      /\ \A u \in Task : u # t => mpc'[u] = mpc[u]
  BY <1>1, <1>4, MutexGoes
<1>6. \A u \in Task : u # t => pc'[u] = pc[u]
  BY <1>1, <1>2 DEF Goto
<1>7. \A u \in Task : mpc'[u] \notin SwapWindow
  BY <1>2, <1>3, <1>4, <1>5 DEF MutexInd, MutexCallers, InSwap
<1>8. MutexCallers'
  BY <1>1, <1>5, <1>6, <1>7 DEF MutexInd, MutexCallers
<1>9. SemInd' /\ attr' = attr
  <2>1. SemInd /\ UsedSoundly
    BY <1>3, OutsideSwap, MutexUsedSoundly
  <2>2. Next
    BY <1>1 DEF Next, Call
  <2> QED BY <2>1, <2>2, SemNext, AttrKept
<1>10. SemCore' /\ Windows'
  <2>1. SemInd' => SemCore' /\ Windows'
    BY DEF SemInd, SemCore
  <2> QED BY <1>9, <2>1
<1>11. SwapWindows'
  BY <1>1, <1>2, <1>7, <1>10 DEF SwapWindows, InSwap
<1>12. MutexTypes'
  BY <1>1, <1>5 DEF MutexInd, MutexTypes
<1>13. OwnerOwns'
  BY <1>1, <1>4, GoesOwner
<1>14. Exchanged'
  BY <1>1, <1>4, <1>9, GoesExchanged
<1> QED BY <1>8, <1>10, <1>11, <1>12, <1>13, <1>14 DEF MutexInd

\* The tick, the context switch and the idle task.
LEMMA MutexKernelKeeps ==
  ASSUME MutexInd, Sound(use), TickInterrupt \/ ContextSwitch \/ IdleYield,
         UNCHANGED <<mutexVars, use>>
  PROVE  MutexInd'
<1>1. UNCHANGED <<owner, ceiling_priority, mpc, pc, waiting, use>>
  BY DEF mutexVars, TickInterrupt, tick_interrupt, ContextSwitch, context_switch, IdleYield,
         idle_yield, semVars
<1>2. CASE ~InSwap
  <2>1. \A u \in Task : mpc[u] \notin SwapWindow
    BY <1>2 DEF MutexInd, MutexCallers, InSwap
  <2>2. MutexCallers'
    BY <1>1, <2>1 DEF MutexInd, MutexCallers
  <2>3. Next
    BY DEF Next
  <2> QED BY <1>2, <2>2, <2>3, SemStepKeeps
<1>3. CASE InSwap
  <2>1. /\ task_suspended_count = 1 /\ ~pendsv /\ \A t \in Task : pc[t] \notin Window
    BY <1>3 DEF MutexInd, SwapWindows
  <2>2. PICK c \in Task : c = kernel_current_task
    BY DEF MutexInd, SemCore, SemTypes
  <2>3. ~ContextSwitch
    BY <2>1 DEF ContextSwitch, context_switch, PendSV
  <2>4. ~IdleYield
    <3>1. c \in User
      <4>1. mpc[c] # "lock_owner"
        BY <1>3, <2>2 DEF InSwap, SwapWindow
      <4> QED BY <4>1, InsideGranted
    <3> QED BY <2>2, <3>1 DEF IdleYield, idle_yield, AtStep, User
  <2>5. TickInterrupt
    BY <2>3, <2>4
  <2>6. SemCore' /\ (pendsv' = TRUE => pendsv \/ task_suspended_count = 0)
    BY <2>5, TickCore DEF MutexInd
  <2>7. /\ kernel_current_task' = kernel_current_task /\ attr' = attr
        /\ task_suspended_count' = task_suspended_count
    BY <2>5 DEF TickInterrupt, tick_interrupt, SysTick
  <2>8. ~pendsv'
    <3>1. pendsv' \in BOOLEAN
      BY <2>6 DEF SemCore, SemTypes
    <3> QED BY <2>1, <2>6, <3>1
  <2>9. SwapWindows'
    BY <1>1, <1>3, <2>1, <2>7, <2>8 DEF SwapWindows, InSwap
  <2>10. MutexTypes' /\ OwnerOwns' /\ MutexCallers'
    BY <1>1, <2>7 DEF MutexInd, MutexTypes, OwnerOwns, MutexCallers
  <2>11. Exchanged'
    BY <1>1, <2>7 DEF MutexInd, Exchanged, AttrOf, Ceiling
  <2> QED BY <2>6, <2>9, <2>10, <2>11 DEF MutexInd
<1> QED BY <1>2, <1>3

-----------------------------------------------------------------------------
(* The theorems about the mutex *)

LEMMA MutexStarts ==
  ASSUME ReentrantInit
  PROVE  MutexInd
<1>1. /\ Init /\ use \in MutexUses /\ owner = NoTask /\ ceiling_priority = Ceiling
      /\ mpc = [t \in Task |-> "lock_owner"]
  BY DEF ReentrantInit, MutexInit
<1>2. SemInd /\ attr = AttrOf
  BY <1>1, SemInit
<1>3. SemCore /\ Windows
  BY <1>2, SemParts
<1>4. use \in Uses /\ use.mutex /\ kernel_current_task \in Task
  BY <1>1, <1>3 DEF SemCore, SemTypes, MutexUses
<1>5. ~InSwap
  BY <1>1, <1>4 DEF InSwap, SwapWindow
<1>6. SwapWindows
  BY <1>3, <1>5 DEF SwapWindows
<1>7. MutexTypes
  BY <1>1, <1>4, MutexUse DEF MutexTypes, MutexStep
<1>8. MutexCallers
  BY <1>1 DEF MutexCallers, SwapWindow
<1>9. OwnerOwns
  BY <1>1, NoTaskAssumption DEF OwnerOwns, Owning
<1>10. Exchanged
  BY <1>1, <1>2 DEF Exchanged, Raised
<1> QED BY <1>3, <1>6, <1>7, <1>8, <1>9, <1>10 DEF MutexInd

\* Nothing that the mutex or the semaphore knows changes.
LEMMA MutexSame ==
  ASSUME MutexInd, UNCHANGED <<allVars, use>>
  PROVE  MutexInd'
<1>1. /\ UNCHANGED <<kernel_ticks, kernel_current_task, attr, ready, blocked_curr, blocked_next,
                     ready_switch_next, pendsv, pc, semVars, localVars, use>>
      /\ UNCHANGED <<owner, ceiling_priority, mpc, waiting, task_suspended_count>>
  BY DEF allVars, vars, kernelVars, mutexVars, semVars
<1>2. SemCore
  BY DEF MutexInd
<1>3. SemCore'
  BY <1>1, <1>2, CoreSame
<1>4. SwapWindows'
  BY <1>1 DEF MutexInd, SwapWindows, InSwap, Windows
<1>5. MutexTypes' /\ MutexCallers' /\ OwnerOwns'
  BY <1>1 DEF MutexInd, MutexTypes, MutexCallers, OwnerOwns
<1>6. Exchanged'
  BY <1>1 DEF MutexInd, Exchanged, AttrOf, Ceiling
<1> QED BY <1>3, <1>4, <1>5, <1>6 DEF MutexInd

\* What a call of the reentrant lock does to the mutex.
LEMMA InMutexKeeps ==
  ASSUME MutexInd, Sound(use), SwapsAlone, NEW t \in Task, InMutexCall(t), use' = use
  PROVE  MutexInd'
<1>1. CASE LockOwner(t) \/ SwapSuspend(t) \/ Swap(t) \/ SwapResume(t) \/ UnlockOwner(t)
           \/ UnlockRelease(t)
  BY <1>1, LockOwnerKeeps, SwapSuspendKeeps, SwapKeeps, SwapResumeKeeps, UnlockOwnerKeeps,
     UnlockReleaseKeeps
<1>2. CASE InSemaphore(t) /\ UNCHANGED mutexVars
  BY <1>2, InSemaphoreKeeps
<1> QED BY <1>1, <1>2 DEF InMutexCall, InSemaphore

LEMMA ReentrantStepKeeps ==
  ASSUME MutexInd, Sound(use), SwapsAlone, NEW t \in User, ReentrantTaskStep(t), use' = use
  PROVE  MutexInd'
<1>0. t \in Task
  BY DEF User
<1>1. CASE Begin(t) \/ LockCount(t) \/ Write(t)
  <2>1. UNCHANGED <<allVars, use>>
    BY <1>1 DEF Begin, LockCount, Write
  <2> QED BY <2>1, MutexSame
<1>2. CASE CallMutex(t)
  <2>1. InSemaphore(t) /\ UNCHANGED mutexVars
    BY <1>2 DEF CallMutex, InSemaphore
  <2> QED BY <1>0, <2>1, InSemaphoreKeeps
<1>3. CASE TryFails(t)
  <2>1. UNCHANGED mutexVars /\ (TryTime(t) \/ UNCHANGED vars)
    BY <1>3 DEF TryFails
  <2>2. CASE TryTime(t)
    BY <1>0, <2>1, <2>2, InSemaphoreKeeps DEF InSemaphore
  <2>3. CASE UNCHANGED vars
    BY <2>1, <2>3, MutexSame DEF allVars
  <2> QED BY <2>1, <2>2, <2>3
<1>4. CASE reentrantlock_unlock(t)
  <2>1. mutex_unlock(t) \/ UNCHANGED allVars
    BY <1>4 DEF reentrantlock_unlock
  <2> QED BY <1>0, <2>1, MutexSame, UnlockKeeps
<1>5. CASE InMutexCall(t)
  BY <1>0, <1>5, InMutexKeeps
<1> QED BY <1>1, <1>2, <1>3, <1>4, <1>5 DEF ReentrantTaskStep

LEMMA MutexNext ==
  ASSUME MutexInd, Sound(use), [ReentrantNext]_<<reentrantVars, alone, use>>, alone' = TRUE
  PROVE  MutexInd'
<1>1. CASE UNCHANGED <<reentrantVars, alone, use>>
  BY <1>1, MutexSame DEF reentrantVars
<1>2. CASE ReentrantNext
  <2>1. use' = use /\ SwapsAlone
    BY <1>2 DEF ReentrantNext
  <2>2. CASE (TickInterrupt \/ ContextSwitch \/ IdleYield) /\ UNCHANGED <<mutexVars, lockVars>>
    BY <2>1, <2>2, MutexKernelKeeps
  <2>3. CASE \E t \in User : ReentrantTaskStep(t)
    BY <2>1, <2>3, ReentrantStepKeeps
  <2> QED BY <1>2, <2>2, <2>3 DEF ReentrantNext
<1> QED BY <1>1, <1>2

\* What holds of the mutex as long as the owner has been alone.
AloneInd == alone \in BOOLEAN /\ use \in MutexUses /\ (alone => MutexInd)

LEMMA AloneNext ==
  ASSUME alone \in BOOLEAN, use \in MutexUses, [ReentrantNext]_<<reentrantVars, alone, use>>
  PROVE  alone' \in BOOLEAN /\ use' \in MutexUses /\ (alone' => alone)
<1>1. MutexUses' = MutexUses
  BY DEF MutexUses
<1>2. CASE UNCHANGED <<reentrantVars, alone, use>>
  BY <1>1, <1>2
<1>3. CASE ReentrantNext
  <2>1. use' = use
    BY <1>3 DEF ReentrantNext
  <2>2. alone' = (alone /\ SwapsAlone)
    BY <1>3 DEF ReentrantNext
  <2> QED BY <1>1, <2>1, <2>2
<1> QED BY <1>2, <1>3

\* The invariant holds of every system that uses the semaphore of the mutex soundly.
LEMMA MutexInvariance ==
  ASSUME \A u \in MutexUses : Sound(u)
  PROVE  ReentrantSpec => []AloneInd
<1>1. ReentrantInit => AloneInd
  BY MutexStarts DEF AloneInd, ReentrantInit, MutexInit
<1>2. AloneInd /\ [ReentrantNext]_<<reentrantVars, alone, use>> => AloneInd'
  <2>1. SUFFICES ASSUME alone \in BOOLEAN, use \in MutexUses, alone => MutexInd,
                        [ReentrantNext]_<<reentrantVars, alone, use>>
                 PROVE  alone' \in BOOLEAN /\ use' \in MutexUses /\ (alone' => MutexInd')
    BY DEF AloneInd
  <2>2. alone' \in BOOLEAN /\ use' \in MutexUses /\ (alone' => alone)
    BY <2>1, AloneNext
  <2>3. ASSUME alone' = TRUE PROVE MutexInd'
    <3>1. MutexInd /\ Sound(use)
      BY <2>1, <2>2, <2>3
    <3> QED BY <2>1, <2>3, <3>1, MutexNext
  <2> QED BY <2>2, <2>3
<1> QED BY <1>1, <1>2, PTL DEF ReentrantSpec

\* mutex_get_owner names the one task between the assignments to owner in mutex_lock
\* and mutex_unlock, and the assertion of mutex_unlock holds.
THEOREM OwnerIsInMutex ==
  ASSUME \A u \in MutexUses : Sound(u)
  PROVE  ReentrantSpec => []OwnerHasLock
<1>1. AloneInd => OwnerHasLock
  <2>1. SUFFICES ASSUME MutexInd PROVE InMutex = {owner} \ {NoTask}
    BY DEF OwnerHasLock, AloneInd
  <2>2. ASSUME NEW t \in Task PROVE t \in InMutex <=> owner = t
    <3>1. owner = t <=> mpc[t] \notin {"lock_owner", "release"}
      BY <2>1 DEF MutexInd, OwnerOwns, Owning, MutexTypes
    <3>2. mpc[t] # "lock_owner" => t \in User /\ pc[t] \in {"held", "held_sleep_yield"}
      BY <2>1, InsideGranted DEF MutexInd, MutexCallers
    <3> QED BY <3>1, <3>2 DEF InMutex
  <2>3. InMutex \subseteq Task /\ owner \in Task \union {NoTask}
    BY <2>1 DEF InMutex, User, MutexInd, MutexTypes
  <2> QED BY <2>2, <2>3, NoTaskAssumption
<1> QED BY <1>1, MutexInvariance, PTL

\* When nobody has the lock every task has its own priority, and the mutex the ceiling.
THEOREM PrioritiesComeBack ==
  ASSUME \A u \in MutexUses : Sound(u)
  PROVE  ReentrantSpec => []PrioritiesRestored
<1>1. AloneInd => PrioritiesRestored
  <2>1. SUFFICES ASSUME MutexInd,
                        \A t \in User : mpc[t] \in {"lock_owner", "lock_suspend", "lock_swap",
                                                    "unlock_owner", "release"}
                 PROVE  ceiling_priority = Ceiling /\ attr = AttrOf
    BY DEF PrioritiesRestored, AloneInd
  <2>2. ASSUME NEW t \in Task PROVE mpc[t] \notin Raised
    <3>1. mpc[t] # "lock_owner" => t \in User
      BY <2>1, InsideGranted
    <3> QED BY <2>1, <3>1 DEF Raised
  <2> QED BY <2>1, <2>2, NoneRaised
<1> QED BY <1>1, MutexInvariance, PTL

\* A number of lists.
LEMMA OneOf ==
  ASSUME NEW x, NEW S, S = {x}
  PROVE  Cardinality(S) = 1
BY FS_Singleton

\* A task whose priority is exchanged is taken out of one list and put into another
\* one: no task is lost, and none is in two lists.
THEOREM MutexLosesNobody ==
  ASSUME \A u \in MutexUses : Sound(u)
  PROVE  ReentrantSpec => []MutexInv
<1>1. AloneInd => MutexInv
  <2>1. SUFFICES ASSUME MutexInd, alone \in BOOLEAN
                 PROVE  MutexTypeOK /\ NobodyLost /\ ReadyAtOwnPriority
    BY DEF MutexInv, AloneInd
  <2>2. SemCore /\ Lists(ready, blocked_curr, blocked_next, attr, waiting)
    BY <2>1 DEF MutexInd, SemCore
  <2>3. TypeOK
    <3>1. task_suspended_count \in Nat
      BY <2>1 DEF MutexInd, SwapWindows, Windows
    <3> QED BY <2>2, <3>1, CoreTypeOK
  <2>4. MutexTypeOK
    BY <2>1, <2>3 DEF MutexTypeOK, MutexInd, MutexTypes
  <2>5. ReadyAtOwnPriority
    BY <2>2 DEF ReadyAtOwnPriority, ReadyTasks, Lists, OwnPriority
  <2>6. ASSUME NEW t \in Task
        PROVE  Cardinality({p \in Priority : t \in ReadyTasks(p)})
                 + (IF t \in Sleeping THEN 1 ELSE 0)
                 + (IF t \in Range(waiting) THEN 1 ELSE 0) = 1
    <3>1. PICK p \in Priority : p = attr[t].priority
      BY <2>2, HasPriority DEF Lists
    <3>2. PICK S : S = {q \in Priority : t \in ReadyTasks(q)}
      OBVIOUS
    <3>3. PICK asleep : asleep = SleepersOf(blocked_curr) \union SleepersOf(blocked_next)
      OBVIOUS
    <3>4. \/ /\ t \in Range(ready.list[p]) /\ t \notin asleep /\ t \notin Range(waiting)
          \/ /\ t \in asleep /\ t \notin Range(waiting)
             /\ \A q \in Priority : t \notin Range(ready.list[q])
          \/ /\ t \in Range(waiting) /\ t \notin asleep
             /\ \A q \in Priority : t \notin Range(ready.list[q])
      BY <2>2, <3>1, <3>3, OnePlace
    <3>5. asleep = Sleeping
      BY <3>3 DEF Sleeping
    <3>6. CASE t \in Range(ready.list[p])
      <4>1. S = {p}
        BY <2>2, <3>1, <3>2, <3>6 DEF ReadyTasks, Lists, OwnPriority
      <4>2. Cardinality(S) = 1
        BY <4>1, OneOf
      <4> QED BY <3>1, <3>2, <3>4, <3>5, <3>6, <4>2
    <3>7. CASE t \notin Range(ready.list[p])
      <4>1. S = {}
        BY <3>1, <3>2, <3>4, <3>7 DEF ReadyTasks
      <4>2. Cardinality(S) = 0
        BY <4>1, FS_EmptySet
      <4> QED BY <3>2, <3>4, <3>5, <3>7, <4>2
    <3> QED BY <3>6, <3>7
  <2>7. NobodyLost
    BY <2>6 DEF NobodyLost
  <2> QED BY <2>4, <2>5, <2>7
<1> QED BY <1>1, MutexInvariance, PTL

\* Only the context switch gives the CPU to another task.
LEMMA OnlySwitch ==
  ASSUME MutexInd, [ReentrantNext]_<<reentrantVars, alone, use>>,
         kernel_current_task' # kernel_current_task
  PROVE  ContextSwitch
<1>1. ~UNCHANGED <<reentrantVars, alone, use>>
  BY DEF reentrantVars, allVars, vars, kernelVars
<1>2. ~TickInterrupt /\ ~IdleYield
  BY DEF TickInterrupt, tick_interrupt, SysTick, IdleYield, idle_yield, task_yield, UnchangedLists
<1>3. ASSUME NEW t \in User, ReentrantTaskStep(t) PROVE FALSE
  <2>1. t \in Task
    BY DEF User
  <2>2. ~InSemaphore(t)
    BY <2>1, AcquireMoves, WaitMoves, ReleaseMoves, SleepMoves DEF InSemaphore, TaskMove
  <2>3. ~UNCHANGED vars
    BY DEF vars, kernelVars
  <2>4. ~(SwapSuspend(t) \/ Swap(t) \/ SwapResume(t) \/ UnlockRelease(t))
    BY DEF SwapSuspend, Swap, SwapResume, UnlockRelease, ReleaseSuspend, task_suspend_all,
           task_resume_all, UnchangedLists
  <2>5. ~(LockOwner(t) \/ UnlockOwner(t) \/ mutex_unlock(t) \/ UNCHANGED allVars)
    BY <2>3 DEF LockOwner, UnlockOwner, mutex_unlock, allVars
  <2>6. ~InMutexCall(t)
    BY <2>2, <2>4, <2>5 DEF InMutexCall, InSemaphore
  <2>7. ~(Begin(t) \/ LockCount(t) \/ Write(t) \/ reentrantlock_unlock(t))
    BY <2>5 DEF Begin, LockCount, Write, reentrantlock_unlock
  <2>8. ~(CallMutex(t) \/ TryFails(t))
    BY <2>2, <2>3 DEF CallMutex, TryFails, InSemaphore
  <2> QED BY <1>3, <2>6, <2>7, <2>8 DEF ReentrantTaskStep
<1> QED BY <1>1, <1>2, <1>3 DEF ReentrantNext

\* Only task_sleep takes a task to the step after it.
LEMMA OnlySleep ==
  ASSUME MutexInd, [ReentrantNext]_<<reentrantVars, alone, use>>, NEW t \in User,
         pc[t] \in {"out", "held"}, pc'[t] \in {"sleep_yield", "held_sleep_yield"}
  PROVE  MutexSleep(t)
<1>0. t \in Task /\ pc \in [Task -> Step] /\ pc' # pc
  BY DEF User, MutexInd, SemCore, SemTypes
<1>1. ~UNCHANGED <<reentrantVars, alone, use>> /\ ~UNCHANGED vars
  BY <1>0 DEF reentrantVars, allVars, vars
<1>2. ~TickInterrupt /\ ~IdleYield /\ ~ContextSwitch
  BY <1>0 DEF TickInterrupt, tick_interrupt, IdleYield, idle_yield, ContextSwitch, context_switch
<1>3. PICK u \in User : ReentrantTaskStep(u)
  BY <1>1, <1>2 DEF ReentrantNext
<1>4. u \in Task
  BY DEF User
<1>5. ~(SwapSuspend(u) \/ Swap(u) \/ SwapResume(u))
  BY <1>0 DEF SwapSuspend, Swap, SwapResume
<1>6. ~(LockOwner(u) \/ UnlockOwner(u) \/ mutex_unlock(u) \/ UNCHANGED allVars)
  BY <1>1 DEF LockOwner, UnlockOwner, mutex_unlock, allVars
<1>7. ~(Begin(u) \/ LockCount(u) \/ Write(u) \/ reentrantlock_unlock(u))
  BY <1>6 DEF Begin, LockCount, Write, reentrantlock_unlock
<1>8. InSemaphore(u) \/ UnlockRelease(u)
  BY <1>1, <1>3, <1>5, <1>6, <1>7
     DEF ReentrantTaskStep, InMutexCall, InSemaphore, CallMutex, TryFails
<1>9. u = t
  <2>1. SUFFICES ASSUME u # t PROVE pc'[t] = pc[t]
    BY DEF Step
  <2>2. CASE InSemaphore(u)
    <3>1. TaskMove(u)
      BY <1>4, <2>2, AcquireMoves, WaitMoves, ReleaseMoves, SleepMoves DEF InSemaphore
    <3> QED BY <1>0, <2>1, <3>1 DEF TaskMove
  <2>3. CASE UnlockRelease(u)
    BY <1>0, <2>1, <2>3 DEF UnlockRelease, ReleaseSuspend, Goto
  <2> QED BY <1>8, <2>2, <2>3
<1>10. ~UnlockRelease(t)
  BY <1>0 DEF UnlockRelease, ReleaseSuspend, Goto
<1>11. ~(AcquireDec(t) \/ AcquireTest(t) \/ AcquireResume(t) \/ AcquireYield(t)
         \/ TryTest(t) \/ TryTake(t) \/ TryTime(t) \/ TryYield(t)
         \/ ReleaseInc(t) \/ ReleaseWake(t) \/ ReleaseResume(t) \/ SleepYield(t))
  BY DEF AcquireDec, AcquireTest, AcquireResume, AcquireYield, TryTest, TryTake, TryTime, TryYield,
         ReleaseInc, ReleaseWake, ReleaseResume, SleepYield, sleep_yield, AtStep
<1>12. ~(AcquireSuspend(t) \/ TryAcquire(t))
  BY <1>0 DEF AcquireSuspend, TryAcquire, Goto
<1> QED BY <1>8, <1>9, <1>10, <1>11, <1>12 DEF InSemaphore

\* While a task has the lock and does not sleep, the tick and the context switch
\* give the CPU to it or to a task of the ceiling's priority or a higher one.
THEOREM NoInversionInMutex ==
  ASSUME \A u \in MutexUses : Sound(u)
  PROVE  ReentrantSpec => NoInversion
<1>1. AloneInd /\ [ReentrantNext]_<<reentrantVars, alone, use>> =>
        [\A t \in User :
           alone /\ mpc[t] = "locked" /\ t \notin Sleeping /\ kernel_current_task' # kernel_current_task
             => \/ kernel_current_task' = t
                \/ AttrOf[kernel_current_task'].priority >= Ceiling]_allVars
  <2>1. SUFFICES ASSUME MutexInd, [ReentrantNext]_<<reentrantVars, alone, use>>,
                        NEW t \in User, mpc[t] = "locked", t \notin Sleeping,
                        kernel_current_task' # kernel_current_task, kernel_current_task' # t
                 PROVE  AttrOf[kernel_current_task'].priority >= Ceiling
    BY DEF AloneInd
  <2>2. t \in Task
    BY DEF User
  <2>3. ContextSwitch
    BY <2>1, OnlySwitch
  <2>4. SemCore /\ Lists(ready, blocked_curr, blocked_next, attr, waiting)
    BY <2>1 DEF MutexInd, SemCore
  <2>5. /\ mpc[t] \in Raised /\ mpc[t] \in Owning /\ mpc[t] # "lock_owner"
    BY <2>1 DEF Raised, Owning, MutexStep
  <2>6. t \notin Range(waiting)
    BY <2>1, <2>2, <2>5 DEF MutexInd, MutexCallers
  <2>7. AttrOf \in [Task -> Attribute] /\ Ceiling \in Priority
    BY <2>1, <2>4, UseFacts, MutexUse DEF MutexInd, MutexTypes, SemCore, SemTypes
  <2>8. PICK q \in Priority : q = Ceiling
    BY <2>7
  <2>9. attr[t] = [AttrOf[t] EXCEPT !.priority = Ceiling]
    BY <2>1, <2>2, <2>5 DEF MutexInd, Exchanged
  <2>10. attr[t].priority = q
    BY <2>2, <2>7, <2>8, <2>9 DEF Attribute
  <2>11. t \in Range(ready.list[q])
    <3>1. PICK asleep : asleep = SleepersOf(blocked_curr) \union SleepersOf(blocked_next)
      OBVIOUS
    <3>2. t \notin asleep
      BY <2>1, <3>1 DEF Sleeping
    <3> QED BY <2>2, <2>4, <2>6, <2>10, <3>1, <3>2, OnePlace
  <2>12. /\ StayReady(ready, ready', {})
         /\ kernel_current_task' \in Task
         /\ \A p \in Priority : ready'.list[p] # <<>> => p <= attr'[kernel_current_task'].priority
    <3>1. PendSV /\ kernel_current_task \in Task
      BY <2>3, <2>4 DEF ContextSwitch, context_switch, SemCore, SemTypes
    <3> QED BY <2>4, <3>1, SwitchLists
  <2>13. attr' = attr
    BY <2>3 DEF ContextSwitch, context_switch, PendSV
  <2>14. ready'.list[q] # <<>>
    <3>1. t \in Range(ready'.list[q])
      BY <2>11, <2>12, ReadyStill
    <3> QED BY <3>1 DEF Range
  <2>15. PICK c \in Task : c = kernel_current_task'
    BY <2>12
  <2>16. q <= attr[c].priority
    BY <2>12, <2>13, <2>14, <2>15
  <2>17. attr[c] = AttrOf[c]
    <3>1. c # t /\ owner = t
      BY <2>1, <2>2, <2>5, <2>15 DEF MutexInd, OwnerOwns
    <3>2. mpc[c] \notin Owning
      BY <2>1, <3>1 DEF MutexInd, OwnerOwns
    <3>3. mpc[c] \notin Raised
      BY <3>2 DEF Owning, Raised, MutexStep
    <3> QED BY <2>1, <3>3 DEF MutexInd, Exchanged
  <2>18. AttrOf[c].priority \in Priority
    BY <2>7, HasPriority
  <2> QED BY <2>8, <2>15, <2>16, <2>17, <2>18 DEF Priority
<1> QED BY <1>1, MutexInvariance, PTL DEF ReentrantSpec, NoInversion

\* The task that calls task_sleep is the front task that sleep_front puts to sleep.
THEOREM TheCallerSleeps ==
  ASSUME \A u \in MutexUses : Sound(u)
  PROVE  ReentrantSpec => SleepsItself
<1>1. AloneInd /\ [ReentrantNext]_<<reentrantVars, alone, use>> =>
        [\A t \in User : alone /\ pc[t] \in {"out", "held"} /\ pc'[t] \in {"sleep_yield", "held_sleep_yield"}
           => t \in SleepersOf(blocked_curr') \union SleepersOf(blocked_next')]_allVars
  <2>1. SUFFICES ASSUME MutexInd, [ReentrantNext]_<<reentrantVars, alone, use>>,
                        NEW t \in User, pc[t] \in {"out", "held"},
                        pc'[t] \in {"sleep_yield", "held_sleep_yield"}
                 PROVE  t \in SleepersOf(blocked_curr') \union SleepersOf(blocked_next')
    BY DEF AloneInd
  <2>2. t \in Task
    BY DEF User
  <2>3. MutexSleep(t)
    BY <2>1, OnlySleep
  <2>4. PICK from : /\ from \in {"out", "held"} /\ AtStep(t, from) /\ sleep_front(kernel_ticks)
                    /\ attr' = attr /\ waiting' = waiting
    BY <2>3 DEF MutexSleep, Sleep, sleep_one_tick, semVars
  <2>5. t = kernel_current_task /\ pc[t] = from /\ ~pendsv
    BY <2>4 DEF AtStep
  <2>6. SemCore /\ Lists(ready, blocked_curr, blocked_next, attr, waiting) /\ kernel_ticks \in Tick
    BY <2>1 DEF MutexInd, SemCore, SemTypes
  <2>7. AtFront(ready, attr, t)
    BY <2>4, <2>5, <2>6 DEF SemCore, FrontRuns, Away
  <2>8. t \notin Range(waiting)
    BY <2>2, <2>6, <2>7, FrontIsReady
  <2>9. /\ Lists(ready', blocked_curr', blocked_next', attr, waiting)
        /\ \A p \in Priority : t \notin Range(ready'.list[p])
    BY <2>4, <2>5, <2>6, <2>7, SleepLists
  <2>10. attr[t].priority \in Priority
    BY <2>2, <2>6, HasPriority DEF Lists
  <2>11. PICK r, curr, next : r = ready' /\ curr = blocked_curr' /\ next = blocked_next'
    OBVIOUS
  <2>12. PICK asleep : asleep = SleepersOf(curr) \union SleepersOf(next)
    OBVIOUS
  <2>13. t \in asleep
    BY <2>2, <2>8, <2>9, <2>10, <2>11, <2>12, OnePlace
  <2> QED BY <2>11, <2>12, <2>13
<1> QED BY <1>1, MutexInvariance, PTL DEF ReentrantSpec, SleepsItself

-----------------------------------------------------------------------------
(* The calls of a program *)

Call2 == Call1 \union {"count"}

\* The calls in S.
CallsIn(c, S) == {i \in DOMAIN c : c[i] \in S}

LEMMA CallsOfTail ==
  ASSUME NEW c \in Seq(Call2), c # <<>>, NEW S
  PROVE  /\ Cardinality(CallsIn(c, S)) \in Nat /\ Cardinality(CallsIn(Tail(c), S)) \in Nat
         /\ Cardinality(CallsIn(c, S)) =
              Cardinality(CallsIn(Tail(c), S)) + (IF Head(c) \in S THEN 1 ELSE 0)
<1>1. PICK n \in Nat : n = Len(c) /\ n > 0 /\ DOMAIN c = 1 .. n
  BY EmptySeq
<1>2. PICK d \in Seq(Call2) : d = Tail(c)
  BY HeadTailProperties
<1>3. Len(d) = n - 1 /\ DOMAIN d = 1 .. n - 1 /\ \A i \in 1 .. n - 1 : d[i] = c[i + 1]
  BY <1>1, <1>2, HeadTailProperties
<1>4. Head(c) = c[1]
  OBVIOUS
<1>5. PICK A : A = CallsIn(c, S)
  OBVIOUS
<1>6. PICK B : B = CallsIn(d, S)
  OBVIOUS
<1>7. A \subseteq 1 .. n /\ B \subseteq 1 .. n - 1
  BY <1>1, <1>3, <1>5, <1>6 DEF CallsIn
<1>8. IsFiniteSet(1 .. n) /\ IsFiniteSet(1 .. n - 1)
  BY FS_Interval
<1>9. IsFiniteSet(A) /\ IsFiniteSet(B) /\ Cardinality(A) \in Nat /\ Cardinality(B) \in Nat
  BY <1>7, <1>8, FS_Subset, FS_CardinalityType
<1>10. IsFiniteSet(A \ {1})
  BY <1>9, FS_Subset
<1>11. Cardinality(A \ {1}) = Cardinality(B)
  <2>1. PICK f : f = [i \in B |-> i + 1]
    OBVIOUS
  <2>2. f \in [B -> A \ {1}]
    <3>1. ASSUME NEW i \in B PROVE i + 1 \in A \ {1}
      <4>1. i \in 1 .. n - 1 /\ d[i] \in S
        BY <1>3, <1>6, <3>1 DEF CallsIn
      <4>2. i + 1 \in 1 .. n /\ c[i + 1] \in S /\ i + 1 # 1
        BY <1>1, <1>3, <4>1
      <4> QED BY <1>1, <1>5, <4>2 DEF CallsIn
    <3> QED BY <2>1, <3>1
  <2>3. \A i, j \in B : f[i] = f[j] => i = j
    BY <1>7, <2>1
  <2>4. \A j \in A \ {1} : \E i \in B : f[i] = j
    <3>1. SUFFICES ASSUME NEW j \in A, j # 1 PROVE \E i \in B : f[i] = j
      OBVIOUS
    <3>2. j \in 1 .. n /\ c[j] \in S
      BY <1>1, <1>5, <3>1 DEF CallsIn
    <3>3. PICK i \in 1 .. n - 1 : i + 1 = j
      <4>1. j - 1 \in 1 .. n - 1 /\ (j - 1) + 1 = j
        BY <1>1, <3>1, <3>2
      <4> QED BY <4>1
    <3>4. i \in B
      BY <1>3, <1>6, <3>2, <3>3 DEF CallsIn
    <3> QED BY <2>1, <3>3, <3>4
  <2>5. f \in Bijection(B, A \ {1})
    BY <2>2, <2>3, <2>4 DEF Bijection, Injection, Surjection, IsInjective
  <2>6. ExistsBijection(B, A \ {1})
    BY <2>5 DEF ExistsBijection
  <2> QED BY <1>9, <2>6, FS_Bijection
<1>12. 1 \in A <=> Head(c) \in S
  BY <1>1, <1>4, <1>5 DEF CallsIn
<1>13. CASE Head(c) \in S
  <2>1. Cardinality(A \ {1}) = Cardinality(A) - 1
    BY <1>9, <1>12, <1>13, FS_RemoveElement
  <2> QED BY <1>2, <1>5, <1>6, <1>9, <1>11, <1>13, <2>1
<1>14. CASE Head(c) \notin S
  <2>1. A \ {1} = A
    BY <1>12, <1>14
  <2>2. Cardinality(A) = Cardinality(B)
    BY <1>11, <2>1
  <2>3. PICK k \in Nat : k = Cardinality(B)
    BY <1>9
  <2>4. Cardinality(A) = k + 0
    BY <2>2, <2>3
  <2> QED BY <1>2, <1>5, <1>6, <1>14, <2>3, <2>4
<1> QED BY <1>13, <1>14

LEMMA NoDepth == DepthOf(<<>>) = 0
<1>1. {i \in DOMAIN <<>> : <<>>[i] = "unlock"} = {}
  OBVIOUS
<1>2. {i \in DOMAIN <<>> : <<>>[i] \in {"lock", "try", "count"}} = {}
  OBVIOUS
<1> QED BY <1>1, <1>2, FS_EmptySet DEF DepthOf

LEMMA DepthOfTail ==
  ASSUME NEW c \in Seq(Call2), c # <<>>
  PROVE  /\ Head(c) \in Call2 /\ Tail(c) \in Seq(Call2)
         /\ DepthOf(c) \in Int /\ DepthOf(Tail(c)) \in Int
         /\ Head(c) = "unlock" => DepthOf(Tail(c)) = DepthOf(c) - 1
         /\ Head(c) \in {"lock", "try", "count"} => DepthOf(Tail(c)) = DepthOf(c) + 1
         /\ Head(c) = "write" => DepthOf(Tail(c)) = DepthOf(c)
<1>1. \A e : DepthOf(e) = Cardinality(CallsIn(e, {"unlock"}))
                            - Cardinality(CallsIn(e, {"lock", "try", "count"}))
  <2>1. \A e : {i \in DOMAIN e : e[i] = "unlock"} = CallsIn(e, {"unlock"})
    BY DEF CallsIn
  <2> QED BY <2>1 DEF DepthOf, CallsIn
<1>2. PICK u \in Nat : u = Cardinality(CallsIn(Tail(c), {"unlock"}))
  BY CallsOfTail
<1>3. PICK k \in Nat : k = Cardinality(CallsIn(Tail(c), {"lock", "try", "count"}))
  BY CallsOfTail
<1>4. DepthOf(Tail(c)) = u - k
  BY <1>1, <1>2, <1>3
<1>5. DepthOf(c) = (u + (IF Head(c) \in {"unlock"} THEN 1 ELSE 0))
                     - (k + (IF Head(c) \in {"lock", "try", "count"} THEN 1 ELSE 0))
  <2>1. Cardinality(CallsIn(c, {"unlock"})) = u + (IF Head(c) \in {"unlock"} THEN 1 ELSE 0)
    BY <1>2, CallsOfTail
  <2>2. Cardinality(CallsIn(c, {"lock", "try", "count"})) =
          k + (IF Head(c) \in {"lock", "try", "count"} THEN 1 ELSE 0)
    BY <1>3, CallsOfTail
  <2> QED BY <1>1, <2>1, <2>2
<1>6. Head(c) \in Call2 /\ Tail(c) \in Seq(Call2)
  BY HeadTailProperties
<1> QED BY <1>4, <1>5, <1>6

\* The call of a lock, and what is left to do when it has been got.
LEMMA DepthOfEntering ==
  ASSUME NEW s \in Seq(Call2), s # <<>>, Head(s) \in {"lock", "try"},
         NEW c, c = <<"count">> \o Tail(s)
  PROVE  /\ c \in Seq(Call2) /\ c # <<>> /\ Head(c) = "count" /\ Tail(c) = Tail(s)
         /\ DepthOf(c) = DepthOf(s)
<1>1. PICK d \in Seq(Call2) : d = Tail(s)
  BY HeadTailProperties
<1>2. "count" \in Call2
  BY DEF Call2
<1>3. c \in Seq(Call2) /\ Len(c) = Len(d) + 1 /\ c[1] = "count"
      /\ \A i \in 1 .. Len(d) : c[i + 1] = d[i]
  BY <1>1, <1>2
<1>4. c # <<>> /\ Head(c) = "count"
  BY <1>1, <1>3
<1>5. Tail(c) = d
  <2>1. Tail(c) \in Seq(Call2) /\ Len(Tail(c)) = Len(d) /\ \A i \in 1 .. Len(d) : Tail(c)[i] = d[i]
    BY <1>1, <1>3, <1>4, HeadTailProperties
  <2> QED BY <1>1, <2>1, SeqEqual
<1>6. DepthOf(Tail(c)) = DepthOf(c) + 1 /\ DepthOf(c) \in Int
  BY <1>3, <1>4, DepthOfTail
<1>7. DepthOf(d) = DepthOf(s) + 1 /\ DepthOf(s) \in Int
  BY <1>1, DepthOfTail
<1>8. DepthOf(c) = DepthOf(s)
  <2>1. PICK m \in Int : m = DepthOf(c)
    BY <1>6
  <2>2. PICK n \in Int : n = DepthOf(s)
    BY <1>7
  <2>3. m + 1 = n + 1
    BY <1>5, <1>6, <1>7, <2>1, <2>2
  <2>4. m = n
    BY <2>3
  <2> QED BY <2>1, <2>2, <2>4
<1> QED BY <1>1, <1>3, <1>4, <1>5, <1>8

-----------------------------------------------------------------------------
(* What is left of a program *)

LEMMA RestIsCalls ==
  ASSUME NEW p \in Seq(Call1), NEW s \in Rests(p)
  PROVE  s \in Seq(Call1) /\ s \in Seq(Call2) /\ Len(s) <= Len(p)
<1>1. PICK i \in 1 .. Len(p) + 1 : s = SubSeq(p, i, Len(p))
  BY DEF Rests
<1>2. PICK n \in Nat : n = Len(p) /\ \A j \in i .. n : p[j] \in Call1
  BY LenProperties
<1>3. s \in Seq(Call1) /\ Len(s) = IF i <= n THEN n - i + 1 ELSE 0
  BY <1>1, <1>2, SubSeqProperties
<1>4. Len(s) <= n
  BY <1>2, <1>3
<1>5. Call1 \subseteq Call2
  BY DEF Call2
<1> QED BY <1>2, <1>3, <1>4, <1>5

\* The rest of a rest.
LEMMA RestBehind ==
  ASSUME NEW p \in Seq(Call1), NEW s \in Rests(p), NEW k \in 0 .. Len(s)
  PROVE  SubSeq(s, k + 1, Len(s)) \in Rests(p)
<1>1. PICK i \in 1 .. Len(p) + 1 : s = SubSeq(p, i, Len(p))
  BY DEF Rests
<1>2. PICK n \in Nat : n = Len(p) /\ \A j \in 1 .. n : p[j] \in Call1
  BY LenProperties
<1>3. /\ s \in Seq(Call1) /\ Len(s) = IF i <= n THEN n - i + 1 ELSE 0
      /\ \A j \in 1 .. n - i + 1 : s[j] = p[i + j - 1]
  BY <1>1, <1>2, SubSeqProperties
<1>4. PICK m \in Nat : m = Len(s) /\ m = n - i + 1 /\ k \in 0 .. m
  <2>1. i \in 1 .. n + 1
    BY <1>2
  <2>2. Len(s) = n - i + 1
    BY <1>3, <2>1
  <2>3. n - i + 1 \in Nat
    BY <2>1
  <2>4. k \in 0 .. (n - i + 1)
    BY <2>2
  <2> QED BY <2>2, <2>3, <2>4
<1>5. PICK a : a = SubSeq(s, k + 1, m)
  OBVIOUS
<1>6. PICK b : b = SubSeq(p, i + k, n)
  OBVIOUS
<1>7. /\ a \in Seq(Call1) /\ Len(a) = m - k
      /\ \A j \in 1 .. m - k : a[j] = s[k + j]
  <2>1. k + 1 \in Int /\ m \in Int /\ \A j \in k + 1 .. m : s[j] \in Call1
    BY <1>3, <1>4, LenProperties
  <2>2. /\ a \in Seq(Call1) /\ Len(a) = IF k + 1 <= m THEN m - (k + 1) + 1 ELSE 0
        /\ \A j \in 1 .. m - (k + 1) + 1 : a[j] = s[(k + 1) + j - 1]
    BY <1>5, <2>1, SubSeqProperties
  <2>3. \A j \in 1 .. m - k : (k + 1) + j - 1 = k + j /\ j \in 1 .. m - (k + 1) + 1
    BY <1>4
  <2> QED BY <1>4, <2>2, <2>3
<1>8. /\ b \in Seq(Call1) /\ Len(b) = m - k
      /\ \A j \in 1 .. m - k : b[j] = p[i + k + j - 1]
  <2>1. i + k \in Int /\ n \in Int /\ \A j \in i + k .. n : p[j] \in Call1
    BY <1>2, <1>4
  <2>2. /\ b \in Seq(Call1) /\ Len(b) = IF i + k <= n THEN n - (i + k) + 1 ELSE 0
        /\ \A j \in 1 .. n - (i + k) + 1 : b[j] = p[(i + k) + j - 1]
    BY <1>6, <2>1, SubSeqProperties
  <2>3. n - (i + k) + 1 = m - k
    BY <1>4
  <2> QED BY <1>4, <2>2, <2>3
<1>9. \A j \in 1 .. m - k : a[j] = b[j]
  <2>1. SUFFICES ASSUME NEW j \in 1 .. m - k PROVE a[j] = b[j]
    OBVIOUS
  <2>2. k + j \in 1 .. n - i + 1 /\ i + (k + j) - 1 = i + k + j - 1
    BY <1>4, <2>1
  <2>3. s[k + j] = p[i + (k + j) - 1]
    BY <1>3, <2>2
  <2> QED BY <1>7, <1>8, <2>1, <2>2, <2>3
<1>10. a = b
  BY <1>7, <1>8, <1>9, SeqEqual
<1>11. i + k \in 1 .. n + 1
  BY <1>4
<1>12. b \in Rests(p)
  BY <1>2, <1>6, <1>11 DEF Rests
<1> QED BY <1>4, <1>5, <1>10, <1>12

LEMMA WithoutLock ==
  ASSUME NEW p \in Seq(Call1), NEW s \in Rests(p)
  PROVE  without_lock(s) \in Rests(p)
<1>1. PICK n \in Nat : n = Len(s)
  BY RestIsCalls, LenProperties
<1>2. PICK I : I = {i \in 1 .. n : s[i] = "unlock"}
  OBVIOUS
<1>3. PICK k : k = SelectInSeq(s, LAMBDA c : c = "unlock")
  OBVIOUS
<1>4. k = IF I # {} THEN Min(I) ELSE 0
  BY <1>1, <1>2, <1>3 DEF SelectInSeq
<1>5. k \in 0 .. n
  <2>1. CASE I # {}
    <3>1. I \in SUBSET Nat
      BY <1>2
    <3>2. Min(I) \in I
      BY <2>1, <3>1, LeastExists
    <3> QED BY <1>2, <1>4, <2>1, <3>2
  <2>2. CASE I = {}
    BY <1>4, <2>2
  <2> QED BY <2>1, <2>2
<1>6. without_lock(s) = SubSeq(s, k + 1, Len(s))
  BY <1>3 DEF without_lock
<1> QED BY <1>1, <1>5, <1>6, RestBehind

LEMMA TailIsRest ==
  ASSUME NEW p \in Seq(Call1), NEW s \in Rests(p), s # <<>>
  PROVE  Tail(s) \in Rests(p) /\ Head(s) \in Call1 /\ Tail(s) # p
<1>1. s \in Seq(Call1) /\ Len(s) <= Len(p)
  BY RestIsCalls
<1>2. PICK n \in Nat : n = Len(s) /\ n > 0
  BY <1>1, EmptySeq
<1>3. Head(s) \in Call1 /\ Len(Tail(s)) = n - 1
  BY <1>1, <1>2, HeadTailProperties
<1>4. Tail(s) = SubSeq(s, 1 + 1, Len(s))
  BY <1>1, TailIsSubSeq
<1>5. Tail(s) \in Rests(p)
  <2>1. 1 \in 0 .. Len(s)
    BY <1>2
  <2>2. SubSeq(s, 1 + 1, Len(s)) \in Rests(p)
    BY <2>1, RestBehind
  <2> QED BY <1>4, <2>2
<1>6. Tail(s) # p
  <2>1. PICK m \in Nat : m = Len(p)
    BY LenProperties
  <2>2. n <= m
    BY <1>1, <1>2, <2>1
  <2>3. n - 1 # m
    BY <2>2
  <2> QED BY <1>3, <2>1, <2>3
<1> QED BY <1>3, <1>5, <1>6

\* What is left of the programs of a task.
RestOf(t) == {<<>>} \union UNION {Rests(p) : p \in use.programs[t]}

LEMMA RestFacts ==
  ASSUME use \in MutexUses, Balanced(use), NEW t \in User, NEW s \in RestOf(t)
  PROVE  /\ s \in Seq(Call2) /\ DepthOf(s) \in Int /\ DepthOf(s) >= 0
         /\ s # <<>> => Head(s) \in Call1 /\ Tail(s) \in RestOf(t)
         /\ s # <<>> /\ Head(s) = "try" =>
              /\ without_lock(Tail(s)) \in RestOf(t)
              /\ DepthOf(without_lock(Tail(s))) = DepthOf(s)
<1>1. use.programs[t] \in SUBSET Seq(Call1)
  BY ReentrantAssumption
<1>2. CASE s = <<>>
  <2>1. s \in Seq(Call2)
    BY <1>2
  <2>2. DepthOf(s) = 0
    BY <1>2, NoDepth
  <2> QED BY <1>2, <2>1, <2>2
<1>3. CASE s # <<>>
  <2>1. PICK p \in use.programs[t] : s \in Rests(p)
    BY <1>3 DEF RestOf
  <2>2. p \in Seq(Call1)
    BY <1>1, <2>1
  <2>3. s \in Seq(Call2)
    BY <2>1, <2>2, RestIsCalls
  <2>4. DepthOf(s) \in Int
    BY <1>3, <2>3, DepthOfTail
  <2>5. /\ DepthOf(s) >= 0
        /\ Head(s) = "try" => DepthOf(without_lock(Tail(s))) = DepthOf(s)
    BY <1>3, <2>1 DEF Balanced
  <2>6. Tail(s) \in Rests(p) /\ Head(s) \in Call1
    BY <1>3, <2>1, <2>2, TailIsRest
  <2>7. without_lock(Tail(s)) \in Rests(p)
    BY <2>2, <2>6, WithoutLock
  <2>8. Rests(p) \subseteq RestOf(t)
    BY <2>1 DEF RestOf
  <2> QED BY <1>3, <2>3, <2>4, <2>5, <2>6, <2>7, <2>8
<1> QED BY <1>2, <1>3

\* The calls that are left after an unlock, or one that writes, are inside the lock.
LEMMA RestLocked ==
  ASSUME use \in MutexUses, Balanced(use), LockedThroughout(use), NEW t \in User,
         NEW s \in RestOf(t), s # <<>>
  PROVE  /\ Head(s) = "write" => DepthOf(s) # 0
         /\ Tail(s) # <<>> => DepthOf(Tail(s)) # 0
<1>1. PICK p \in use.programs[t] : s \in Rests(p)
  BY DEF RestOf
<1>2. p \in Seq(Call1)
  BY <1>1, ReentrantAssumption
<1>3. Tail(s) \in Rests(p) /\ Tail(s) # p
  BY <1>1, <1>2, TailIsRest
<1>4. \A rest \in Rests(p) : rest # <<>> /\ DepthOf(rest) = 0 => rest = p /\ Head(p) # "write"
  BY <1>1 DEF LockedThroughout
<1> QED BY <1>1, <1>3, <1>4

-----------------------------------------------------------------------------
(* The inductive invariant of the reentrant lock *)

\* On the way to the lock, or there.
Getting == AcquireStep \union TryStep \union {"held", "held_sleep_yield"}

Releasing == {"unlock_suspend", "unlock_swap", "unlock_resume", "unlock_owner", "release"}

\* What c is when a call at the head of s has begun.
Entered(s, c) == s # <<>> /\ Head(s) \in {"lock", "try"} /\ c = <<"count">> \o Tail(s)

\* A task has to make the rest of one of its programs, and before that to count the
\* lock that it is getting.
Left(t) ==
  \/ todo[t] \in RestOf(t) /\ pc[t] \notin TryStep
  \/ /\ pc[t] \in Getting /\ mpc[t] \notin Releasing
     /\ \E s \in RestOf(t) : Entered(s, todo[t]) /\ (pc[t] \in TryStep => Head(s) = "try")

\* A task that has counted the lock has the mutex and is not about to give it back.
Inside(t) == Depth(t) # 0 => owner = t /\ mpc[t] = "locked"

StateCounts == lock_state = IF owner = NoTask THEN 0 ELSE Depth(owner)

DepthInd ==
  /\ todo \in [Task -> Seq(Call2)]
  /\ \A t \in User : Left(t) /\ Inside(t)
  /\ StateCounts

\* A task that has written something is inside.
Written == writing \subseteq User /\ \A t \in writing : Depth(t) # 0

\* What is left to a task, in numbers.
LEMMA DepthOfLeft ==
  ASSUME use \in MutexUses, Balanced(use), NEW t \in User, Left(t)
  PROVE  Depth(t) \in Int /\ Depth(t) >= 0
<1>1. CASE todo[t] \in RestOf(t)
  BY <1>1, RestFacts DEF Depth
<1>2. CASE \E s \in RestOf(t) : Entered(s, todo[t])
  <2>1. PICK s \in RestOf(t) : Entered(s, todo[t])
    BY <1>2
  <2>2. s \in Seq(Call2) /\ DepthOf(s) \in Int /\ DepthOf(s) >= 0
    BY RestFacts
  <2>3. DepthOf(todo[t]) = DepthOf(s)
    BY <2>1, <2>2, DepthOfEntering DEF Entered
  <2> QED BY <2>2, <2>3 DEF Depth
<1> QED BY <1>1, <1>2 DEF Left

\* A step of t that leaves the mutex as it is, or moves inside it: what has to be
\* shown of t is enough.
LEMMA StepOfOne ==
  ASSUME DepthInd, MutexInd, MutexInd', use' = use, NEW t \in User,
         NEW calls \in Seq(Call2), todo' = [todo EXCEPT ![t] = calls],
         \A u \in Task : u # t => pc'[u] = pc[u] /\ mpc'[u] = mpc[u],
         Left(t)', Inside(t)', StateCounts'
  PROVE  DepthInd'
<1>0. t \in Task
  BY DEF User
<1>1. /\ todo' \in [Task -> Seq(Call2)] /\ \A u \in Task : u # t => todo'[u] = todo[u]
  BY <1>0 DEF DepthInd
<1>2. User' = User
  BY DEF User, IdleTask
<1>3. ASSUME NEW u \in User, u # t PROVE Left(u)' /\ Inside(u)'
  <2>1. u \in Task
    BY DEF User
  <2>2. pc'[u] = pc[u] /\ mpc'[u] = mpc[u] /\ todo'[u] = todo[u]
    BY <1>1, <1>3, <2>1
  <2>3. Left(u) /\ Inside(u)
    BY DEF DepthInd
  <2>4. RestOf(u)' = RestOf(u)
    BY DEF RestOf
  <2>5. Left(u)'
    BY <2>2, <2>3, <2>4 DEF Left
  <2>6. Inside(u)'
    <3>1. Depth(u)' = Depth(u)
      BY <2>2 DEF Depth
    <3>2. SUFFICES ASSUME Depth(u) # 0 PROVE owner' = u /\ mpc'[u] = "locked"
      BY <3>1 DEF Inside
    <3>3. mpc'[u] = "locked"
      BY <2>2, <2>3, <3>2 DEF Inside
    <3>4. owner' = u
      BY <2>1, <3>3 DEF MutexInd, OwnerOwns, Owning, MutexStep
    <3> QED BY <3>3, <3>4
  <2> QED BY <2>5, <2>6
<1> QED BY <1>1, <1>2, <1>3 DEF DepthInd

\* A step that changes the calls of a task, when the mutex stays as it is.
LEMMA CallsChange ==
  ASSUME NEW t \in Task, todo \in [Task -> Seq(Call2)], NEW calls, todo' = [todo EXCEPT ![t] = calls]
  PROVE  Depth(t)' = DepthOf(calls) /\ todo'[t] = calls
         /\ \A u \in Task : u # t => Depth(u)' = Depth(u)
<1>1. todo'[t] = calls /\ \A u \in Task : u # t => todo'[u] = todo[u]
  OBVIOUS
<1> QED BY <1>1 DEF Depth

\* Where a task is that calls something in its own code.
LEMMA CallHere ==
  ASSUME DepthInd, MutexInd, Balanced(use), NEW t \in User, NEW call, Calling(t, call)
  PROVE  /\ todo[t] # <<>> /\ Head(todo[t]) = call
         /\ pc[t] \in {"out", "held"} /\ mpc[t] \notin Releasing
         /\ call # "count" => todo[t] \in RestOf(t)
         /\ call = "count" => owner = t /\ pc[t] = "held"
         /\ (owner = t => pc[t] = "held" /\ mpc[t] = "locked")
         /\ (pc[t] = "out" => owner # t /\ mpc[t] = "lock_owner")
<1>0. t \in Task
  BY DEF User
<1>1. /\ todo[t] # <<>> /\ Head(todo[t]) = call
      /\ pc[t] = "out" \/ (pc[t] = "held" /\ mpc[t] = "locked")
  BY DEF Calling, AtStep, AtMutexStep
<1>2. pc[t] = "out" => mpc[t] = "lock_owner"
  BY <1>0 DEF MutexInd, MutexCallers
<1>3. owner = t <=> mpc[t] \in Owning
  BY <1>0 DEF MutexInd, OwnerOwns
<1>4. "locked" \in Owning /\ "lock_owner" \notin Owning
      /\ "locked" \notin Releasing /\ "lock_owner" \notin Releasing
  BY DEF Owning, MutexStep, Releasing
<1>5. use \in MutexUses /\ Left(t)
  BY DEF DepthInd, MutexInd, MutexTypes, MutexUses, SemCore, SemTypes
<1>6. ASSUME todo[t] \notin RestOf(t) PROVE call = "count" /\ pc[t] = "held"
  <2>1. PICK s \in RestOf(t) : Entered(s, todo[t])
    BY <1>5, <1>6 DEF Left
  <2>2. s \in Seq(Call2)
    BY <1>5, RestFacts
  <2>3. Head(todo[t]) = "count"
    BY <2>1, <2>2, DepthOfEntering DEF Entered
  <2>4. pc[t] # "out"
    BY <1>5, <1>6 DEF Left, Getting, AcquireStep, TryStep
  <2> QED BY <1>1, <2>3, <2>4
<1>7. call = "count" => todo[t] \notin RestOf(t)
  <2>1. SUFFICES ASSUME call = "count", todo[t] \in RestOf(t) PROVE FALSE
    OBVIOUS
  <2>2. Head(todo[t]) \in Call1
    BY <1>1, <1>5, <2>1, RestFacts
  <2> QED BY <1>1, <2>1, <2>2 DEF Call1
<1> QED BY <1>1, <1>2, <1>3, <1>4, <1>6, <1>7

-----------------------------------------------------------------------------
(* The steps of the reentrant lock *)

\* The count stays true of an owner that stays, whose depth may change.
LEMMA StateStays ==
  ASSUME DepthInd, MutexInd, NEW t \in User,
         \A u \in Task : u # t => Depth(u)' = Depth(u),
         owner' = owner, owner = t => lock_state' = Depth(t)',
         owner # t => lock_state' = lock_state
  PROVE  StateCounts'
<1>1. owner \in Task \union {NoTask}
  BY DEF MutexInd, MutexTypes
<1>2. t # NoTask
  BY NoTaskAssumption DEF User
<1>3. CASE owner = t
  <2>1. Depth(owner)' = Depth(t)'
    BY <1>3 DEF Depth
  <2> QED BY <1>2, <1>3, <2>1 DEF StateCounts
<1>4. CASE owner # t /\ owner \in Task
  <2>1. Depth(owner)' = Depth(owner)
    <3>1. PICK u \in Task : u = owner /\ u # t
      BY <1>4
    <3>2. Depth(u)' = Depth(u)
      BY <3>1
    <3>3. Depth(u)' = Depth(owner)'
      BY <3>1 DEF Depth
    <3> QED BY <3>1, <3>2, <3>3
  <2> QED BY <1>4, <2>1 DEF DepthInd, StateCounts
<1>5. CASE owner = NoTask
  BY <1>2, <1>5 DEF DepthInd, StateCounts
<1> QED BY <1>1, <1>3, <1>4, <1>5

\* A program begins.
LEMMA BeginKeeps ==
  ASSUME DepthInd, MutexInd, MutexInd', Balanced(use), NEW t \in User, Begin(t), use' = use
  PROVE  DepthInd'
<1>0. t \in Task
  BY DEF User
<1>1. PICK calls \in use.programs[t] :
        todo' = [todo EXCEPT ![t] = calls] /\ pc[t] = "out" /\ todo[t] = <<>>
  BY DEF Begin, Continue, AtStep
<1>2. UNCHANGED <<pc, mpc, owner, lock_state>>
  BY DEF Begin, allVars, vars, mutexVars
<1>3. calls \in Seq(Call1) /\ calls \in Seq(Call2)
  <2>1. use.programs[t] \in SUBSET Seq(Call1)
    BY ReentrantAssumption DEF MutexInd, MutexTypes, MutexUses, SemCore, SemTypes
  <2>2. Call1 \subseteq Call2
    BY DEF Call2
  <2> QED BY <1>1, <2>1, <2>2
<1>4. calls \in RestOf(t)
  <2>1. calls \in Rests(calls)
    <3>1. calls = SubSeq(calls, 1, Len(calls)) /\ Len(calls) \in Nat
      BY <1>3, SubSeqFull
    <3>2. 1 \in 1 .. Len(calls) + 1
      BY <3>1
    <3> QED BY <3>1, <3>2 DEF Rests
  <2> QED BY <1>1, <2>1 DEF RestOf
<1>5. /\ Depth(t)' = DepthOf(calls) /\ todo'[t] = calls
      /\ \A u \in Task : u # t => Depth(u)' = Depth(u)
  BY <1>0, <1>1, CallsChange DEF DepthInd
<1>6. DepthOf(calls) = 0
  BY <1>1 DEF Balanced
<1>7. Left(t)'
  <2>1. RestOf(t)' = RestOf(t)
    BY DEF RestOf
  <2> QED BY <1>1, <1>2, <1>4, <1>5, <2>1 DEF Left, TryStep
<1>8. Inside(t)'
  BY <1>5, <1>6 DEF Inside
<1>9. owner # t
  BY <1>0, <1>1 DEF MutexInd, MutexCallers, OwnerOwns, Owning
<1>10. StateCounts'
  BY <1>2, <1>5, <1>9, StateStays
<1> QED BY <1>1, <1>2, <1>3, <1>7, <1>8, <1>10, StepOfOne

\* mutex_lock or mutex_try_lock is called.
LEMMA CallMutexKeeps ==
  ASSUME DepthInd, MutexInd, MutexInd', Balanced(use), NEW t \in User, CallMutex(t), use' = use
  PROVE  DepthInd'
<1>0. t \in Task /\ use \in MutexUses
  BY DEF User, MutexInd, MutexTypes, MutexUses, SemCore, SemTypes
<1>1. PICK call \in {"lock", "try"} : Calling(t, call) /\ (call = "lock" => AcquireSuspend(t))
                                      /\ (call = "try" => TryAcquire(t))
  BY DEF CallMutex
<1>2. /\ owner # t /\ UNCHANGED <<mpc, owner, lock_state>>
      /\ todo' = [todo EXCEPT ![t] = <<"count">> \o Tail(todo[t])]
  BY DEF CallMutex, Continue, mutexVars
<1>3. /\ todo[t] # <<>> /\ Head(todo[t]) = call /\ todo[t] \in RestOf(t)
      /\ mpc[t] \notin Releasing
  BY <1>1, CallHere
<1>4. todo[t] \in Seq(Call2) /\ DepthOf(todo[t]) \in Int
  BY <1>0, <1>3, RestFacts
<1>5. PICK calls : calls = <<"count">> \o Tail(todo[t])
  OBVIOUS
<1>6. calls \in Seq(Call2) /\ DepthOf(calls) = DepthOf(todo[t])
  BY <1>1, <1>3, <1>4, <1>5, DepthOfEntering
<1>7. /\ Depth(t)' = DepthOf(calls) /\ todo'[t] = calls
      /\ \A u \in Task : u # t => Depth(u)' = Depth(u)
  BY <1>0, <1>2, <1>5, CallsChange DEF DepthInd
<1>8. pc'[t] = (IF call = "try" THEN "try_test" ELSE "acq_dec")
      /\ \A u \in Task : u # t => pc'[u] = pc[u]
  <2>1. pc \in [Task -> Step]
    BY DEF MutexInd, MutexTypes, MutexUses, SemCore, SemTypes
  <2> QED BY <1>0, <1>1, <2>1 DEF AcquireSuspend, TryAcquire, Goto
<1>9. Left(t)'
  <2>1. RestOf(t)' = RestOf(t)
    BY DEF RestOf
  <2>2. Entered(todo[t], calls)
    BY <1>1, <1>3, <1>5 DEF Entered
  <2>3. pc'[t] \in Getting /\ (pc'[t] \in TryStep => call = "try")
    BY <1>1, <1>8 DEF Getting, AcquireStep, TryStep
  <2> QED BY <1>2, <1>3, <1>7, <2>1, <2>2, <2>3 DEF Left
<1>10. Inside(t)'
  <2>1. DepthOf(todo[t]) = 0
    BY <1>2 DEF DepthInd, Inside, Depth
  <2> QED BY <1>6, <1>7, <2>1 DEF Inside
<1>11. StateCounts'
  BY <1>2, <1>7, StateStays
<1>12. \A u \in Task : u # t => pc'[u] = pc[u] /\ mpc'[u] = mpc[u]
  BY <1>2, <1>8
<1>13. todo' = [todo EXCEPT ![t] = calls]
  BY <1>2, <1>5
<1> QED BY <1>6, <1>9, <1>10, <1>11, <1>12, <1>13, StepOfOne

\* The lock is counted, the first time or again.
LEMMA LockCountKeeps ==
  ASSUME DepthInd, MutexInd, MutexInd', Balanced(use), NEW t \in User, LockCount(t), use' = use
  PROVE  DepthInd' /\ (Depth(t) >= 0 => Depth(t)' # 0)
<1>0. t \in Task /\ use \in MutexUses
  BY DEF User, MutexInd, MutexTypes, MutexUses, SemCore, SemTypes
<1>1. PICK call \in {"lock", "count"} : Calling(t, call) /\ (call = "lock" => owner = t)
  BY DEF LockCount
<1>2. /\ UNCHANGED <<pc, mpc, owner>> /\ lock_state' = lock_state + 1
      /\ todo' = [todo EXCEPT ![t] = Tail(todo[t])]
  BY DEF LockCount, Continue, allVars, vars, mutexVars, counted
<1>3. /\ todo[t] # <<>> /\ Head(todo[t]) = call
      /\ owner = t /\ pc[t] = "held" /\ mpc[t] = "locked"
      /\ call = "lock" => todo[t] \in RestOf(t)
  BY <1>1, CallHere
<1>4. todo[t] \in Seq(Call2)
  BY <1>0 DEF DepthInd
<1>5. PICK calls : calls = Tail(todo[t])
  OBVIOUS
<1>6. /\ calls \in Seq(Call2) /\ DepthOf(calls) = DepthOf(todo[t]) + 1
      /\ DepthOf(todo[t]) \in Int
  BY <1>1, <1>3, <1>4, <1>5, DepthOfTail
<1>7. /\ Depth(t)' = DepthOf(calls) /\ todo'[t] = calls
      /\ \A u \in Task : u # t => Depth(u)' = Depth(u)
  BY <1>0, <1>2, <1>5, CallsChange DEF DepthInd
<1>8. calls \in RestOf(t)
  <2>1. CASE todo[t] \in RestOf(t)
    BY <1>0, <1>3, <1>5, <2>1, RestFacts
  <2>2. CASE \E s \in RestOf(t) : Entered(s, todo[t])
    <3>1. PICK s \in RestOf(t) : Entered(s, todo[t])
      BY <2>2
    <3>2. s \in Seq(Call2) /\ s # <<>> /\ Tail(s) \in RestOf(t)
      BY <1>0, <3>1, RestFacts DEF Entered
    <3>3. Tail(todo[t]) = Tail(s)
      BY <3>1, <3>2, DepthOfEntering DEF Entered
    <3> QED BY <1>5, <3>2, <3>3
  <2> QED BY <2>1, <2>2 DEF DepthInd, Left
<1>9. Left(t)'
  <2>1. RestOf(t)' = RestOf(t)
    BY DEF RestOf
  <2> QED BY <1>2, <1>3, <1>7, <1>8, <2>1 DEF Left, TryStep
<1>10. Inside(t)'
  BY <1>2, <1>3 DEF Inside
<1>11. lock_state' = Depth(t)'
  <2>1. lock_state = DepthOf(todo[t])
    BY <1>0, <1>3, NoTaskAssumption DEF DepthInd, StateCounts, Depth
  <2> QED BY <1>2, <1>6, <1>7, <2>1
<1>12. StateCounts'
  BY <1>2, <1>3, <1>7, <1>11, StateStays
<1>13. \A u \in Task : u # t => pc'[u] = pc[u] /\ mpc'[u] = mpc[u]
  BY <1>2
<1>14. todo' = [todo EXCEPT ![t] = calls]
  BY <1>2, <1>5
<1>15. DepthInd'
  BY <1>6, <1>9, <1>10, <1>12, <1>13, <1>14, StepOfOne
<1>16. Depth(t) >= 0 => Depth(t)' # 0
  BY <1>6, <1>7 DEF Depth
<1> QED BY <1>15, <1>16

\* mutex_try_lock fails, and the program goes on behind what is under the lock.
LEMMA TryFailsKeeps ==
  ASSUME DepthInd, MutexInd, MutexInd', Balanced(use), NEW t \in User, TryFails(t), use' = use
  PROVE  DepthInd' /\ Depth(t)' = Depth(t)
<1>0. t \in Task /\ use \in MutexUses /\ pc \in [Task -> Step]
  BY DEF User, MutexInd, MutexTypes, MutexUses, SemCore, SemTypes
<1>1. \/ pc[t] = "try_time" /\ TryTime(t) /\ pc'[t] = "out"
      \/ Calling(t, "try") /\ owner = t /\ UNCHANGED vars
  BY DEF TryFails, TryTime, AtStep
<1>2. /\ UNCHANGED <<mpc, owner, lock_state>>
      /\ todo' = [todo EXCEPT ![t] = without_lock(Tail(todo[t]))]
  BY DEF TryFails, Continue, mutexVars
<1>3. PICK s \in RestOf(t) : /\ s # <<>> /\ Head(s) = "try" /\ Tail(todo[t]) = Tail(s)
                             /\ DepthOf(todo[t]) = DepthOf(s)
  <2>1. CASE pc[t] = "try_time"
    <3>1. PICK s \in RestOf(t) : Entered(s, todo[t]) /\ Head(s) = "try"
      BY <2>1 DEF DepthInd, Left, TryStep
    <3>2. s \in Seq(Call2)
      BY <1>0, RestFacts
    <3>3. Tail(todo[t]) = Tail(s) /\ DepthOf(todo[t]) = DepthOf(s)
      BY <3>1, <3>2, DepthOfEntering DEF Entered
    <3> QED BY <3>1, <3>3 DEF Entered
  <2>2. CASE Calling(t, "try")
    <3>1. todo[t] # <<>> /\ Head(todo[t]) = "try" /\ todo[t] \in RestOf(t)
      BY <2>2, CallHere
    <3> QED BY <3>1
  <2> QED BY <1>1, <2>1, <2>2
<1>4. PICK calls : calls = without_lock(Tail(todo[t]))
  OBVIOUS
<1>5. calls \in RestOf(t) /\ DepthOf(calls) = DepthOf(todo[t])
  BY <1>0, <1>3, <1>4, RestFacts
<1>6. calls \in Seq(Call2)
  BY <1>0, <1>5, RestFacts
<1>7. /\ Depth(t)' = DepthOf(calls) /\ todo'[t] = calls
      /\ \A u \in Task : u # t => Depth(u)' = Depth(u)
  BY <1>0, <1>2, <1>4, CallsChange DEF DepthInd
<1>8. pc'[t] \in {"out", "held"} /\ \A u \in Task : u # t => pc'[u] = pc[u]
  <2>1. CASE pc'[t] = "out" /\ TryTime(t)
    BY <1>0, <2>1 DEF TryTime, Goto
  <2>2. CASE Calling(t, "try") /\ UNCHANGED vars
    BY <2>2, CallHere DEF vars
  <2> QED BY <1>1, <2>1, <2>2
<1>9. Left(t)'
  <2>1. RestOf(t)' = RestOf(t)
    BY DEF RestOf
  <2> QED BY <1>5, <1>7, <1>8, <2>1 DEF Left, TryStep
<1>10. Depth(t)' = Depth(t)
  BY <1>5, <1>7 DEF Depth
<1>11. Inside(t)'
  BY <1>2, <1>10 DEF DepthInd, Inside
<1>12. StateCounts'
  <2>1. owner = t => lock_state' = Depth(t)'
    BY <1>0, <1>2, <1>10, NoTaskAssumption DEF DepthInd, StateCounts
  <2> QED BY <1>2, <1>7, <2>1, StateStays
<1>13. \A u \in Task : u # t => pc'[u] = pc[u] /\ mpc'[u] = mpc[u]
  BY <1>2, <1>8
<1>14. todo' = [todo EXCEPT ![t] = calls]
  BY <1>2, <1>4
<1>15. DepthInd'
  BY <1>6, <1>9, <1>11, <1>12, <1>13, <1>14, StepOfOne
<1> QED BY <1>10, <1>15

\* Characters are written.
LEMMA WriteKeeps ==
  ASSUME DepthInd, MutexInd, MutexInd', Balanced(use), NEW t \in User, Write(t), use' = use
  PROVE  DepthInd' /\ Depth(t)' = Depth(t) /\ todo[t] \in RestOf(t)
         /\ todo[t] # <<>> /\ Head(todo[t]) = "write"
<1>0. t \in Task /\ use \in MutexUses
  BY DEF User, MutexInd, MutexTypes, MutexUses, SemCore, SemTypes
<1>1. Calling(t, "write")
  BY DEF Write
<1>2. /\ UNCHANGED <<pc, mpc, owner, lock_state>>
      /\ todo' = [todo EXCEPT ![t] = Tail(todo[t])]
  BY DEF Write, allVars, vars, mutexVars
<1>3. /\ todo[t] # <<>> /\ Head(todo[t]) = "write" /\ todo[t] \in RestOf(t)
      /\ pc[t] \in {"out", "held"}
  BY <1>1, CallHere
<1>4. PICK calls : calls = Tail(todo[t])
  OBVIOUS
<1>5. todo[t] \in Seq(Call2) /\ calls \in RestOf(t)
  BY <1>0, <1>3, <1>4, RestFacts
<1>6. calls \in Seq(Call2) /\ DepthOf(calls) = DepthOf(todo[t])
  BY <1>3, <1>4, <1>5, DepthOfTail
<1>7. /\ Depth(t)' = DepthOf(calls) /\ todo'[t] = calls
      /\ \A u \in Task : u # t => Depth(u)' = Depth(u)
  BY <1>0, <1>2, <1>4, CallsChange DEF DepthInd
<1>8. Left(t)'
  <2>1. RestOf(t)' = RestOf(t)
    BY DEF RestOf
  <2> QED BY <1>2, <1>3, <1>5, <1>7, <2>1 DEF Left, TryStep
<1>9. Depth(t)' = Depth(t)
  BY <1>6, <1>7 DEF Depth
<1>10. Inside(t)'
  BY <1>2, <1>9 DEF DepthInd, Inside
<1>11. StateCounts'
  <2>1. owner = t => lock_state' = Depth(t)'
    BY <1>0, <1>2, <1>9, NoTaskAssumption DEF DepthInd, StateCounts
  <2> QED BY <1>2, <1>7, <2>1, StateStays
<1>12. \A u \in Task : u # t => pc'[u] = pc[u] /\ mpc'[u] = mpc[u]
  BY <1>2
<1>13. todo' = [todo EXCEPT ![t] = calls]
  BY <1>2, <1>4
<1>14. DepthInd'
  BY <1>6, <1>8, <1>10, <1>11, <1>12, <1>13, StepOfOne
<1> QED BY <1>3, <1>9, <1>14

\* The owner unlocks, and the last time it gives the mutex back.
LEMMA UnlockCountKeeps ==
  ASSUME DepthInd, MutexInd, MutexInd', Balanced(use), NEW t \in User,
         reentrantlock_unlock(t), use' = use
  PROVE  /\ DepthInd' /\ todo[t] \in RestOf(t) /\ todo[t] # <<>>
         /\ todo'[t] = Tail(todo[t])
         /\ \A u \in Task : u # t => Depth(u)' = Depth(u)
<1>0. t \in Task /\ use \in MutexUses /\ mpc \in [Task -> MutexStep]
  BY DEF User, MutexInd, MutexTypes, MutexUses, SemCore, SemTypes
<1>1. Calling(t, "unlock")
  BY DEF reentrantlock_unlock
<1>2. /\ lock_state' = unlocked(t)
      /\ todo' = [todo EXCEPT ![t] = Tail(todo[t])]
      /\ IF releases(t) THEN mutex_unlock(t) ELSE UNCHANGED allVars
  BY DEF reentrantlock_unlock, Continue
<1>3. /\ todo[t] # <<>> /\ Head(todo[t]) = "unlock" /\ todo[t] \in RestOf(t)
      /\ pc[t] \in {"out", "held"}
  BY <1>1, CallHere
<1>4. PICK calls : calls = Tail(todo[t])
  OBVIOUS
<1>5. todo[t] \in Seq(Call2) /\ calls \in RestOf(t)
  BY <1>0, <1>3, <1>4, RestFacts
<1>6. /\ calls \in Seq(Call2) /\ DepthOf(calls) = DepthOf(todo[t]) - 1
      /\ DepthOf(todo[t]) \in Int /\ DepthOf(calls) \in Int
  BY <1>3, <1>4, <1>5, DepthOfTail
<1>7. /\ Depth(t)' = DepthOf(calls) /\ todo'[t] = calls
      /\ \A u \in Task : u # t => Depth(u)' = Depth(u)
  BY <1>0, <1>2, <1>4, CallsChange DEF DepthInd
<1>8. DepthOf(calls) >= 0
  BY <1>0, <1>5, RestFacts
<1>9. Depth(t) = DepthOf(todo[t]) /\ Depth(t) # 0
  BY <1>6, <1>8 DEF Depth
<1>10. owner = t /\ mpc[t] = "locked"
  BY <1>9 DEF DepthInd, Inside
<1>11. lock_state' = DepthOf(calls)
  <2>1. lock_state = DepthOf(todo[t])
    BY <1>0, <1>9, <1>10, NoTaskAssumption DEF DepthInd, StateCounts
  <2> QED BY <1>2, <1>6, <1>10, <2>1 DEF unlocked
<1>12. UNCHANGED <<pc, owner>> /\ \A u \in Task : u # t => mpc'[u] = mpc[u]
  BY <1>0, <1>2 DEF mutex_unlock, MutexGoto, allVars, vars, mutexVars
<1>13. DepthOf(calls) # 0 => mpc' = mpc
  <2>1. releases(t) <=> DepthOf(calls) = 0
    BY <1>2, <1>11 DEF releases
  <2> QED BY <1>2, <2>1 DEF allVars, mutexVars
<1>14. Left(t)'
  <2>1. RestOf(t)' = RestOf(t)
    BY DEF RestOf
  <2> QED BY <1>3, <1>5, <1>7, <1>12, <2>1 DEF Left, TryStep
<1>15. Inside(t)'
  BY <1>7, <1>10, <1>12, <1>13 DEF Inside
<1>16. StateCounts'
  BY <1>7, <1>10, <1>11, <1>12, StateStays
<1>17. \A u \in Task : u # t => pc'[u] = pc[u] /\ mpc'[u] = mpc[u]
  BY <1>12
<1>18. todo' = [todo EXCEPT ![t] = calls]
  BY <1>2, <1>4
<1>19. DepthInd'
  BY <1>6, <1>14, <1>15, <1>16, <1>17, <1>18, StepOfOne
<1> QED BY <1>3, <1>4, <1>7, <1>19

\* What a step in the functions of the mutex changes.
MutexMove(t) ==
  /\ \A u \in Task : u # t => pc'[u] = pc[u] /\ mpc'[u] = mpc[u]
  /\ pc'[t] \in TryStep => pc[t] \in TryStep
  /\ pc[t] \in Getting /\ mpc[t] \notin Releasing => pc'[t] \in Getting /\ mpc'[t] \notin Releasing
  /\ mpc[t] = "locked" => mpc'[t] = "locked"
  /\ \/ owner' = owner
     \/ owner' = t /\ mpc[t] = "lock_owner"
     \/ owner' = NoTask /\ mpc[t] = "unlock_owner"

\* The steps that change mpc stay at "held", or leave it.
LEMMA MutexStepMoves ==
  ASSUME MutexInd, NEW t \in Task,
         LockOwner(t) \/ SwapSuspend(t) \/ Swap(t) \/ SwapResume(t) \/ UnlockOwner(t)
  PROVE  MutexMove(t)
<1>1. PICK from \in MutexStep, to \in MutexStep :
        /\ AtMutexStep(t, from) /\ MutexGoto(t, to) /\ pc' = pc
        /\ from # "locked" /\ (from \notin Releasing => to \notin Releasing)
        /\ \/ owner' = owner
           \/ owner' = t /\ from = "lock_owner"
           \/ owner' = NoTask /\ from = "unlock_owner"
  <2>1. CASE LockOwner(t)
    BY <2>1 DEF LockOwner, MutexStep, Releasing, vars
  <2>2. CASE SwapSuspend(t)
    BY <2>2 DEF SwapSuspend, MutexStep, Releasing
  <2>3. CASE Swap(t)
    BY <2>3 DEF Swap, MutexStep, Releasing
  <2>4. CASE SwapResume(t)
    BY <2>4 DEF SwapResume, MutexStep, Releasing
  <2>5. CASE UnlockOwner(t)
    BY <2>5 DEF UnlockOwner, MutexStep, Releasing, vars
  <2> QED BY <2>1, <2>2, <2>3, <2>4, <2>5
<1>2. mpc'[t] = to /\ \A u \in Task : u # t => mpc'[u] = mpc[u]
  BY <1>1, MutexGoes
<1>3. mpc[t] = from
  BY <1>1 DEF AtMutexStep
<1> QED BY <1>1, <1>2, <1>3 DEF MutexMove

\* The steps of the semaphore leave mpc as it is.
LEMMA SemaphoreMoves ==
  ASSUME MutexInd, NEW t \in Task, UNCHANGED mutexVars,
         \/ AcquireDec(t) \/ AcquireTest(t) \/ AcquireResume(t) \/ AcquireYield(t)
         \/ TryTest(t) \/ TryTake(t) \/ TryYield(t) \/ (TryTime(t) /\ pc'[t] # "out")
         \/ ReleaseInc(t) \/ ReleaseWake(t) \/ ReleaseResume(t)
         \/ MutexSleep(t) \/ SleepYield(t)
  PROVE  MutexMove(t)
<1>1. pc \in [Task -> Step] /\ mpc' = mpc /\ owner' = owner
  BY DEF MutexInd, MutexTypes, MutexUses, SemCore, SemTypes, mutexVars
<1>2. PICK from, to :
        /\ AtStep(t, from) /\ Goto(t, to)
        /\ to \in TryStep => from \in TryStep
        /\ from \in Getting => to \in Getting
  <2>1. CASE AcquireDec(t) \/ AcquireTest(t) \/ AcquireResume(t) \/ AcquireYield(t)
    BY <2>1 DEF AcquireDec, AcquireTest, AcquireResume, AcquireYield, Getting, AcquireStep, TryStep
  <2>2. CASE TryTest(t) \/ TryTake(t) \/ TryYield(t)
    BY <2>2 DEF TryTest, TryTake, TryYield, Getting, AcquireStep, TryStep
  <2>3. CASE TryTime(t) /\ pc'[t] # "out"
    <3>1. AtStep(t, "try_time") /\ (Goto(t, "out") \/ Goto(t, "try_yield") \/ Goto(t, "try_test"))
      BY <2>3 DEF TryTime
    <3>2. ~Goto(t, "out")
      BY <1>1, <2>3 DEF Goto
    <3> QED BY <3>1, <3>2 DEF Getting, TryStep
  <2>4. CASE ReleaseInc(t) \/ ReleaseWake(t) \/ ReleaseResume(t)
    BY <2>4 DEF ReleaseInc, ReleaseWake, ReleaseResume, Getting, AcquireStep, TryStep
  <2>5. CASE MutexSleep(t)
    BY <2>5 DEF MutexSleep, Sleep, sleep_one_tick, Getting, AcquireStep, TryStep
  <2>6. CASE SleepYield(t)
    BY <2>6 DEF SleepYield, sleep_yield, Getting, AcquireStep, TryStep
  <2> QED BY <2>1, <2>2, <2>3, <2>4, <2>5, <2>6
<1>3. pc[t] = from /\ pc'[t] = to /\ \A u \in Task : u # t => pc'[u] = pc[u]
  BY <1>1, <1>2 DEF AtStep, Goto
<1> QED BY <1>1, <1>2, <1>3 DEF MutexMove

LEMMA UnlockReleaseMoves ==
  ASSUME MutexInd, NEW t \in Task, UnlockRelease(t)
  PROVE  MutexMove(t)
<1>1. /\ mpc[t] = "release" /\ Goto(t, "rel_inc") /\ MutexGoto(t, "lock_owner")
      /\ owner' = owner
  BY DEF UnlockRelease, ReleaseSuspend
<1>2. pc'[t] = "rel_inc" /\ \A u \in Task : u # t => pc'[u] = pc[u]
  BY <1>1 DEF Goto, MutexInd, SemCore, SemTypes
<1>3. \A u \in Task : u # t => mpc'[u] = mpc[u]
  BY <1>1 DEF MutexGoto, MutexInd, MutexTypes
<1>4. "release" \in Releasing /\ "rel_inc" \notin TryStep
  BY DEF Releasing, TryStep
<1> QED BY <1>1, <1>2, <1>3, <1>4 DEF MutexMove

LEMMA InMutexMoves ==
  ASSUME MutexInd, NEW t \in Task, InMutexCall(t)
  PROVE  MutexMove(t)
BY MutexStepMoves, SemaphoreMoves, UnlockReleaseMoves DEF InMutexCall

LEMMA InMutexDepth ==
  ASSUME DepthInd, MutexInd, MutexInd', Balanced(use), NEW t \in User, InMutexCall(t),
         UNCHANGED lockVars, use' = use
  PROVE  DepthInd'
<1>0. t \in Task /\ t # NoTask
  BY NoTaskAssumption DEF User
<1>1. MutexMove(t)
  BY <1>0, InMutexMoves
<1>2. todo' = todo /\ lock_state' = lock_state
  BY DEF lockVars
<1>3. todo[t] \in Seq(Call2) /\ todo' = [todo EXCEPT ![t] = todo[t]]
  BY <1>0, <1>2 DEF DepthInd
<1>4. Left(t)'
  <2>1. RestOf(t)' = RestOf(t)
    BY DEF RestOf
  <2>2. Left(t)
    BY DEF DepthInd
  <2> QED BY <1>1, <1>2, <2>1, <2>2 DEF Left, MutexMove
<1>5. Inside(t)'
  <2>1. SUFFICES ASSUME Depth(t) # 0 PROVE owner' = t /\ mpc'[t] = "locked"
    BY <1>2 DEF Inside, Depth
  <2>2. mpc'[t] = "locked"
    BY <1>1, <2>1 DEF DepthInd, Inside, MutexMove
  <2>3. owner' = t
    BY <1>0, <2>2 DEF MutexInd, OwnerOwns, Owning, MutexStep
  <2> QED BY <2>2, <2>3
<1>6. StateCounts'
  <2>1. CASE owner' = owner
    BY <1>2, <2>1 DEF DepthInd, StateCounts, Depth
  <2>2. CASE owner' = t /\ mpc[t] = "lock_owner"
    <3>1. owner = NoTask
      <4>1. SUFFICES ASSUME NEW u \in Task, owner = u PROVE FALSE
        BY DEF MutexInd, MutexTypes
      <4>2. mpc[u] \in Owning /\ u # t
        BY <2>2, <4>1 DEF MutexInd, OwnerOwns, Owning
      <4>3. mpc'[u] \in Owning
        BY <1>1, <4>2 DEF MutexMove
      <4>4. owner' = u
        BY <4>3 DEF MutexInd, OwnerOwns
      <4> QED BY <2>2, <4>2, <4>4
    <3>2. Depth(t) = 0
      BY <2>2 DEF DepthInd, Inside
    <3>3. Depth(owner)' = Depth(t)
      BY <1>2, <2>2 DEF Depth
    <3> QED BY <1>0, <1>2, <2>2, <3>1, <3>2, <3>3 DEF DepthInd, StateCounts
  <2>3. CASE owner' = NoTask /\ mpc[t] = "unlock_owner"
    <3>1. owner = t
      BY <1>0, <2>3 DEF MutexInd, OwnerOwns, Owning, MutexStep
    <3>2. Depth(t) = 0
      BY <2>3 DEF DepthInd, Inside
    <3> QED BY <1>0, <1>2, <2>3, <3>1, <3>2 DEF DepthInd, StateCounts
  <2> QED BY <1>1, <2>1, <2>2, <2>3 DEF MutexMove
<1>7. \A u \in Task : u # t => pc'[u] = pc[u] /\ mpc'[u] = mpc[u]
  BY <1>1 DEF MutexMove
<1> QED BY <1>3, <1>4, <1>5, <1>6, <1>7, StepOfOne

-----------------------------------------------------------------------------
(* The theorems about the reentrant lock *)

\* Nothing that the lock or its calls know changes.
LEMMA DepthSame ==
  ASSUME DepthInd, UNCHANGED <<pc, mpc, owner, lock_state, todo, use>>
  PROVE  DepthInd' /\ \A t \in User : Depth(t)' = Depth(t)
<1>1. \A t : Depth(t)' = Depth(t) /\ RestOf(t)' = RestOf(t)
  BY DEF Depth, RestOf
<1>2. User' = User
  BY DEF User, IdleTask
<1>3. \A t \in User : Left(t)' /\ Inside(t)'
  BY <1>1 DEF DepthInd, Left, Inside
<1>4. StateCounts'
  BY DEF DepthInd, StateCounts, Depth
<1> QED BY <1>1, <1>2, <1>3, <1>4 DEF DepthInd

LEMMA DepthStarts ==
  ASSUME ReentrantInit, MutexInd
  PROVE  DepthInd /\ Written
<1>1. /\ todo = [t \in Task |-> <<>>] /\ lock_state = 0 /\ owner = NoTask /\ writing = {}
      /\ pc = [t \in Task |-> "out"]
  BY DEF ReentrantInit, MutexInit, Init
<1>2. todo \in [Task -> Seq(Call2)]
  BY <1>1
<1>3. ASSUME NEW t \in User PROVE Left(t) /\ Inside(t)
  <2>1. t \in Task
    BY DEF User
  <2>2. todo[t] = <<>> /\ pc[t] = "out"
    BY <1>1, <2>1
  <2>3. Depth(t) = 0
    BY <2>2, NoDepth DEF Depth
  <2> QED BY <2>2, <2>3 DEF Left, Inside, RestOf, TryStep
<1> QED BY <1>1, <1>2, <1>3 DEF DepthInd, StateCounts, Written

LEMMA DepthNext ==
  ASSUME DepthInd, MutexInd, MutexInd', Balanced(use), [ReentrantNext]_<<reentrantVars, alone, use>>
  PROVE  DepthInd'
<1>1. CASE UNCHANGED <<reentrantVars, alone, use>>
  BY <1>1, DepthSame DEF reentrantVars, allVars, vars, mutexVars, lockVars
<1>2. CASE ReentrantNext
  <2>1. use' = use
    BY <1>2 DEF ReentrantNext
  <2>2. CASE (TickInterrupt \/ ContextSwitch \/ IdleYield) /\ UNCHANGED <<mutexVars, lockVars>>
    <3>1. pc' = pc
      BY <2>2 DEF TickInterrupt, tick_interrupt, ContextSwitch, context_switch, IdleYield, idle_yield
    <3> QED BY <2>1, <2>2, <3>1, DepthSame DEF mutexVars, lockVars
  <2>3. CASE \E t \in User : ReentrantTaskStep(t)
    <3>1. PICK t \in User : ReentrantTaskStep(t)
      BY <2>3
    <3> QED BY <2>1, <3>1, BeginKeeps, CallMutexKeeps, LockCountKeeps, TryFailsKeeps, WriteKeeps,
               UnlockCountKeeps, InMutexDepth DEF ReentrantTaskStep
  <2> QED BY <1>2, <2>2, <2>3 DEF ReentrantNext
<1> QED BY <1>1, <1>2

\* What a step of t must not do to what was written.
LEMMA WrittenStep ==
  ASSUME Written, NEW t \in User, writing' \subseteq writing \union {t},
         \A u \in Task : u # t => Depth(u)' = Depth(u),
         t \in writing' => Depth(t)' # 0
  PROVE  Written'
<1>1. User' = User
  BY DEF User, IdleTask
<1>2. User \subseteq Task
  BY DEF User
<1> QED BY <1>1, <1>2 DEF Written

LEMMA WrittenTaskStep ==
  ASSUME Written, DepthInd, DepthInd', MutexInd, MutexInd', Balanced(use), LockedThroughout(use),
         NEW t \in User, ReentrantTaskStep(t), use' = use
  PROVE  Written'
<1>0. t \in Task /\ use \in MutexUses /\ todo \in [Task -> Seq(Call2)] /\ Left(t) /\ Inside(t)
  BY DEF User, MutexInd, MutexTypes, MutexUses, SemCore, SemTypes, DepthInd
<1>1. ASSUME NEW calls, Continue(t, calls)
      PROVE  /\ writing' \subseteq writing /\ (calls = <<>> => t \notin writing')
             /\ \A u \in Task : u # t => Depth(u)' = Depth(u)
             /\ Depth(t)' = DepthOf(calls)
  BY <1>0, <1>1, CallsChange DEF Continue
<1>2. CASE Begin(t)
  <2>1. PICK calls : Continue(t, calls) /\ todo[t] = <<>>
    BY <1>2 DEF Begin
  <2>2. t \notin writing
    BY <2>1, NoDepth DEF Written, Depth
  <2> QED BY <1>1, <2>1, <2>2, WrittenStep
<1>3. CASE CallMutex(t)
  <2>1. PICK calls : Continue(t, calls) /\ owner # t
    BY <1>3 DEF CallMutex
  <2>2. t \notin writing
    BY <1>0, <2>1 DEF Written, Inside
  <2> QED BY <1>1, <2>1, <2>2, WrittenStep
<1>4. CASE LockCount(t)
  <2>1. PICK calls : Continue(t, calls)
    BY <1>4 DEF LockCount
  <2>2. Depth(t)' # 0
    BY <1>0, <1>4, LockCountKeeps, DepthOfLeft
  <2> QED BY <1>1, <2>1, <2>2, WrittenStep
<1>5. CASE TryFails(t)
  <2>1. PICK calls : Continue(t, calls)
    BY <1>5 DEF TryFails
  <2>2. Depth(t)' = Depth(t)
    BY <1>5, TryFailsKeeps
  <2> QED BY <1>1, <2>1, <2>2, WrittenStep DEF Written
<1>6. CASE Write(t)
  <2>1. /\ Depth(t)' = Depth(t) /\ todo[t] \in RestOf(t)
        /\ todo[t] # <<>> /\ Head(todo[t]) = "write"
    BY <1>6, WriteKeeps
  <2>2. Depth(t) # 0
    BY <1>0, <2>1, RestLocked DEF Depth
  <2>3. writing' = writing \union {t} /\ \A u \in Task : u # t => Depth(u)' = Depth(u)
    BY <1>0, <1>6, CallsChange DEF Write
  <2> QED BY <2>1, <2>2, <2>3, WrittenStep
<1>7. CASE reentrantlock_unlock(t)
  <2>1. Continue(t, Tail(todo[t]))
    BY <1>7 DEF reentrantlock_unlock
  <2>2. todo[t] \in RestOf(t) /\ todo[t] # <<>>
    BY <1>7, UnlockCountKeeps
  <2>3. t \in writing' => Depth(t)' # 0
    BY <1>0, <1>1, <2>1, <2>2, RestLocked
  <2> QED BY <1>1, <2>1, <2>3, WrittenStep
<1>8. CASE InMutexCall(t) /\ UNCHANGED lockVars
  <2>1. writing' = writing /\ \A u \in Task : Depth(u)' = Depth(u)
    BY <1>8 DEF lockVars, Depth
  <2> QED BY <1>0, <2>1, WrittenStep DEF Written
<1> QED BY <1>2, <1>3, <1>4, <1>5, <1>6, <1>7, <1>8 DEF ReentrantTaskStep

LEMMA WrittenNext ==
  ASSUME Written, DepthInd, DepthInd', MutexInd, MutexInd', Balanced(use), LockedThroughout(use),
         [ReentrantNext]_<<reentrantVars, alone, use>>
  PROVE  Written'
<1>1. CASE UNCHANGED <<todo, writing>>
  <2>1. writing' = writing /\ User' = User /\ \A u : Depth(u)' = Depth(u)
    BY <1>1 DEF User, IdleTask, Depth
  <2> QED BY <2>1 DEF Written
<1>2. CASE \E t \in User : ReentrantTaskStep(t) /\ use' = use
  BY <1>2, WrittenTaskStep
<1> QED BY <1>1, <1>2 DEF ReentrantNext, reentrantVars, lockVars

\* The invariant holds of every system whose calls of the lock are balanced.
LEMMA DepthInvariance ==
  ASSUME \A u \in MutexUses : Sound(u) /\ Balanced(u)
  PROVE  ReentrantSpec => [](AloneInd /\ (alone => DepthInd))
<1>1. ReentrantInit => (alone => DepthInd)
  BY MutexStarts, DepthStarts
<1>2. AloneInd /\ AloneInd' /\ (alone => DepthInd) /\ [ReentrantNext]_<<reentrantVars, alone, use>>
      => (alone => DepthInd)'
  <2>1. SUFFICES ASSUME AloneInd, AloneInd', alone => DepthInd, alone',
                        [ReentrantNext]_<<reentrantVars, alone, use>>
                 PROVE  DepthInd'
    OBVIOUS
  <2>2. alone /\ use \in MutexUses
    BY <2>1, AloneNext DEF AloneInd
  <2>3. MutexInd /\ MutexInd' /\ DepthInd /\ Balanced(use)
    BY <2>1, <2>2 DEF AloneInd
  <2> QED BY <2>1, <2>3, DepthNext
<1>3. ReentrantSpec => []AloneInd
  BY MutexInvariance
<1> QED BY <1>1, <1>2, <1>3, PTL DEF ReentrantSpec

\* The count of the lock is that of its owner: a task that has locked it several times
\* gives the mutex back when it unlocks it for the last time, and not before.
THEOREM LockIsCounted ==
  ASSUME \A u \in MutexUses : Sound(u) /\ Balanced(u)
  PROVE  ReentrantSpec => []LockDepth
<1>1. AloneInd /\ (alone => DepthInd) => LockDepth
  <2>1. SUFFICES ASSUME use \in MutexUses, DepthInd
                 PROVE  /\ lock_state = IF owner = NoTask THEN 0 ELSE Depth(owner)
                        /\ \A t \in User : Depth(t) > 0 => owner = t
    BY DEF LockDepth, AloneInd
  <2>2. ASSUME NEW t \in User, Depth(t) > 0 PROVE owner = t
    <3>1. Depth(t) # 0
      <4>1. Depth(t) \in Int
        BY <2>1, <2>2, DepthOfLeft DEF DepthInd
      <4> QED BY <2>2, <4>1
    <3> QED BY <2>1, <3>1 DEF DepthInd, Inside
  <2> QED BY <2>1, <2>2 DEF DepthInd, StateCounts
<1> QED BY <1>1, DepthInvariance, PTL

\* What a program prints under the lock is not mixed with what another task prints.
THEOREM TextIsWhole ==
  ASSUME \A u \in MutexUses : Sound(u) /\ Balanced(u) /\ LockedThroughout(u)
  PROVE  ReentrantSpec => []OutputWhole
<1>1. ReentrantInit => (alone => Written)
  BY MutexStarts, DepthStarts
<1>2. /\ AloneInd /\ AloneInd' /\ (alone => DepthInd) /\ (alone => DepthInd)'
      /\ (alone => Written) /\ [ReentrantNext]_<<reentrantVars, alone, use>>
      => (alone => Written)'
  <2>1. SUFFICES ASSUME AloneInd, AloneInd', alone => DepthInd, (alone => DepthInd)',
                        alone => Written, alone', [ReentrantNext]_<<reentrantVars, alone, use>>
                 PROVE  Written'
    OBVIOUS
  <2>2. alone /\ use \in MutexUses
    BY <2>1, AloneNext DEF AloneInd
  <2>3. MutexInd /\ MutexInd' /\ DepthInd /\ DepthInd'
    BY <2>1, <2>2 DEF AloneInd
  <2>4. Written /\ Balanced(use) /\ LockedThroughout(use)
    BY <2>1, <2>2
  <2> QED BY <2>1, <2>3, <2>4, WrittenNext
<1>3. (alone => DepthInd) /\ (alone => Written) => OutputWhole
  <2>1. SUFFICES ASSUME Written, DepthInd PROVE Cardinality(writing) <= 1
    BY DEF OutputWhole
  <2>2. writing \in SUBSET {owner}
    BY <2>1 DEF Written, DepthInd, Inside
  <2>3. IsFiniteSet({owner}) /\ Cardinality({owner}) = 1
    BY FS_Singleton
  <2>4. Cardinality(writing) <= Cardinality({owner})
    BY <2>2, <2>3, FS_Subset
  <2> QED BY <2>3, <2>4
<1>4. ReentrantSpec => [](AloneInd /\ (alone => DepthInd))
  BY DepthInvariance
<1> QED BY <1>1, <1>2, <1>3, <1>4, PTL DEF ReentrantSpec

-----------------------------------------------------------------------------
(* Where the owner is alone *)

\* The owner is alone in the list that it goes to whatever the others do, with a
\* ceiling that no task has for its priority: nobody has that of the ceiling, nor that
\* of a task which takes the lock.
LEMMA CeilingIsAlone ==
  ASSUME MutexInd, CeilingSound(use)
  PROVE  SwapsAlone
<1>1. SUFFICES ASSUME NEW t \in Task, AtMutexStep(t, "lock_swap") \/ AtMutexStep(t, "unlock_swap")
               PROVE  ReadyTasks(ceiling_priority) \subseteq {t}
  BY DEF SwapsAlone
<1>2. /\ mpc[t] \in {"lock_swap", "unlock_swap"} /\ use \in Uses /\ use.mutex
      /\ t \in User /\ Takes(use, t)
  BY <1>1, InsideHere DEF MutexInd, SemCore, SemTypes, MutexTypes
<1>3. \A u \in Task : u # t => mpc[u] \notin Owning
  BY <1>2 DEF MutexInd, OwnerOwns, Owning, MutexStep
<1>4. \A u \in Task : u # t => mpc[u] \notin Raised /\ attr[u] = AttrOf[u]
  BY <1>3 DEF Owning, Raised, MutexStep, MutexInd, Exchanged
<1>5. AttrOf \in [Task -> Attribute] /\ Ceiling \in Priority
  BY <1>2, UseFacts, MutexUse
<1>6. ceiling_priority \in Priority /\ \A u \in Task \ {t} : attr[u].priority # ceiling_priority
  <2>1. CASE mpc[t] = "lock_swap"
    <3>1. \A u \in Task : mpc[u] \notin Raised
      BY <1>4, <2>1 DEF Raised
    <3>2. attr = AttrOf /\ ceiling_priority = Ceiling
      BY <3>1, NoneRaised
    <3> QED BY <1>5, <3>2 DEF CeilingSound, AttrOf, Ceiling
  <2>2. CASE mpc[t] = "unlock_swap"
    <3>1. ceiling_priority = AttrOf[t].priority
      BY <1>2, <2>2 DEF MutexInd, Exchanged, Raised, User
    <3>2. t \in Task /\ ceiling_priority \in Priority
      BY <1>5, <3>1, HasPriority
    <3>3. \A u \in Task \ {t} : AttrOf[u].priority # AttrOf[t].priority
      BY <1>2 DEF CeilingSound, AttrOf
    <3> QED BY <1>4, <3>1, <3>2, <3>3
  <2> QED BY <1>2, <2>1, <2>2
<1>7. /\ ready.list[ceiling_priority] \in Seq(Task) /\ OwnPriority(ready, attr)
  BY <1>6 DEF MutexInd, SemCore, Lists, ReadyType
<1>8. ASSUME NEW u \in ReadyTasks(ceiling_priority) PROVE u = t
  <2>1. u \in Task /\ attr[u].priority = ceiling_priority
    BY <1>6, <1>7, <1>8, InRange DEF ReadyTasks, OwnPriority
  <2> QED BY <1>6, <2>1
<1> QED BY <1>8

\* With a ceiling that is the priority of no task, and priorities of their own for the
\* tasks that take the lock, nothing above depends on alone.
THEOREM CeilingAboveIsAlone ==
  ASSUME \A u \in MutexUses : CeilingSound(u)
  PROVE  ReentrantSpec => []alone
<1>1. ReentrantInit => alone
  BY DEF ReentrantInit, MutexInit
<1>2. AloneInd /\ alone /\ [ReentrantNext]_<<reentrantVars, alone, use>> => alone'
  <2>1. SUFFICES ASSUME AloneInd, alone, [ReentrantNext]_<<reentrantVars, alone, use>>
                 PROVE  alone'
    OBVIOUS
  <2>2. MutexInd /\ CeilingSound(use)
    BY <2>1 DEF AloneInd
  <2>3. SwapsAlone
    BY <2>2, CeilingIsAlone
  <2>4. alone' = (alone /\ SwapsAlone) \/ alone' = alone
    BY <2>1 DEF ReentrantNext
  <2> QED BY <2>1, <2>3, <2>4
<1>3. ReentrantSpec => []AloneInd
  <2>1. \A u \in MutexUses : Sound(u)
    BY DEF CeilingSound
  <2> QED BY <2>1, MutexInvariance
<1> QED BY <1>1, <1>2, <1>3, PTL DEF ReentrantSpec

=============================================================================
