# ZhiyecRTOS in TLA+

Models of the kernel of ZhiyecRTOS, of its ports, drivers and utilities, the TLC runs
that check them on small instances, and proofs for every value of the constants: of the
scheduler, of the masking of interrupts with the lists it protects, of the context
switch, of the semaphore, the mutex, the reentrant lock, the event group and the message
queue, and of three small parts. `PROJECT.json` lists the components, the runs, the mutants that show what
each property can see, the lines of `src/` every definition stands for, the hazards of
the code, and the theorems. Paths below are relative to `src/`.

## The system

A preemptive kernel for one Cortex-M core. Tasks call functions of the kernel; two
handlers of the kernel interrupt them: SysTick counts ticks, wakes sleepers and
decides whether a switch is due; PendSV makes the switch. Handlers of devices may
call the `from_isr` functions. Code is protected in two ways: `atomic(...)` masks
interrupts through BASEPRI, `task_suspend_all` keeps SysTick from asking for a
switch but lets it, and the other handlers, run.

| part | state | operations | what makes it correct |
|---|---|---|---|
| scheduler and tasks (`kernel/task.c`, `task.h`) | task objects, current task, two blocked lists, delete list, suspension count | create, sleep, sleep_until, delete, suspend and resume, yield; idle task; tick; switch | one list per task; the caller is the front task of its list; sleepers wake, not early; no switch while suspended; a deleted task never runs |
| ready lists (`task_list.h`, `list.h`) | a queue per priority, a bitmap | append, remove_front, get_front_task, get_highest_priority | bitmap and lists agree; nothing is lost when a handler appends |
| tick (`tick.h`) | a counter that wraps | `tick_after` | comparisons right across the wrap |
| interrupt masking (`asm/irq.h`, `atomic.h`, `config.h`) | BASEPRI, nesting count | enter and leave a block, in a task and in a handler | blocks exclude each other; the masking ends with the outermost block |
| semaphore | state, queue of waiting tasks | acquire, try_acquire, release, and the two for handlers | no more holders than units; nobody forgotten |
| mutex | a semaphore, owner, ceiling | lock, try_lock, unlock | one owner; priorities restored; no inversion |
| event group | registered events, stack of listeners | listen, trigger | no listener left behind; "all" means all |
| message queue | ring, count, two stacks of waiting tasks, count of receivers | send, receive, try_receive, send_from_isr | a FIFO; nobody waits for what is there |
| memory (`kernel/memory.c`) | list of blocks, free size | alloc, free | blocks disjoint, nothing leaks, first fit finds a gap |
| key driver (`driver/key_obj.c`) | status, previous status, ticks | `key_loop` | events mean what they say, none is forgotten |
| reentrant lock (`kernel/reentrant_lock.c`), printing (`utility/fmt.c`) | a mutex, a count | lock, try_lock, unlock; print, println, printf | the count is that of the owner; what is printed under the lock is not mixed |
| ports (`arch/arm/cortex-m*/`) | registers, the stack of every task | first start, PendSV | a task goes on with the registers it had |
| software I2C (`driver/i2c_software.c`) | two pins | write, read | the bytes arrive, the bus is free afterwards |
| console (`utility/console.c`) | a line buffer, a table of commands | a character, a new command | what was typed is what is run |
| delay (`utility/delay.c`) | a count of cycles | `delay_us` | never too short |
| PID, headers without state | | | not modelled, see below |

They interact through shared state. The synchronisation objects take the front task
of the running task's ready list, put it into a list of their own and append it to
its ready list later; SysTick appends to the same ready lists. The mutex is built on
the semaphore and also moves its owner between ready lists; the reentrant lock is built
on the mutex, and printing on the lock. With dynamic memory
`task_create` allocates from the pool.

What is hard here: a tick, a switch or a handler between any two accesses; state that
is tested in front of a block that changes it; wrap of the tick count; nested masking
and suspension; lists that several contexts change; wake-ups that come too early to
find anybody.

## Modules

`TaskList` is the operations of `task_list.h` on sequences, each in one step, and the
comparison of ticks. `Kernel` EXTENDS it: the state of `task.c`, the tick (`SysTick`),
the switch (`PendSV`) and the blocked lists. One step stands for what the code does in
one atomic block or one handler of the kernel. Everything about tasks EXTENDS `Kernel`:

* `Scheduler`: the task functions of `task.h`. A function is cut at its atomic blocks
  and at every new reading of the tick; `pc` names the next step of a task, and SysTick
  and PendSV may come in between any two. A task between its calls is at `"user"` and
  may call anything. `Task` is the index set of `task_structures`, so that creation
  and reuse of a slot are what the static build does.
* `SchedulerInv`: the inductive invariant `IndInv`.
* `SleepTiming`: `Scheduler` with two history variables that measure sleeps in ticks
  that do not wrap; they are written by the steps and guard none of them. It adds two
  bounds in the guards, `MaxDelay` and `CalledInTime`, explained under Bounds.
* `Sync`: tasks that have been started, the calls of `task.h` the objects are made of,
  and the rest of the system (sleeping tasks, the idle task, tick, switch). What a
  system does with an object is a record, `use`, taken from the set `Uses` in the
  initial state, so that one run checks several systems.
* `Semaphore`, `EventGroup`, `MsgQueue` EXTEND `Sync`; `Mutex` EXTENDS `Semaphore` and
  conjoins its own state to the semaphore's steps. Their functions are cut at every
  read of shared state, every atomic block, and every `task_suspend_all`,
  `task_resume_all` and `task_yield`. The two readings of the tick in a timed call are one
  step, and so are the writes of `queue_head` and of `queue_count` (`msg_queue.c:180-181`),
  which no other step tells apart: the load of the count is a step of its own. A handler
  tests for room and sends in one step, for no task runs before it returns.
* `ReentrantLock` EXTENDS `Mutex` the same way: a task runs a program of calls (lock,
  try, unlock, write), among them those of `fmt_print`, `fmt_println` and `fmt_printf`.
* `MsgFifo`: what a message queue promises, a bounded FIFO. `IsFifo` of `MsgQueue` is this
  specification under a refinement mapping, and `FifoSpec` the same of the steps up to the
  first that ends `fresh`.

Below the lists:

* `QueueList`: `tasklist_append` and `tasklist_remove_front` one memory access at a
  time, with links, tail pointers, and the bitmap as a word that is loaded and stored.
  The variable `abs` holds the lists as `TaskList` has them: `ReadyCoherent` says
  that the one implements the other.
* `Irq`: BASEPRI and `interrupt_disabled_nesting`, also one access at a time, for a
  task and two handlers with priorities.
* `AtomicLists`: the two composed, for several configurations of the priorities. It
  justifies, for operations in atomic blocks, that the other modules make a list operation
  one step.

Three of these modules have a history variable, which the steps write and none reads (in
`AtomicLists` the lists stop, for what they become is not modelled). They stand for the
three places at which the code relies on something it does not see to, and the properties
say what holds until it is so no more:

| variable | module | is true until | runs without it |
|---|---|---|---|
| `undisturbed` | `AtomicLists` | a handler that BASEPRI does not hold back appends in the middle of an operation of the task | ShippedPriorities |
| `alone` | `Mutex` | an exchange of priorities puts the owner of the mutex into a list in which there is somebody else | DocumentedCeiling |
| `fresh` | `MsgQueue` | a sender sends into a buffer that has been filled since it tested for room, or a receiver stores a count that has changed since it loaded it | HandlerSends |

No property is restricted to configurations or uses in which they stay true; that they do is
a theorem where it is so: `alone` for a ceiling above all users (`CeilingAboveIsAlone`),
`fresh` for one sender and no handler (`FreshAlone`, in `MsgQueueInv`).

Alone, for they share no state with the scheduler:

* `Memory`: a pool as extents of addresses.
* `KeyObj`: one key; the contact may be read open or closed at every poll.
* `Port`: for each of the four cores, the stack a task begins with, its first start, and
  PendSV cut where the registers are saved, the task is switched and they are restored. A
  cell of a stack stands for registers that are stored together. On the cores with an FPU
  a task may begin to use it at any time, which changes the size of its frames.
* `I2cSoftware`: the operations on the two pins in their order, composed with a device
  (external) that reacts to the edges, answers for its address at once, late or not at
  all, and sends until it is not acknowledged. The bus is the wired AND of both.
* `Console`: the line buffer one character at a time, parsing, and the table of commands.
  `line` is what the user has typed, kept beside the buffer.
* `Delay`: the loop of `delay_us`, with the true time beside its count; SysTick may start
  again any number of times between two readings, up to `MaxTurns`.

`MCParts` puts these six and `AtomicLists` side by side, as independent parts of one system:
`part` says which of them moves, and the others keep one initial state. Nothing is
multiplied, so that one run explores each part by itself. `MCLocks` does the same for
`Semaphore` and `ReentrantLock`, and `MCQueues` for `MsgQueue` and `EventGroup`: the record
`use` says which of the objects a system has.

An `MC...` module gives the constants of its specification values TLC can enumerate.
Proofs: `KernelProofs` (sequences and remainders, one lemma per operation of `Kernel`,
and how a step moves a task between lists), `SchedulerProofs` (tasks and
sleeps); `AtomicProofs` (the lists access by access, masking, and the two composed);
`PartProofs` (ports, key, delay, memory, console and I2C); `SyncProofs` (what the calls of the objects,
the tick and the switch do to the lists), `LockProofs` (semaphore, mutex, reentrant lock),
`EventGroupProofs`, `MsgQueueProofs`.

Definitions named like a function are that function or its atomic block. A definition
introduced by "Mutant of" belongs to no specification: it is a plausible wrong version
of the one that follows, used to show that a property can fail.

## Runs

| run | module | distinct states | what it shows |
|---|---|---|---|
| SchedulerAll | MCScheduler | 1 257 834 | every call of `task.h` with three task objects: bitmap exact, one list per task, caller in front, no deleted task runs, no switch while suspended, `IndInv` |
| Sleepers | MCSleepTiming | 273 711 | `task_sleep` and `task_sleep_until` over wraps of the count: no early return, bounded lateness for two sleepers, turns within a priority |
| Locks | MCLocks | 266 453 | three systems with a semaphore: a lock, a pool that a handler uses, too, and a polling task; three with a reentrant lock, and a mutex in it whose ceiling is above both users, at one, or at both: one owner, right count, priorities restored, no inversion, no text mixed |
| Queues | MCQueues | 227 424 | five systems with a queue: `FifoSpec`, nobody stranded, a waiting sender is served, with one sender, two, and a handler; three with an event group: one listener with either logic, two with "any" |
| Parts | MCParts | 348 441 | atomic blocks and lists with the priorities of `config.h` and others; blocks disjoint and accounted for; the events of a bouncing key; I2C transfers; the line that is run; delays; the registers of every task |
| QueueUnmaskedList | MCAtomicLists | violation | list operations with the scheduler only suspended: an append of the tick is lost |
| SleepPeriod | MCSleepTiming | violation | the period of `task_sleep_until` is `interval - 1` |
| SemTryTwo | MCLocks | violation | two tasks get a binary semaphore through `semaphore_try_acquire` |
| I2cWait | MCParts | violation | with a time to wait for an answer, a transfer to an absent device never returns |
| ShippedPriorities | MCAtomicLists | violation | with the priorities of `config.h`, SysTick runs its block inside an atomic block of a task |
| DocumentedCeiling | MCLocks | violation | with the ceiling that `mutex.h` asks for, two tasks have a mutex at once |
| HandlerSends | MCQueues | violation | a handler that sends inside `--queue_count` is not counted |

The last seven are disagreements between the code and what its comments say;
`PROJECT.json` quotes the lines under "findings".

* ShippedPriorities: BASEPRI and the priority of SysTick are written as `config.h:29` and 32
  have them, 5 and 4. On a core with all 8 bits SysTick is more urgent than what BASEPRI
  holds back; on one with 4 bits, as the STM32 parts have, both become 0, and a BASEPRI of 0
  holds nothing back. Either way a tick comes in the middle of `atomic(...)`.
* DocumentedCeiling: three tasks take the lock, two of one priority and one above, whose
  priority is the ceiling. `mutex_unlock` appends the owner behind its peer in the list of its
  own priority, and `mutex_lock` behind the third task in that of the ceiling (`mutex.c:47`),
  and it runs on. The third task waits meanwhile and is given the mutex; the first one,
  still running, locks again, and `semaphore_acquire` takes the *front* task of its list, the
  peer, for it (`semaphore.c:61`): the peer waits in its place, and it goes on.
* HandlerSends: `--queue_count` (`msg_queue.c:181`) is a load and a store with the scheduler
  suspended, but interrupts on. What a handler adds in between is overwritten.

Invariants of one component are conjoined: `AtomicInv` is the types with the exactness of
the nesting count and the end of the masking, `ReadyKept` links, tails and bitmap,
`MutexInv` has nobody lost and every ready task in the list of its priority,
`MsgQueueInv` nobody stranded, `MemoryInv` disjointness and accounting, `KeyInv` and
`EventsReported` what each kind of event means and that it comes.

### Bounds

* `TickMod`, the number of values of `tick_t`, is 4, 8 or 12. The comparison of ticks
  depends on the half of the range only; every run goes around the wrap many times,
  which the 32-bit counter does after 49 days.
* `MaxNesting = 2`, `MaxDepth = 3`: nested suspension and nested blocks, one level
  above the first that differs from no nesting.
* `TASK_MAX_NUM = 3` in SchedulerAll: a task of `main()`, the idle task, and a slot
  that is created, deleted and used again.
* `MaxDelay`, `CalledInTime` (SleepTiming), `TryInTime` (Semaphore, MsgQueue): no task
  is kept from the CPU in the middle of a call for half the range of the tick count.
  With 32 bits that is 24 days; with eight values it would be four ticks, and an
  artefact of the model. `TryInTime` only delays the tick.
* `buffer_size = 2`: empty, full and one in between, with the ring wrapping.
* The configurations of Parts (`AllConfigs`): the priorities of `config.h` with 4 bits and
  with 8, and 80 for both, which is 5 in the upper four bits. The device is less urgent
  than any of them.
* The ceilings of Locks: 3, above users of priorities 1 and 2; 2, that of the higher one; and
  1, that of two users of one priority. Each of the last two comes to an exchange that ends
  `alone`. Two users do not give the mutex to two tasks; DocumentedCeiling has three.
* The reentrant lock: programs in which a task locks twice or three times, tries for a
  lock it has, and prints with and without a newline.
* In Parts, the pool takes a handful of blocks, starts unaligned, and its sizes are below,
  at and above the alignment. The times of the key are ordered as those of the driver
  are: debouncing is the shortest. A byte on the bus has its eight bits, in two values
  whose complements differ; a transfer has one byte with a register or two without, with
  and without a time to wait. The buffer of the console takes four characters and the
  terminator, a command line at most two arguments, the table three commands, one of them
  from the beginning. SysTick of `Delay` has six values, delays are up to five of its
  turns (`Us`), it is read up to two turns late (`MaxTurns`), and `MaxElapsed = 40` cycles
  bounds the delays in which a whole turn is missed. Two tasks switch on each of the four
  cores, with two contents of their registers.

### Fairness

* Weak fairness of the tick and of PendSV: the timer runs, and the core takes an
  interrupt that is pending. `IdleYield`: the idle task is a loop.
* Strong fairness of a task's steps inside a call: a task that is the current one again
  and again makes progress, since a time slice is some 72 000 cycles and a call a few
  dozen instructions. Weak fairness would let a tick preempt it before every step.
* No task need make a call. `PlainWaiterServed`, `ListenerReturns` and `SenderServed` carry
  as a premise that somebody releases, triggers or receives again and again. In
  Queues the calls that begin a trigger, a send or a receive are part
  of the fair steps, for the same reason.
* `TimingSpec` assumes neither the tick nor the progress of user code; `TurnComes` has
  both as premises.
* `PartsSpec`: `key_loop` is called again and again, and a contact at rest keeps its value
  (`Poll(pressed)`); the code of an I2C transfer goes on, and a device that answers late
  does answer in the end (`Operation`, `LateAnswer`).

### Assumptions that are not checked

* Outside of `AtomicLists` SysTick and PendSV never run inside `atomic(...)`, and what
  the objects do to a list between `task_suspend_all` and `task_resume_all` is one step.
  The code relies on both. The first is what `MaskedExclusion` and `ReadyKept` show as far
  as the mask goes, and ShippedPriorities refutes for the priorities of `config.h`; the
  second is refuted by QueueUnmaskedList. The other runs say what holds when that is mended.
* A task does not block, yield or delete itself while it has suspended the scheduler.
* PendSV is taken before the next instruction of a task.

## Proofs

### The scheduler

Proved for any number of task objects, any tasks of `main()`, any calls and arguments,
any wrap of the tick count (`SchedulerProofs`):

| theorem | says |
|---|---|
| `Invariance` | `Spec => []IndInv` |
| `TypeCorrect` | `Spec => []TypeOK` |
| `BitmapAlwaysExact` | `Spec => []BitmapExact`: the bitmap has the priorities whose lists have tasks |
| `AlwaysOnePlace` | `Spec => []OnePlace` |
| `CallerIsFront` | `Spec => []CurrentIsFront` |
| `IdleAlwaysReady` | `Spec => []IdleReady`: a highest priority always exists |
| `DeletedTasksAreDead` | `Spec => [](DeletedNeverRuns /\ StackAlive)` |
| `SuspensionHolds` | `Spec => SuspendedNoSwitch` |

They rest on the ASSUMEs of `TaskList` and `Scheduler` only: an even number of values of
the tick, task objects numbered from 0, fewer tasks of `main()` than task objects.

None of the properties is inductive alone. `task_do_sleep` and `task_delete_later`
remove the front task of the running task's list, so that "one list per task" and "a
deleted task never runs" need "the caller is in front". That the caller is in front
depends on what a tick may append there, on the switch of tasks having been made
before the next call (`pendsv`, `pc = "yield"`), and on the list of the highest
priority being the one the bitmap tells. That a switch finds a task at all needs the
idle task to be in its list, which holds because it calls nothing that takes it out.
And a slot that `task_create` has taken but not yet put into a list must be nobody
else's. `IndInv` (module `SchedulerInv`) is the conjunction of the properties with
these facts in named parts: `Boot`, `Slots`, `Idle`, `Allocated`, `Leaving`,
`Suspended`. TLC checks it in SchedulerAll. The proof has one step per action of
`Next`; `KernelProofs` reduces "one list per task" to what appending, removing the
front and inserting in the middle do to a family of sequences in which nothing occurs
twice.

### The sleeps

| theorem | says |
|---|---|
| `NeverBackEarly` | `ShortSleeps => (TimingSpec => []NoEarlyReturn)` |
| `LatenessIsBounded` | `TwoSleepers => (TimingSpec => []BoundedLateness)` |

`ShortSleeps` is what `tick_after` needs: no argument of `task_sleep` is more than half the
range of the tick count. A tick count wraps and what a task still has to sleep (`left`) does
not; `TimeInd` (module `SchedulerProofs`) says that as long as `left` is positive the task is
on its way into a blocked list or in it, and its `resume_time` is `left - 1` ticks away,
counted around the wrap. It rests on `IndInv`: a node is inserted for the task that called,
and the caller has none yet. Where in a list a node is, and in which of the two, does not
matter, so that no order of the lists is needed. `MaxDelay` and `CalledInTime` are not used.

`TwoSleepers` is the situation of which the bound is true: at most two tasks beside the idle
task, sleeps of at most a quarter of the range of the tick count, and calls that are
preempted for less than what `tick_after` can tell (`MaxDelay`, under "Bounds"); with 32 bits
that is twelve days each. MCSleepTiming assumes it, so that TLC evaluates it in every run of
the module. `LateInd` is the invariant, with `IndInv` and `TimeInd`. `blocked_curr` followed by
`blocked_next` is one queue, and the idle task is never in it, so that it has two places. A
sleeper is woken at its time or one tick after it, unless it had to wait behind the other
one (`QueueInBound`): a tick wakes the front only, and the second place may be as late as
what the front still had to sleep. Nobody is inserted in front of one that is late
(`NoneInFront`): the only caller of that moment has found its own time not passed, and no
tick comes between its test and its insertion that the queue does not see. What has not
wrapped comes first (`CycleKept`): as long as `ready_switch_next` is false the times in
`blocked_next` are past the wrap of the count. Distances on the circle of the ticks
(`Dist`, with a dozen lemmas) stand between `resume_time` and `left`.

### The masking and the lists

| theorem | says |
|---|---|
| `MaskedBlocksExclude` | `AtomicSpec => []MaskedExclusion` |
| `NestingAlwaysExact` | `AtomicSpec => [](NestingExact /\ Unmasked)` |
| `ReadyAlwaysKept` | `Masked => (AtomicSpec => []ReadyKept)` |
| `AtomicAlwaysHolds` | `Masked => (AtomicSpec => []AtomicInv)` |

For every configuration, that of `config.h` included: no assumption says that the mask holds a
handler back. `MaskedExclusion` is about those it does hold back, whatever the others do
between any two accesses, and `ReadyKept` about the lists until one of the others appends in
the middle of an operation (`undisturbed`). The nesting count and the unmasking do not depend
on it. `Masked` says that the task does its list operations in atomic blocks, as `task.c`
does. Nothing else is assumed: any tasks, any priorities, any depth of nesting.

The invariant of the masking (`Ind`) follows the contexts on the core from the task up
(`OnCore`): each finds in BASEPRI and in the count what those below have left there, and at
each of its accesses has made something of it (`At`). A handler gives back what it found,
so that what is loaded and not yet stored is still right when its context goes on. A handler
that BASEPRI holds back has found it at 0, and then nobody below it is in a block: that is
`MaskedExclusion`.

The invariant of the lists (`ListInd`) relates links, tails and bitmap to the sequences of
`abs` at each of the eleven points of an operation: which list is half changed, how far its
links lead, and where the node is that comes or goes. It needs that no task is in two
lists, for an append writes through the tail into a node. An access of the task keeps it
(`AccessKeeps`), and an append of a handler does when no operation is under way
(`HandlerKeeps`). `Held` joins the two invariants: an operation that is under way is inside
a block of the task, which the masking invariant says the append of a handler that is held
back never meets; one that is not ends `undisturbed` (`ListsInOrder`).
`ListsCoherent` of QueueUnmaskedList shows what happens without `Masked`.

### The ports, the key, the delay, the memory

| theorem | says |
|---|---|
| `StacksAlwaysComplete` | `PortSpec => []PortInv`: on each core every stopped task has on its stack what its restoring takes |
| `ContextAlwaysKept` | `PortSpec => ContextKept`: it goes on with the registers it was stopped with |
| `ReportsAreTrue` | `KeySpec => []KeyInv`, for all times the key is configured with |
| `DelayLongEnough` | `DelaySpec => []DelayInv`, for every clock, reload value, argument and lateness |
| `MemorySound` | `MemorySpec => []MemoryInv`: what a task has allocated is aligned, in the pool, and nobody else's, and every byte is accounted for |
| `FailsWhenFull` | `MemorySpec => FailsOnlyWhenFull`: an allocation fails only if no gap has room for it |

`PortInv` is inductive with the types; `ContextKept` is an action property that follows from
it. `KeyInv` needs how far the ticks have been counted in each status, `DelayInv` that the
count has not reached its end as long as the loop goes on.

`MemoryInv` needs that the blocks follow each other in the list as they do in the pool, all
aligned and none shorter than its header (`WellPlaced`), and that the memory of each caller
is behind the header of a block of its own that is not the head (`Owned`): so a block that is
freed is found by its address, and the list is never empty again. `TakeKeeps` and `FreeKeeps`
say so of an insertion and of a removal anywhere in the list. That every byte is accounted
for is a sum over the blocks: a function that obeys the fold's equations is the only one that does
(`SumsUnique`), and so it is known what an insertion and a removal do to the sum. The first fit is the least place with room
(`FreeIsFound`). The sizes of the pool, of a header and of what main() asks for are any that
`MemoryAssumption` allows.

### The console and the software I2C

| theorem | says |
|---|---|
| `RunsTheLine` | `ConsoleSpec => []ConsoleInv`: the buffer stays terminated, and a carriage return runs the command and the words of the line that was typed |
| `TransfersExactly` | `I2cSpec => []I2cInv`: between two calls the bus is free, and a call that returns true has transferred exactly its bytes |

Both are about what a recursive function gives for inputs of any length: `strtok` over a line,
`FlattenSeq` over the operations of a byte or of a transfer. `SetInduction` is the induction
they use, with a set in the place of the predicate. The functions are defined by CHOOSE; that
there is one is the first fact about each (`IterExists`, `FlatExists`).

For the console `ParsesWords` says that after each character of a line the tokens so far are
the words of its beginning as `Words` defines them, by the places where a word starts. A space
ends the last word or nothing (`SpaceAdded`), another character begins a word or continues the
last one (`WordBegins`, `WordContinued`); that the n-th of the starts is the n-th word needs
the rank of an element in a finite set (`NthFacts`). `ConsoleInd` adds to the property that
the buffer holds the characters of `line` (`SameLine`), unless a backspace has been stored.

`I2cInd` says where a transfer is (`AtPlace`): in one of the four operations of a start, in
one of the three of a bit, at the answer to a byte, in a bit of the device or at the master's
answer to one of its bytes, in the stop or in the two stops of a failure, or at rest. Each
place says what is left of the operations, how both lines are, which bits of the byte the
device has, and which bytes it has got or sent. What is left is the rest of the present group
and the groups after it (`Left`); taking the first operation away is `Doing`, and a place
whose group is done unfolds the next one (`UnfoldBits`, `UnfoldBytes`, `UnfoldReads`,
`UnfoldAnswers`). One lemma per kind of place says where an operation leads (`StartSteps`,
`BitSteps`, `AckSteps`, `AckDone`, `ReadSteps`, `ReadBitSteps`, `AnswerSteps`, `StopSteps`,
`FailureSteps`), and only at rest nothing is left (`RestIsIdle`). It holds for bytes of any
length from two bits on, any transfers that `I2cAssumption` allows, and whatever the device
does of what it may: answering at once, late or not at all, and sending any bytes.

### The semaphore, the mutex and the reentrant lock

| theorem | says |
|---|---|
| `SemaphoreCounts` | `FairSpec => []SemaphoreInv`: a negative state is the number of tasks that wait |
| `HoldersStayBounded` | `FairSpec => []HoldersBounded`: no more tasks hold it than its maximum |
| `OwnerIsInMutex` | `ReentrantSpec => []OwnerHasLock` |
| `PrioritiesComeBack` | `ReentrantSpec => []PrioritiesRestored` |
| `MutexLosesNobody` | `ReentrantSpec => []MutexInv`: no task is lost in an exchange of priorities |
| `NoInversionInMutex` | `ReentrantSpec => NoInversion` |
| `TheCallerSleeps` | `ReentrantSpec => SleepsItself` |
| `LockIsCounted` | `ReentrantSpec => []LockDepth`: the count is that of the owner |
| `TextIsWhole` | `ReentrantSpec => []OutputWhole`: what is printed under the lock is not mixed |
| `CeilingAboveIsAlone` | `ReentrantSpec => []alone`, for uses that are `CeilingSound` |

For any tasks, priorities, counts, calls and wraps of the tick, in the uses that a premise
names; each premise is an operator of the model, and the MC modules assert that the uses of
their runs satisfy it. The ones of the semaphore are `Sound` (no two tasks that can preempt
each other race for `semaphore_try_acquire`, which tests the state and decrements it in two
steps; a handler does not release for tasks that wait) and, for the bound, `Few`. The uses of
SemTryTwo are not `Sound`, and there the bound fails. The theorems about the mutex assume no
more than `Sound` of the uses, any ceiling and any priorities: their properties are stated
as long as `alone` is true, that is until an exchange of priorities puts the owner behind
somebody else, because `mutex_lock` and `mutex_unlock` move the *front* task of a list. That
this never comes to be is `CeilingAboveIsAlone`, if no task has the ceiling's priority and a
task that takes the lock shares its own with no other (`CeilingSound`): there the theorems
hold without the condition. With the ceiling of `mutex.h` it does come to be, and what then
becomes of the mutex is the run DocumentedCeiling.

`SemInd` is the inductive invariant: where every task is (`Lists`: one list per task, those
that wait included; `FrontRuns`: the running task is at the front of its list unless it is
on its way out), that only the running task is inside a window of `task_suspend_all`
(`Windows`), how many wait at each step of a call, for between the count and the list there
is one more or one less (`Counted`), and a sum of units: the state, the tasks that wait and
those that were granted a unit are together no more than the maximum (`Summed`). The bound of
the holders is read off that sum. `TrySafe` says that the unit a try has seen is still there.
`SyncProofs` has what each call does to `Lists`; most steps change no list, and one lemma
(`QuietStep`) treats them all.

`MutexInd`, which holds as long as `alone` does (`AloneInd`), puts the mutex's windows into those of the semaphore, and adds who may be where:
from the sum at most one task is granted (`OneGranted`), so that the owner is that one, the
priorities are exchanged exactly while the owner is between its two exchanges (`Exchanged`),
and the front task of its list, which the exchange moves, is the owner. Of the reentrant
lock only the calls matter here: the theorems about the mutex hold for every program.

The two about the reentrant lock are for programs of any length with any number of locks in
each other, and have a premise on them. `Balanced`: every unlock has its lock in front of it,
and what a failed try leaves out is what is under its own lock. An unlock without a lock would
call `mutex_unlock` without an owner. For the text, `LockedThroughout`: a program is inside
the lock from its first call to its last, as `fmt_print`, `fmt_println` and `fmt_printf` are.
`DepthInd` says that what a task has still to do is the rest of one of its programs, or a
lock to count and such a rest behind it (`Left`); that a task with unlocks to make has the
mutex and is in its own code (`Inside`); and that the count is the number of those unlocks
(`StateCounts`). With the mutex's invariant it is inductive: an owner that has not counted yet,
and one that is giving the mutex back, has none. `Written` adds that the tasks with a text
begun are inside, and only the owner is.

### The event group

| theorem | says |
|---|---|
| `NobodyWaitsForThePast` | `EventFairSpec => []EventGroupInv`: nobody waits when every event has been triggered |
| `EventsStay` | `EventFairSpec => EventsKept` |
| `TheWokenReturns` | `EventFairSpec => WokenReturns` |

For any tasks, priorities, events and calls. The last two hold in every use. The first needs
`TriggersBelow`: a task that triggers has a lower priority than the others that listen, for
`eventgroup_listen` tests the events before it suspends the scheduler (line 41). The invariant
(`EventInd`) has the places, the windows and `WokenSees`, that the events are cleared as
long as the only listener has been woken and has not returned. With `BlockSafe`, that a task
about to wait is ready and not below the running one and its event is still to come, nobody
is forgotten (`NoneForgotten`) but in the step between the clearing of the last event and
the wake-up.

### The message queue

| theorem | says |
|---|---|
| `NobodyStranded` | `FairSpec => []MsgQueueInv`: no receiver waits for a message that is there, no sender for room that is there |
| `MessagesInOrder` | `FairSpec => FifoSpec`: `MsgQueue` implements `MsgFifo`, as long as it is `fresh` |
| `OneSenderInOrder` | `FairSpec /\ OneSender /\ ~use.isr => IsFifo`: and without that condition, with one sender |

For any tasks, priorities, messages, timeouts, sizes of the buffer and wraps of the tick, in
every use: with any senders, with tasks that do both, and with a handler that sends at any
time. No theorem has a premise on the uses; what the code relies on is in the properties.
`FifoSpec` and `MsgQueueInv` say what holds while `fresh` is true, that is until a sender
sends into a buffer that is full by then or a receiver stores a count that another one has
changed. With one sender and no handler neither happens (`FreshAlone`), and `OneSenderInOrder`
is the refinement without a condition. A receiver is not left waiting (`NoReceiverStranded`)
if those that wait are above the senders and no handler sends, a sender not
(`NoSenderStranded`) if it is the only one and above the receivers.

Most steps go on in the code and change no list; `Quiet` is what they have in common and
`QueueSteps` says that all actions but eight are of this kind, so that `QuietKeeps` treats them
at once. `QueueInd` has the places of the tasks, those in both stacks included (`Lists` of
`Waiting`), the windows, who may be where in the code (`Callers`), and that the count of
receivers is the number of those between their counting and their uncounting (`Counted`).
`FreshInd` joins it with what holds while the queue is `fresh`, and `SeenInd`, that a count
that has been seen is still the same, with one sender and no handler.
`RingInd` is the ring: the tail is as far behind the head as there are messages, a receiver
that has seen a message still has one, and a receiver that takes the front message away is
the last that was counted. That one rests on `Counted`: while a receiver is between its test
and its read, it is counted itself, so that nobody else gets the count to 0 and the message
away. `ReceiversSafe` and `SendersSafe` say that the task that
is about to wait is ready and not below the running one, so that no other task has run since
its test, and that there is no message, or no room.

The refinement mapping is that of the model: a message has left the queue (`fifo_q`) when
its last receiver has read it, although head and count follow two steps later. Every step
maps to a `Send`, to a `Receive` or to a stutter (`FifoNext`). `Around` is the contents of the
ring as a sequence; that a write behind the last item appends to it (`AroundSend`) and
that a step of the head takes its first away (`AroundStore`) are facts about remainders, that
two places less than a turn apart are not the same one (`ModApart`).

### Only model-checked

Liveness (`TurnComes`, `PlainWaiterServed`, `PlainTryReturns`, `ListenerReturns`, `SenderServed`,
`EventsReported`, `TransferEnds`) and what needs ENABLED: the prover does neither. Every
safety property and every action property of the passing runs is stated by a theorem.

## What the properties leave out, and what TLC says there

Where the code disagrees with what the repository says of it there is a run that shows it;
the other restrictions, of a configuration or of a premise, are these. Lifting one, TLC
finds a counterexample.

* Three tasks that sleep one or two ticks over and over: `BoundedLateness` fails. A tick
  wakes one sleeper (`task.c:322`), and the list of the next cycle is not taken up before
  the current one is empty (333).
* A sleep of more than half the range of the tick count returns at once (`task.c:114`):
  `NoEarlyReturn` fails. `NeverBackEarly` shows that there is no other way to be
  back from `task_sleep` early.
* A FIFO task that a task of a higher priority preempts goes to the tail of its list
  (`task.c:361`), and its peer runs next.
* The bitmap, like the links, loses what the tick does to it when the scheduler is only
  suspended: the bitmap part of `ReadyCoherent` with `Masked = FALSE`.
* With the priorities of `config.h` a tick may append in the middle of an operation of a
  task. What becomes of the lists then is not modelled; `ReadyKept` is about the time before.
  The third configuration of Parts, 80 for both, holds both handlers back.
* A task in `semaphore_acquire` that waits for a handler's `semaphore_release_from_isr`
  is not woken (`semaphore.c:163`): `SemaphoreInv` fails.
* A listener of the priority of the triggering task can be preempted between its test and
  its wait (`event_group.c:41`) and misses the trigger: `EventGroupInv` fails.
* Of two listeners woken together the first registers the events again
  (`event_group.c:57`) and the second goes back to wait: `WokenReturns` without its
  premise fails.
* A sender and a receiver of one priority: each can be preempted between its test and its
  wait and then waits for what is there (`msg_queue.c:82`, 133). This is why
  `NoSenderStranded` and `NoReceiverStranded` (both in `MsgQueueInv`) have premises about priorities.
* Two senders of one priority both see the last free slot (`msg_queue.c:82`), and a handler
  takes the slot that a sending task has seen: `IsFifo` fails there as it does in
  HandlerSends, and `FifoSpec` holds up to that.
* A handler that sends between the test of a receiver and its wait finds nobody to wake, and
  the receiver waits for a message that is there (`msg_queue.c:133`), whatever the
  priorities: `NoReceiverStranded` without its premise fails.
* Where the owner of a mutex has been put behind somebody else (`alone` is false) the running
  task is not the front one of its list: without that condition `SleepsItself` fails, with
  users at the ceiling and below or several below it `ReadyAtOwnPriority` (in `MutexInv`),
  and with two users of one priority below the ceiling `OwnerHasLock`, `PrioritiesRestored`
  and `NoInversion`.
* `NoInversion` and `PrioritiesRestored` do not speak of the windows inside `mutex_lock` and
  `mutex_unlock`, for the code gives back the priority before the semaphore
  (`mutex.c:81-84`): a task of a priority between the two may run there.
* `reentrantlock_try_lock` by the owner does not count but waits for the mutex that it
  holds itself, and fails (`reentrant_lock.c:42`). The programs of the run have this call,
  and the model has its waiting as one step. An unlock by somebody else than the owner
  relies on an assert that is compiled to nothing (`assert.h`); no program has one, and the
  model has the assertion as the guard of `mutex_unlock`.
* A transfer that misses an answer sends the stop condition twice, once in the function that
  missed it and once in its caller (`i2c_software.c`); `I2cInv` holds for both. An answer
  that comes late is taken only with a time to wait, and then for as long as it takes.
  `i2c_software_read` with a length of 0 would leave the device with the first bit of a byte;
  `I2cAssumption` excludes it.
* A backspace in an empty line is stored as a character (`console.c:94`): the user sees an
  empty line, and the command that is typed next is not found. `RunsWhatIsTyped` excepts such
  a line; without the exception it fails.
* A delay is one cycle longer for every turn of SysTick (`delay.c`), and for what is read
  late: a start again is counted as `reload + prev - curr`, one less than it took. Delays
  whose ticks do not fit into 32 bits, 59 s at 72 MHz, are excluded by `DelayAssumption`:
  the product `ticks` or the sum `count` would wrap and the delay end too early or a turn of the
  32 bits late.
* The Cortex-M0 has no BASEPRI, but its build includes the same `irq.h`; `Irq` is the masking
  of the other three.
* An argument of `memory_alloc` so near to 2^32 that the header and the alignment wrap in
  `memory.c:61` gets a small block: the sum is formed before the size is tested. `Sizes`
  are natural numbers without that wrap.
* `memory_get_free_size` counts the header of the head block as free (`memory.c:40`).

## Not modelled

* `pid_controller` is floating-point arithmetic without control flow, and the headers without
  state are macros and declarations.
* What `vsnprintf` makes of a format and the cutting of long strings in `fmt.c`; what the
  console echoes and prints, and its three commands of its own; a tab, which separates words
  like the space does, and a NUL among the typed characters.
* The registers one by one, what a task has on its stack of its own, and the SysTick handlers
  of the ports other than M4's, which read the same.
* The dynamic build's `task_create` allocates from `Memory` instead of taking a slot; the two
  are not composed.

## Plan

Done: the scheduler with its proofs, lists and masking with theirs, the objects from the
semaphore to the reentrant lock, memory, the ports, the drivers and the utilities. Left, in
the order of what matters most to users of the kernel:

1. `MsgFifo` with a promise per receiver: each receiver that was counted when a message
   was sent reads it once; or the counterexample.
2. `Memory` composed with the creation and deletion of tasks (the dynamic build).
