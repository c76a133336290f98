--------------------------- MODULE MsgQueueProofs ---------------------------
(***************************************************************************)
(* Proofs about MsgQueue, for all tasks, messages, sizes of the buffer and *)
(* uses: that no task is left in a list of the queue for what is there,    *)
(* and that the queue is a fifo (MsgFifo).                                 *)
(*                                                                         *)
(* The steps are of two kinds: most go on in the code and leave every list *)
(* alone (Quiet), so that the invariant is preserved for one reason; the   *)
(* others move tasks, and each has a proof of its own.                     *)
(*                                                                         *)
(* The lists and the counts are right in every state.  What is said of the *)
(* ring, and of those that wait, holds as long as nobody has gone on with  *)
(* a count that was another one by then (fresh).                           *)
(***************************************************************************)
EXTENDS MsgQueue, SyncProofs

-----------------------------------------------------------------------------
(* The inductive invariant *)

SendStep == {"send_test", "send_suspend", "send_block", "send_resume", "send_yield", "send_do"}
WaitStep == {"recv_count", "recv_test", "recv_wait", "recv_block", "recv_wait_resume",
             "recv_wait_yield"}
TryStep == {"try_count", "try_test", "try_time", "try_yield", "try_giveup"}
ReadStep == {"recv_suspend", "recv_uncount", "recv_read", "recv_load", "recv_store",
             "recv_wake", "recv_resume", "recv_more", "recv_yield"}

\* Inside a window of task_suspend_all.
Window == {"send_block", "send_resume", "recv_block", "recv_wait_resume", "recv_uncount",
           "recv_read", "recv_load", "recv_store", "recv_wake", "recv_resume"}

\* Out of the ready lists, or on the way back: the task goes on when it runs again.
Away == {"send_resume", "send_yield", "recv_wait_resume", "recv_wait_yield", "sleep_yield"}

\* The task has put itself into the list of the senders, or of the receivers, and has
\* not looked at the queue since.
SendQueued == {"send_resume", "send_yield", "send_test"}
ReceiveQueued == {"recv_wait_resume", "recv_wait_yield", "recv_test"}

\* A receiver that is counted in task_waiting_to_receive_count.
CountedStep == {"recv_test", "recv_wait", "recv_block", "recv_wait_resume", "recv_wait_yield",
                "try_test", "try_time", "try_yield", "try_giveup",
                "recv_suspend", "recv_uncount"}

\* A receiver that has seen a message, which nobody has taken from the queue since.
Reading == {"recv_suspend", "recv_uncount", "recv_read", "recv_load", "recv_store"}

\* A task at this step of its code may be this one, in this use of the queue.
Caller(t, step) ==
  /\ step # "out" => t \in User
  /\ step \in SendStep => t \in use.senders
  /\ step \in WaitStep => t \in use.blocking
  /\ step \in TryStep \union ReadStep => t \in Receiver

LocalTypes ==
  /\ buffer \in [Slot -> Msg \union {NoMsg}]
  /\ queue_head \in Slot /\ queue_tail \in Slot
  /\ queue_count \in Count /\ loaded \in Count
  /\ message \in [User -> Msg \union {NoMsg}] /\ data \in [User -> Msg \union {NoMsg}]
  /\ timeout \in [User -> Tick] /\ current_tick \in [User -> Tick]

QueueTypes ==
  /\ use \in QueueUses /\ kernel_ticks \in Tick /\ kernel_current_task \in Task
  /\ attr = AttrOf
  /\ ready_switch_next \in BOOLEAN /\ pendsv \in BOOLEAN
  /\ to_send \in Seq(Task) /\ to_receive \in Seq(Task)
  /\ pc \in [Task -> Step]
  /\ LocalTypes

\* The task that runs is at the front of its list, unless it is on its way out.
FrontRuns ==
  pendsv \/ pc[kernel_current_task] \in Away \/ AtFront(ready, attr, kernel_current_task)

\* Only the task that runs is inside a window, and no other one can run then.
Windows ==
  /\ task_suspended_count = IF pc[kernel_current_task] \in Window THEN 1 ELSE 0
  /\ pc[kernel_current_task] \in Window => ~pendsv
  /\ \A t \in Task : t # kernel_current_task => pc[t] \notin Window

\* The tasks are where the calls of this use can bring them.
Callers ==
  /\ \A t \in Task : Caller(t, pc[t])
  /\ \A t \in Range(to_send) : pc[t] \in SendQueued
  /\ \A t \in Range(to_receive) : pc[t] \in ReceiveQueued

CountedOf(p) == {t \in Task : p[t] \in CountedStep}

Counted == receive_count = Cardinality(CountedOf(pc))

\* The tasks in the two lists of the queue.
Waiting == to_send \o to_receive

QueueInd ==
  /\ QueueTypes /\ Lists(ready, blocked_curr, blocked_next, attr, Waiting)
  /\ FrontRuns /\ Windows /\ Callers /\ Counted

\* The ring, and what the tasks know of it at the steps of their calls.
RingInd ==
  /\ queue_count <= buffer_size
  /\ queue_tail = (queue_head + queue_count) % buffer_size
  /\ \A t \in Task :
       /\ pc[t] \in SendStep => message[t] \in Msg
       /\ pc[t] \in Reading => queue_count > 0
       /\ pc[t] \in {"recv_load", "recv_store"} => receive_count = 0

\* What a task has seen of the count is still so when it goes on with it.
SeenInd ==
  \A t \in Task :
    /\ pc[t] = "send_do" => queue_count < buffer_size
    /\ pc[t] = "recv_store" => loaded = queue_count

\* A task that is not below the one that runs, and ready.
Ahead(t) ==
  /\ t \in Range(ready.list[attr[t].priority])
  /\ attr[kernel_current_task].priority >= attr[t].priority

\* No receiver waits, or is about to, for a message that is there.
ReceiversSafe ==
  ~use.isr /\ Above(use.blocking, use.senders) =>
    /\ \A t \in Task : pc[t] \in {"recv_wait", "recv_block"} => queue_count = 0 /\ Ahead(t)
    /\ to_receive # <<>> => queue_count = 0

\* No sender waits, or is about to, for room that is there.
SendersSafe ==
  OneSender /\ Above(use.senders, Receiver) =>
    /\ \A t \in Task : pc[t] \in {"send_suspend", "send_block"} =>
         queue_count = buffer_size /\ Ahead(t)
    /\ pc[kernel_current_task] # "recv_wake" /\ to_send # <<>> => queue_count = buffer_size

-----------------------------------------------------------------------------
(* Facts about one state *)

\* What the use of the queue is.
LEMMA UseFacts ==
  ASSUME use \in QueueUses
  PROVE  /\ use.msgs \subseteq Msg
         /\ use.senders \subseteq User /\ use.blocking \subseteq Receiver
         /\ Receiver \subseteq User /\ User \subseteq Task
         /\ use.timeouts \in [Receiver -> SUBSET Tick]
         /\ AttrOf \in [Task -> Attribute] /\ use.sleepers \subseteq User
<1>1. /\ use.msgs \subseteq Msg /\ use.senders \subseteq Sender /\ use.blocking \subseteq Receiver
      /\ use.timeouts \in [Receiver -> SUBSET Tick]
      /\ Sender \subseteq User /\ Receiver \subseteq User
  BY MsgQueueAssumption
<1>2. AttrOf \in [Task -> Attribute] /\ use.sleepers \subseteq User /\ User \subseteq Task
  BY SyncAssumption DEF QueueUses, AttrOf, User, IdleTask
<1> QED BY <1>1, <1>2

\* The tasks that wait are those of the two lists.
LEMMA WaitingTasks ==
  ASSUME QueueInd
  PROVE  /\ to_send \in Seq(Task) /\ to_receive \in Seq(Task) /\ Waiting \in Seq(Task)
         /\ Range(Waiting) = Range(to_send) \union Range(to_receive)
         /\ Range(to_send) \subseteq Task /\ Range(to_receive) \subseteq Task
<1>1. to_send \in Seq(Task) /\ to_receive \in Seq(Task)
  BY DEF QueueInd, QueueTypes
<1>2. Waiting \in Seq(Task) /\ Range(Waiting) = Range(to_send) \union Range(to_receive)
  BY <1>1, ConcatRange DEF Waiting
<1>3. Range(to_send) \subseteq Task /\ Range(to_receive) \subseteq Task
  BY <1>1, RangeOfSeq
<1> QED BY <1>1, <1>2, <1>3

\* The task that runs, when it is not on its way out, is at the front and does not
\* wait.
LEMMA RunsAtFront ==
  ASSUME QueueInd, NEW t \in Task, NEW from, AtStep(t, from), from \notin Away
  PROVE  /\ t = kernel_current_task /\ AtFront(ready, attr, t)
         /\ t \notin Range(to_send) /\ t \notin Range(to_receive)
         /\ t \in Range(ready.list[attr[t].priority])
<1>1. t = kernel_current_task /\ pc[t] = from /\ ~pendsv
  BY DEF AtStep
<1>2. AtFront(ready, attr, t) /\ Lists(ready, blocked_curr, blocked_next, attr, Waiting)
  BY <1>1 DEF QueueInd, FrontRuns
<1>3. t \in Range(ready.list[attr[t].priority]) /\ t \notin Range(Waiting)
  BY <1>2, FrontIsReady
<1> QED BY <1>1, <1>2, <1>3, WaitingTasks

\* A task that waits is on its way out of the function it has called.
LEMMA NotWaiting ==
  ASSUME QueueInd, NEW t \in Task, NEW from, AtStep(t, from)
  PROVE  /\ from \notin {"send_resume", "send_yield"} => t \notin Range(to_send)
         /\ from \notin {"recv_wait_resume", "recv_wait_yield"} => t \notin Range(to_receive)
<1>1. t = kernel_current_task /\ pc[t] = from
  BY DEF AtStep
<1>2. CASE from \in Away
  <2>1. from \in {"send_resume", "send_yield", "recv_wait_resume", "recv_wait_yield", "sleep_yield"}
    BY <1>2 DEF Away
  <2> QED BY <1>1, <2>1 DEF QueueInd, Callers, SendQueued, ReceiveQueued
<1>3. CASE from \notin Away
  BY <1>3, RunsAtFront
<1> QED BY <1>2, <1>3

\* The steps of the tasks after a step of t.
LEMMA Goes ==
  ASSUME NEW t \in Task, NEW to, pc \in [Task -> Step], Goto(t, to), to \in Step
  PROVE  /\ pc' \in [Task -> Step] /\ pc'[t] = to
         /\ \A u \in Task : u # t => pc'[u] = pc[u]
BY DEF Goto

\* There are finitely many tasks: they have been created.
LEMMA TaskIsFinite == IsFiniteSet(Task)
<1>1. Created \in Seq(Task) /\ Range(Created) = Task
  BY SyncAssumption
<1>2. Len(Created) \in Nat /\ Created \in [1 .. Len(Created) -> Task]
  BY <1>1
<1>3. \A x \in Task : \E i \in 1 .. Len(Created) : Created[i] = x
  BY <1>1, <1>2 DEF Range
<1>4. IsFiniteSet(1 .. Len(Created))
  BY <1>2, FS_Interval
<1>5. Created \in Surjection(1 .. Len(Created), Task)
  BY <1>2, <1>3 DEF Surjection
<1> QED BY <1>4, <1>5, FS_Surjection

\* One task goes on, and is counted or no more.
LEMMA CountGoes ==
  ASSUME NEW p \in [Task -> Step], NEW s \in [Task -> Step], NEW t \in Task,
         \A u \in Task : u # t => s[u] = p[u],
         NEW n, n = Cardinality(CountedOf(p))
  PROVE  /\ n \in Nat
         /\ Cardinality(CountedOf(s)) =
              (n + (IF s[t] \in CountedStep THEN 1 ELSE 0))
                - (IF p[t] \in CountedStep THEN 1 ELSE 0)
<1>1. IsFiniteSet(Task)
  BY TaskIsFinite
<1>2. PICK A : A = CountedOf(p)
  OBVIOUS
<1>3. PICK B : B = CountedOf(s)
  OBVIOUS
<1>4. A \subseteq Task /\ B \subseteq Task
  BY <1>2, <1>3 DEF CountedOf
<1>5. IsFiniteSet(A) /\ IsFiniteSet(B)
  BY <1>1, <1>4, FS_Subset
<1>6. n = Cardinality(A) /\ n \in Nat
  BY <1>2, <1>5, FS_CardinalityType
<1>7. /\ t \in A <=> p[t] \in CountedStep
      /\ t \in B <=> s[t] \in CountedStep
      /\ \A u \in Task : u # t => (u \in A <=> u \in B)
  BY <1>2, <1>3 DEF CountedOf
<1>8. CASE t \in A /\ t \in B
  <2>1. A = B
    BY <1>4, <1>7, <1>8
  <2> QED BY <1>3, <1>6, <1>7, <1>8, <2>1
<1>9. CASE t \notin A /\ t \notin B
  <2>1. A = B
    BY <1>4, <1>7, <1>9
  <2> QED BY <1>3, <1>6, <1>7, <1>9, <2>1
<1>10. CASE t \notin A /\ t \in B
  <2>1. B = A \union {t}
    BY <1>4, <1>7, <1>10
  <2>2. Cardinality(B) = n + 1
    BY <1>5, <1>6, <1>10, <2>1, FS_AddElement
  <2> QED BY <1>3, <1>6, <1>7, <1>10, <2>2
<1>11. CASE t \in A /\ t \notin B
  <2>1. B = A \ {t}
    BY <1>4, <1>7, <1>11
  <2>2. Cardinality(B) = n - 1
    BY <1>5, <1>6, <1>11, <2>1, FS_RemoveElement
  <2> QED BY <1>3, <1>6, <1>7, <1>11, <2>2
<1> QED BY <1>8, <1>9, <1>10, <1>11

-----------------------------------------------------------------------------
(* Steps that change no list *)

\* The task waits on, or looks at the queue.
WaitMoves(from, to) ==
  /\ from \in {"send_resume", "send_yield"} => to \in SendQueued
  /\ from \in {"recv_wait_resume", "recv_wait_yield"} => to \in ReceiveQueued

CountMoves(from, to) ==
  receive_count' = (receive_count + (IF to \in CountedStep THEN 1 ELSE 0))
                     - (IF from \in CountedStep THEN 1 ELSE 0)

\* What the task has seen of the queue.
Sees(t, from, to) ==
  /\ to = "send_do" => from = "send_test" /\ queue_count # buffer_size
  /\ to = "send_suspend" => from = "send_test" /\ queue_count = buffer_size
  /\ to = "send_block" => from = "send_suspend"
  /\ to \in SendStep => from \in SendStep \/ (from = "out" /\ message'[t] \in Msg)
  /\ to = "recv_wait" => from = "recv_test" /\ queue_count = 0
  /\ to = "recv_block" => from = "recv_wait"
  /\ to = "recv_suspend" => queue_count # 0
  /\ to = "recv_uncount" => from = "recv_suspend"
  /\ to = "recv_read" => from = "recv_uncount"

\* What it does to it.
RingMoves(t, from, to) ==
  /\ IF from = "recv_store"
     THEN /\ to = "recv_wake"
          /\ queue_head' = next_head /\ queue_count' = (loaded - 1) % SizeMod
          /\ UNCHANGED <<buffer, queue_tail>>
     ELSE to # "recv_wake" /\ UNCHANGED ringVars
  /\ IF from = "recv_read"
     THEN /\ to = IF receive_count = 0 THEN "recv_load" ELSE "recv_resume"
          /\ data' = [data EXCEPT ![t] = buffer[queue_head]]
     ELSE to # "recv_load" /\ data' = data
  /\ \/ message' = message
     \/ from = "out" /\ \E m \in Msg : message' = [message EXCEPT ![t] = m]
  /\ IF from = "recv_load"
     THEN to = "recv_store" /\ loaded' = queue_count
     ELSE to # "recv_store"

\* What the kernel is left with: inside a window the count of the suspensions is 1.
KernelMoves(from, to) ==
  /\ UNCHANGED <<kernel_ticks, kernel_current_task, attr, ready, blocked_curr,
                 blocked_next, ready_switch_next>>
  /\ task_suspended_count' = IF to \in Window THEN 1 ELSE 0
  /\ pendsv' \in BOOLEAN
  /\ to \in Window => ~pendsv'
  /\ from \in Away => to \in Away \/ pendsv'

\* A task goes from one step of its code to another, and the lists stay as they are.
Quiet(t, from, to) ==
  /\ AtStep(t, from) /\ Goto(t, to) /\ from \in Step /\ to \in Step /\ Caller(t, to)
  /\ KernelMoves(from, to) /\ UNCHANGED <<to_send, to_receive, use>>
  /\ LocalTypes'
  /\ CountMoves(from, to) /\ WaitMoves(from, to)
  /\ from # "recv_wake" /\ Sees(t, from, to) /\ RingMoves(t, from, to)

LEMMA QuietHere ==
  ASSUME QueueInd, NEW t \in Task, NEW from, NEW to, Quiet(t, from, to)
  PROVE  /\ t = kernel_current_task /\ pc[t] = from /\ ~pendsv
         /\ kernel_current_task' = kernel_current_task
         /\ pc' \in [Task -> Step] /\ pc'[t] = to
         /\ \A u \in Task : u # t => pc'[u] = pc[u]
         /\ UNCHANGED <<kernel_ticks, attr, ready, to_send, to_receive, use>>
BY Goes DEF QueueInd, QueueTypes, Quiet, KernelMoves, AtStep

LEMMA QuietTypes ==
  ASSUME QueueInd, NEW t \in Task, NEW from, NEW to, Quiet(t, from, to)
  PROVE  QueueTypes'
<1>1. pc' \in [Task -> Step]
  BY QuietHere
<1>2. /\ use' \in QueueUses /\ kernel_ticks' \in Tick /\ kernel_current_task' \in Task
      /\ ready_switch_next' \in BOOLEAN /\ pendsv' \in BOOLEAN
      /\ attr' = AttrOf' /\ to_send' \in Seq(Task) /\ to_receive' \in Seq(Task) /\ LocalTypes'
  BY DEF QueueInd, QueueTypes, Quiet, KernelMoves, AttrOf
<1> QED BY <1>1, <1>2 DEF QueueTypes

LEMMA QuietPlaces ==
  ASSUME QueueInd, NEW t \in Task, NEW from, NEW to, Quiet(t, from, to)
  PROVE  /\ Lists(ready, blocked_curr, blocked_next, attr, Waiting)'
         /\ FrontRuns' /\ Windows'
<1>1. /\ t = kernel_current_task /\ pc[t] = from /\ ~pendsv
      /\ kernel_current_task' = kernel_current_task
      /\ pc' \in [Task -> Step] /\ pc'[t] = to
      /\ \A u \in Task : u # t => pc'[u] = pc[u]
  BY QuietHere
<1>2. Lists(ready, blocked_curr, blocked_next, attr, Waiting)'
  <2>1. Lists(ready, blocked_curr, blocked_next, attr, Waiting)
    BY DEF QueueInd
  <2>2. /\ ready' = ready /\ blocked_curr' = blocked_curr /\ blocked_next' = blocked_next
        /\ attr' = attr /\ Waiting' = Waiting
    BY DEF Quiet, KernelMoves, Waiting
  <2>3. Lists(ready', blocked_curr', blocked_next', attr', Waiting')
    BY <2>1, <2>2
  <2> QED BY <2>3
<1>3. FrontRuns'
  <2>1. CASE from \in Away
    BY <1>1, <2>1 DEF Quiet, KernelMoves, FrontRuns
  <2>2. CASE from \notin Away
    <3>1. AtFront(ready, attr, t)
      BY <2>2, RunsAtFront DEF Quiet
    <3>2. AtFront(ready', attr', kernel_current_task')
      BY <1>1, <3>1 DEF Quiet, KernelMoves
    <3> QED BY <3>2 DEF FrontRuns
  <2> QED BY <2>1, <2>2
<1>4. Windows'
  BY <1>1 DEF Quiet, KernelMoves, QueueInd, Windows
<1> QED BY <1>2, <1>3, <1>4

LEMMA QuietCallers ==
  ASSUME QueueInd, NEW t \in Task, NEW from, NEW to, Quiet(t, from, to)
  PROVE  Callers' /\ Counted'
<1>1. /\ t = kernel_current_task /\ pc[t] = from
      /\ pc' \in [Task -> Step] /\ pc'[t] = to
      /\ \A u \in Task : u # t => pc'[u] = pc[u]
  BY QuietHere
<1>2. use' = use /\ to_send' = to_send /\ to_receive' = to_receive /\ Caller(t, to)
  BY DEF Quiet
<1>3. ASSUME NEW u \in Task PROVE Caller(u, pc[u])'
  <2>1. Caller(u, pc'[u])
    BY <1>1, <1>2 DEF QueueInd, Callers
  <2> QED BY <1>2, <2>1 DEF Caller, User
<1>4. ASSUME NEW u \in Range(to_send) PROVE pc'[u] \in SendQueued
  <2>1. u \in Task
    BY WaitingTasks
  <2>2. CASE u = t
    BY <1>1, <1>4, <2>2, NotWaiting DEF Quiet, WaitMoves
  <2>3. CASE u # t
    BY <1>1, <2>1, <2>3 DEF QueueInd, Callers
  <2> QED BY <2>2, <2>3
<1>5. ASSUME NEW u \in Range(to_receive) PROVE pc'[u] \in ReceiveQueued
  <2>1. u \in Task
    BY WaitingTasks
  <2>2. CASE u = t
    BY <1>1, <1>5, <2>2, NotWaiting DEF Quiet, WaitMoves
  <2>3. CASE u # t
    BY <1>1, <2>1, <2>3 DEF QueueInd, Callers
  <2> QED BY <2>2, <2>3
<1>6. Callers'
  BY <1>2, <1>3, <1>4, <1>5 DEF Callers
<1>7. Counted'
  <2>1. pc \in [Task -> Step] /\ receive_count = Cardinality(CountedOf(pc))
    BY DEF QueueInd, QueueTypes, Counted
  <2>2. PICK p \in [Task -> Step], s \in [Task -> Step] : p = pc /\ s = pc'
    BY <1>1, <2>1
  <2>3. Cardinality(CountedOf(s)) = (receive_count + (IF to \in CountedStep THEN 1 ELSE 0))
                                      - (IF from \in CountedStep THEN 1 ELSE 0)
    <3>1. \A u \in Task : u # t => s[u] = p[u]
      BY <1>1, <2>2
    <3>2. s[t] = to /\ p[t] = from /\ receive_count = Cardinality(CountedOf(p))
      BY <1>1, <2>1, <2>2
    <3> QED BY <3>1, <3>2, CountGoes
  <2>4. receive_count' = Cardinality(CountedOf(s))
    BY <2>3 DEF Quiet, CountMoves
  <2> QED BY <2>2, <2>4 DEF Counted
<1> QED BY <1>6, <1>7

LEMMA QuietKeeps ==
  ASSUME QueueInd, NEW t \in Task, NEW from, NEW to, Quiet(t, from, to)
  PROVE  QueueInd'
BY QuietTypes, QuietPlaces, QuietCallers DEF QueueInd

-----------------------------------------------------------------------------
(* Which steps those are *)

\* The values of the counters, of the indices and of the ticks.
LEMMA LocalFacts ==
  /\ 0 \in Tick /\ 0 \in Count /\ \A n \in Tick : n # 0 => n - 1 \in Tick
  /\ \A x \in Int : x % buffer_size \in Slot /\ x % SizeMod \in Count
<1>1. buffer_size \in Nat \ {0} /\ SizeMod \in Nat \ {0}
  BY MsgQueueAssumption
<1>2. \A x \in Int : x % buffer_size \in 0 .. buffer_size - 1 /\ x % SizeMod \in 0 .. SizeMod - 1
  BY <1>1, Divided
<1>3. 0 \in Tick /\ \A n \in Tick : n # 0 => n - 1 \in Tick
  BY TickModAssumption DEF Tick
<1>4. 0 \in Count
  BY <1>1 DEF Count
<1> QED BY <1>2, <1>3, <1>4 DEF Slot, Count

\* What a step of t at from starts with.
LEMMA Here ==
  ASSUME QueueInd, NEW t \in Task, NEW from, AtStep(t, from)
  PROVE  /\ task_suspended_count = IF from \in Window THEN 1 ELSE 0
         /\ Caller(t, from) /\ pendsv = FALSE /\ t = kernel_current_task /\ pc[t] = from
         /\ use \in QueueUses /\ pc \in [Task -> Step] /\ LocalTypes /\ kernel_ticks \in Tick
         /\ receive_count \in Nat
<1>1. t = kernel_current_task /\ pc[t] = from /\ ~pendsv
  BY DEF AtStep
<1>2. pendsv \in BOOLEAN /\ pc \in [Task -> Step] /\ LocalTypes /\ use \in QueueUses /\ kernel_ticks \in Tick
  BY DEF QueueInd, QueueTypes
<1>3. receive_count \in Nat
  <2>1. PICK p \in [Task -> Step] : p = pc
    BY <1>2
  <2>2. receive_count = Cardinality(CountedOf(p))
    BY <2>1 DEF QueueInd, Counted
  <2> QED BY <2>2, CountGoes
<1> QED BY <1>1, <1>2, <1>3 DEF QueueInd, Windows, Callers

LEMMA SendSuspendIsQuiet ==
  ASSUME QueueInd, NEW t \in Task, SendSuspend(t), use' = use
  PROVE  Quiet(t, "send_suspend", "send_block")
<1>1. AtStep(t, "send_suspend") /\ Goto(t, "send_block")
  BY DEF SendSuspend
<1>2. /\ task_suspended_count = IF "send_suspend" \in Window THEN 1 ELSE 0
      /\ Caller(t, "send_suspend") /\ pendsv = FALSE /\ use \in QueueUses /\ LocalTypes /\ kernel_ticks \in Tick
      /\ receive_count \in Nat
  BY <1>1, Here
<1>3. Caller(t, "send_block")
  BY <1>1, <1>2, UseFacts DEF SendSuspend, Caller, SendStep, WaitStep, TryStep, ReadStep
<1>4. KernelMoves("send_suspend", "send_block") /\ UNCHANGED <<to_send, to_receive, use>>
  <2>1. /\ UNCHANGED <<kernel_ticks, kernel_current_task, attr, ready, blocked_curr,
                       blocked_next, ready_switch_next, to_send, to_receive>>
        /\ task_suspended_count' = IF "send_block" \in Window THEN 1 ELSE 0
    BY <1>1, <1>2 DEF SendSuspend, task_suspend_all, UnchangedLists, kernelVars, waitVars, Window
  <2>2. /\ pendsv' \in BOOLEAN
        /\ "send_block" \in Window => ~pendsv'
        /\ "send_suspend" \in Away => "send_block" \in Away \/ pendsv'
    BY <1>1, <1>2 DEF SendSuspend, task_suspend_all, UnchangedLists, kernelVars, Window, Away
  <2> QED BY <2>1, <2>2 DEF KernelMoves
<1>5. LocalTypes'
  BY <1>1, <1>2, UseFacts, LocalFacts DEF SendSuspend, LocalTypes, ringVars, localVars, LocalsDead
<1>6. CountMoves("send_suspend", "send_block") /\ WaitMoves("send_suspend", "send_block")
  BY <1>1, <1>2 DEF SendSuspend, waitVars, counted_off, CountMoves, CountedStep, WaitMoves, SendQueued, ReceiveQueued
<1>7. Sees(t, "send_suspend", "send_block")
  BY <1>1 DEF SendSuspend, Sees, SendStep
<1>8. RingMoves(t, "send_suspend", "send_block")
  BY <1>1 DEF SendSuspend, RingMoves, ringVars, localVars
<1> QED BY <1>1, <1>3, <1>4, <1>5, <1>6, <1>7, <1>8 DEF Quiet, Step

LEMMA SendResumeIsQuiet ==
  ASSUME QueueInd, NEW t \in Task, SendResume(t), use' = use
  PROVE  Quiet(t, "send_resume", "send_yield")
<1>1. AtStep(t, "send_resume") /\ Goto(t, "send_yield")
  BY DEF SendResume
<1>2. /\ task_suspended_count = IF "send_resume" \in Window THEN 1 ELSE 0
      /\ Caller(t, "send_resume") /\ pendsv = FALSE /\ use \in QueueUses /\ LocalTypes /\ kernel_ticks \in Tick
      /\ receive_count \in Nat
  BY <1>1, Here
<1>3. Caller(t, "send_yield")
  BY <1>1, <1>2, UseFacts DEF SendResume, Caller, SendStep, WaitStep, TryStep, ReadStep
<1>4. KernelMoves("send_resume", "send_yield") /\ UNCHANGED <<to_send, to_receive, use>>
  <2>1. /\ UNCHANGED <<kernel_ticks, kernel_current_task, attr, ready, blocked_curr,
                       blocked_next, ready_switch_next, to_send, to_receive>>
        /\ task_suspended_count' = IF "send_yield" \in Window THEN 1 ELSE 0
    BY <1>1, <1>2 DEF SendResume, task_resume_all, UnchangedLists, kernelVars, waitVars, Window
  <2>2. /\ pendsv' \in BOOLEAN
        /\ "send_yield" \in Window => ~pendsv'
        /\ "send_resume" \in Away => "send_yield" \in Away \/ pendsv'
    BY <1>1, <1>2 DEF SendResume, task_resume_all, UnchangedLists, kernelVars, Window, Away
  <2> QED BY <2>1, <2>2 DEF KernelMoves
<1>5. LocalTypes'
  BY <1>1, <1>2, UseFacts, LocalFacts DEF SendResume, LocalTypes, ringVars, localVars, LocalsDead
<1>6. CountMoves("send_resume", "send_yield") /\ WaitMoves("send_resume", "send_yield")
  BY <1>1, <1>2 DEF SendResume, waitVars, counted_off, CountMoves, CountedStep, WaitMoves, SendQueued, ReceiveQueued
<1>7. Sees(t, "send_resume", "send_yield")
  BY <1>1 DEF SendResume, Sees, SendStep
<1>8. RingMoves(t, "send_resume", "send_yield")
  BY <1>1 DEF SendResume, RingMoves, ringVars, localVars
<1> QED BY <1>1, <1>3, <1>4, <1>5, <1>6, <1>7, <1>8 DEF Quiet, Step

LEMMA SendYieldIsQuiet ==
  ASSUME QueueInd, NEW t \in Task, SendYield(t), use' = use
  PROVE  Quiet(t, "send_yield", "send_test")
<1>1. AtStep(t, "send_yield") /\ Goto(t, "send_test")
  BY DEF SendYield
<1>2. /\ task_suspended_count = IF "send_yield" \in Window THEN 1 ELSE 0
      /\ Caller(t, "send_yield") /\ pendsv = FALSE /\ use \in QueueUses /\ LocalTypes /\ kernel_ticks \in Tick
      /\ receive_count \in Nat
  BY <1>1, Here
<1>3. Caller(t, "send_test")
  BY <1>1, <1>2, UseFacts DEF SendYield, Caller, SendStep, WaitStep, TryStep, ReadStep
<1>4. KernelMoves("send_yield", "send_test") /\ UNCHANGED <<to_send, to_receive, use>>
  <2>1. /\ UNCHANGED <<kernel_ticks, kernel_current_task, attr, ready, blocked_curr,
                       blocked_next, ready_switch_next, to_send, to_receive>>
        /\ task_suspended_count' = IF "send_test" \in Window THEN 1 ELSE 0
    BY <1>1, <1>2 DEF SendYield, task_yield, UnchangedLists, kernelVars, waitVars, Window
  <2>2. /\ pendsv' \in BOOLEAN
        /\ "send_test" \in Window => ~pendsv'
        /\ "send_yield" \in Away => "send_test" \in Away \/ pendsv'
    BY <1>1, <1>2 DEF SendYield, task_yield, UnchangedLists, kernelVars, Window, Away
  <2> QED BY <2>1, <2>2 DEF KernelMoves
<1>5. LocalTypes'
  BY <1>1, <1>2, UseFacts, LocalFacts DEF SendYield, LocalTypes, ringVars, localVars, LocalsDead
<1>6. CountMoves("send_yield", "send_test") /\ WaitMoves("send_yield", "send_test")
  BY <1>1, <1>2 DEF SendYield, waitVars, counted_off, CountMoves, CountedStep, WaitMoves, SendQueued, ReceiveQueued
<1>7. Sees(t, "send_yield", "send_test")
  BY <1>1 DEF SendYield, Sees, SendStep
<1>8. RingMoves(t, "send_yield", "send_test")
  BY <1>1 DEF SendYield, RingMoves, ringVars, localVars
<1> QED BY <1>1, <1>3, <1>4, <1>5, <1>6, <1>7, <1>8 DEF Quiet, Step

LEMMA CallReceiveIsQuiet ==
  ASSUME QueueInd, NEW t \in Task, CallReceive(t), use' = use
  PROVE  Quiet(t, "out", "recv_count")
<1>1. AtStep(t, "out") /\ Goto(t, "recv_count")
  BY DEF CallReceive
<1>2. /\ task_suspended_count = IF "out" \in Window THEN 1 ELSE 0
      /\ Caller(t, "out") /\ pendsv = FALSE /\ use \in QueueUses /\ LocalTypes /\ kernel_ticks \in Tick
      /\ receive_count \in Nat
  BY <1>1, Here
<1>3. Caller(t, "recv_count")
  BY <1>1, <1>2, UseFacts DEF CallReceive, Caller, SendStep, WaitStep, TryStep, ReadStep
<1>4. KernelMoves("out", "recv_count") /\ UNCHANGED <<to_send, to_receive, use>>
  <2>1. /\ UNCHANGED <<kernel_ticks, kernel_current_task, attr, ready, blocked_curr,
                       blocked_next, ready_switch_next, to_send, to_receive>>
        /\ task_suspended_count' = IF "recv_count" \in Window THEN 1 ELSE 0
    BY <1>1, <1>2 DEF CallReceive, kernelVars, waitVars, Window
  <2>2. /\ pendsv' \in BOOLEAN
        /\ "recv_count" \in Window => ~pendsv'
        /\ "out" \in Away => "recv_count" \in Away \/ pendsv'
    BY <1>1, <1>2 DEF CallReceive, kernelVars, Window, Away
  <2> QED BY <2>1, <2>2 DEF KernelMoves
<1>5. LocalTypes'
  BY <1>1, <1>2, UseFacts, LocalFacts DEF CallReceive, LocalTypes, ringVars, localVars, LocalsDead
<1>6. CountMoves("out", "recv_count") /\ WaitMoves("out", "recv_count")
  BY <1>1, <1>2 DEF CallReceive, waitVars, counted_off, CountMoves, CountedStep, WaitMoves, SendQueued, ReceiveQueued
<1>7. Sees(t, "out", "recv_count")
  BY <1>1 DEF CallReceive, Sees, SendStep
<1>8. RingMoves(t, "out", "recv_count")
  BY <1>1 DEF CallReceive, RingMoves, ringVars, localVars
<1> QED BY <1>1, <1>3, <1>4, <1>5, <1>6, <1>7, <1>8 DEF Quiet, Step

LEMMA CallTryReceiveIsQuiet ==
  ASSUME QueueInd, NEW t \in Task, CallTryReceive(t), use' = use
  PROVE  Quiet(t, "out", "try_count")
<1>1. AtStep(t, "out") /\ Goto(t, "try_count")
  BY DEF CallTryReceive
<1>2. /\ task_suspended_count = IF "out" \in Window THEN 1 ELSE 0
      /\ Caller(t, "out") /\ pendsv = FALSE /\ use \in QueueUses /\ LocalTypes /\ kernel_ticks \in Tick
      /\ receive_count \in Nat
  BY <1>1, Here
<1>3. Caller(t, "try_count")
  BY <1>1, <1>2, UseFacts DEF CallTryReceive, Caller, SendStep, WaitStep, TryStep, ReadStep
<1>4. KernelMoves("out", "try_count") /\ UNCHANGED <<to_send, to_receive, use>>
  <2>1. /\ UNCHANGED <<kernel_ticks, kernel_current_task, attr, ready, blocked_curr,
                       blocked_next, ready_switch_next, to_send, to_receive>>
        /\ task_suspended_count' = IF "try_count" \in Window THEN 1 ELSE 0
    BY <1>1, <1>2 DEF CallTryReceive, kernelVars, waitVars, Window
  <2>2. /\ pendsv' \in BOOLEAN
        /\ "try_count" \in Window => ~pendsv'
        /\ "out" \in Away => "try_count" \in Away \/ pendsv'
    BY <1>1, <1>2 DEF CallTryReceive, kernelVars, Window, Away
  <2> QED BY <2>1, <2>2 DEF KernelMoves
<1>5. LocalTypes'
  BY <1>1, <1>2, UseFacts, LocalFacts DEF CallTryReceive, LocalTypes, ringVars, localVars, LocalsDead
<1>6. CountMoves("out", "try_count") /\ WaitMoves("out", "try_count")
  BY <1>1, <1>2 DEF CallTryReceive, waitVars, counted_off, CountMoves, CountedStep, WaitMoves, SendQueued, ReceiveQueued
<1>7. Sees(t, "out", "try_count")
  BY <1>1 DEF CallTryReceive, Sees, SendStep
<1>8. RingMoves(t, "out", "try_count")
  BY <1>1 DEF CallTryReceive, RingMoves, ringVars, localVars
<1> QED BY <1>1, <1>3, <1>4, <1>5, <1>6, <1>7, <1>8 DEF Quiet, Step

LEMMA TryYieldIsQuiet ==
  ASSUME QueueInd, NEW t \in Task, TryYield(t), use' = use
  PROVE  Quiet(t, "try_yield", "try_test")
<1>1. AtStep(t, "try_yield") /\ Goto(t, "try_test")
  BY DEF TryYield
<1>2. /\ task_suspended_count = IF "try_yield" \in Window THEN 1 ELSE 0
      /\ Caller(t, "try_yield") /\ pendsv = FALSE /\ use \in QueueUses /\ LocalTypes /\ kernel_ticks \in Tick
      /\ receive_count \in Nat
  BY <1>1, Here
<1>3. Caller(t, "try_test")
  BY <1>1, <1>2, UseFacts DEF TryYield, Caller, SendStep, WaitStep, TryStep, ReadStep
<1>4. KernelMoves("try_yield", "try_test") /\ UNCHANGED <<to_send, to_receive, use>>
  <2>1. /\ UNCHANGED <<kernel_ticks, kernel_current_task, attr, ready, blocked_curr,
                       blocked_next, ready_switch_next, to_send, to_receive>>
        /\ task_suspended_count' = IF "try_test" \in Window THEN 1 ELSE 0
    BY <1>1, <1>2 DEF TryYield, task_yield, UnchangedLists, kernelVars, waitVars, Window
  <2>2. /\ pendsv' \in BOOLEAN
        /\ "try_test" \in Window => ~pendsv'
        /\ "try_yield" \in Away => "try_test" \in Away \/ pendsv'
    BY <1>1, <1>2 DEF TryYield, task_yield, UnchangedLists, kernelVars, Window, Away
  <2> QED BY <2>1, <2>2 DEF KernelMoves
<1>5. LocalTypes'
  BY <1>1, <1>2, UseFacts, LocalFacts DEF TryYield, LocalTypes, ringVars, localVars, LocalsDead
<1>6. CountMoves("try_yield", "try_test") /\ WaitMoves("try_yield", "try_test")
  BY <1>1, <1>2 DEF TryYield, waitVars, counted_off, CountMoves, CountedStep, WaitMoves, SendQueued, ReceiveQueued
<1>7. Sees(t, "try_yield", "try_test")
  BY <1>1 DEF TryYield, Sees, SendStep
<1>8. RingMoves(t, "try_yield", "try_test")
  BY <1>1 DEF TryYield, RingMoves, ringVars, localVars
<1> QED BY <1>1, <1>3, <1>4, <1>5, <1>6, <1>7, <1>8 DEF Quiet, Step

LEMMA TryGiveUpIsQuiet ==
  ASSUME QueueInd, NEW t \in Task, TryGiveUp(t), use' = use
  PROVE  Quiet(t, "try_giveup", "out")
<1>1. AtStep(t, "try_giveup") /\ Goto(t, "out")
  BY DEF TryGiveUp
<1>2. /\ task_suspended_count = IF "try_giveup" \in Window THEN 1 ELSE 0
      /\ Caller(t, "try_giveup") /\ pendsv = FALSE /\ use \in QueueUses /\ LocalTypes /\ kernel_ticks \in Tick
      /\ receive_count \in Nat
  BY <1>1, Here
<1>3. Caller(t, "out")
  BY <1>1, <1>2, UseFacts DEF TryGiveUp, Caller, SendStep, WaitStep, TryStep, ReadStep
<1>4. KernelMoves("try_giveup", "out") /\ UNCHANGED <<to_send, to_receive, use>>
  <2>1. /\ UNCHANGED <<kernel_ticks, kernel_current_task, attr, ready, blocked_curr,
                       blocked_next, ready_switch_next, to_send, to_receive>>
        /\ task_suspended_count' = IF "out" \in Window THEN 1 ELSE 0
    BY <1>1, <1>2 DEF TryGiveUp, kernelVars, waitVars, Window
  <2>2. /\ pendsv' \in BOOLEAN
        /\ "out" \in Window => ~pendsv'
        /\ "try_giveup" \in Away => "out" \in Away \/ pendsv'
    BY <1>1, <1>2 DEF TryGiveUp, kernelVars, Window, Away
  <2> QED BY <2>1, <2>2 DEF KernelMoves
<1>5. LocalTypes'
  BY <1>1, <1>2, UseFacts, LocalFacts DEF TryGiveUp, LocalTypes, ringVars, localVars, LocalsDead
<1>6. CountMoves("try_giveup", "out") /\ WaitMoves("try_giveup", "out")
  BY <1>1, <1>2 DEF TryGiveUp, waitVars, counted_off, CountMoves, CountedStep, WaitMoves, SendQueued, ReceiveQueued
<1>7. Sees(t, "try_giveup", "out")
  BY <1>1 DEF TryGiveUp, Sees, SendStep
<1>8. RingMoves(t, "try_giveup", "out")
  BY <1>1 DEF TryGiveUp, RingMoves, ringVars, localVars
<1> QED BY <1>1, <1>3, <1>4, <1>5, <1>6, <1>7, <1>8 DEF Quiet, Step

LEMMA ReceiveWaitIsQuiet ==
  ASSUME QueueInd, NEW t \in Task, ReceiveWait(t), use' = use
  PROVE  Quiet(t, "recv_wait", "recv_block")
<1>1. AtStep(t, "recv_wait") /\ Goto(t, "recv_block")
  BY DEF ReceiveWait
<1>2. /\ task_suspended_count = IF "recv_wait" \in Window THEN 1 ELSE 0
      /\ Caller(t, "recv_wait") /\ pendsv = FALSE /\ use \in QueueUses /\ LocalTypes /\ kernel_ticks \in Tick
      /\ receive_count \in Nat
  BY <1>1, Here
<1>3. Caller(t, "recv_block")
  BY <1>1, <1>2, UseFacts DEF ReceiveWait, Caller, SendStep, WaitStep, TryStep, ReadStep
<1>4. KernelMoves("recv_wait", "recv_block") /\ UNCHANGED <<to_send, to_receive, use>>
  <2>1. /\ UNCHANGED <<kernel_ticks, kernel_current_task, attr, ready, blocked_curr,
                       blocked_next, ready_switch_next, to_send, to_receive>>
        /\ task_suspended_count' = IF "recv_block" \in Window THEN 1 ELSE 0
    BY <1>1, <1>2 DEF ReceiveWait, task_suspend_all, UnchangedLists, kernelVars, waitVars, Window
  <2>2. /\ pendsv' \in BOOLEAN
        /\ "recv_block" \in Window => ~pendsv'
        /\ "recv_wait" \in Away => "recv_block" \in Away \/ pendsv'
    BY <1>1, <1>2 DEF ReceiveWait, task_suspend_all, UnchangedLists, kernelVars, Window, Away
  <2> QED BY <2>1, <2>2 DEF KernelMoves
<1>5. LocalTypes'
  BY <1>1, <1>2, UseFacts, LocalFacts DEF ReceiveWait, LocalTypes, ringVars, localVars, LocalsDead
<1>6. CountMoves("recv_wait", "recv_block") /\ WaitMoves("recv_wait", "recv_block")
  BY <1>1, <1>2 DEF ReceiveWait, waitVars, counted_off, CountMoves, CountedStep, WaitMoves, SendQueued, ReceiveQueued
<1>7. Sees(t, "recv_wait", "recv_block")
  BY <1>1 DEF ReceiveWait, Sees, SendStep
<1>8. RingMoves(t, "recv_wait", "recv_block")
  BY <1>1 DEF ReceiveWait, RingMoves, ringVars, localVars
<1> QED BY <1>1, <1>3, <1>4, <1>5, <1>6, <1>7, <1>8 DEF Quiet, Step

LEMMA ReceiveWaitResumeIsQuiet ==
  ASSUME QueueInd, NEW t \in Task, ReceiveWaitResume(t), use' = use
  PROVE  Quiet(t, "recv_wait_resume", "recv_wait_yield")
<1>1. AtStep(t, "recv_wait_resume") /\ Goto(t, "recv_wait_yield")
  BY DEF ReceiveWaitResume
<1>2. /\ task_suspended_count = IF "recv_wait_resume" \in Window THEN 1 ELSE 0
      /\ Caller(t, "recv_wait_resume") /\ pendsv = FALSE /\ use \in QueueUses /\ LocalTypes /\ kernel_ticks \in Tick
      /\ receive_count \in Nat
  BY <1>1, Here
<1>3. Caller(t, "recv_wait_yield")
  BY <1>1, <1>2, UseFacts DEF ReceiveWaitResume, Caller, SendStep, WaitStep, TryStep, ReadStep
<1>4. KernelMoves("recv_wait_resume", "recv_wait_yield") /\ UNCHANGED <<to_send, to_receive, use>>
  <2>1. /\ UNCHANGED <<kernel_ticks, kernel_current_task, attr, ready, blocked_curr,
                       blocked_next, ready_switch_next, to_send, to_receive>>
        /\ task_suspended_count' = IF "recv_wait_yield" \in Window THEN 1 ELSE 0
    BY <1>1, <1>2 DEF ReceiveWaitResume, task_resume_all, UnchangedLists, kernelVars, waitVars, Window
  <2>2. /\ pendsv' \in BOOLEAN
        /\ "recv_wait_yield" \in Window => ~pendsv'
        /\ "recv_wait_resume" \in Away => "recv_wait_yield" \in Away \/ pendsv'
    BY <1>1, <1>2 DEF ReceiveWaitResume, task_resume_all, UnchangedLists, kernelVars, Window, Away
  <2> QED BY <2>1, <2>2 DEF KernelMoves
<1>5. LocalTypes'
  BY <1>1, <1>2, UseFacts, LocalFacts DEF ReceiveWaitResume, LocalTypes, ringVars, localVars, LocalsDead
<1>6. CountMoves("recv_wait_resume", "recv_wait_yield") /\ WaitMoves("recv_wait_resume", "recv_wait_yield")
  BY <1>1, <1>2 DEF ReceiveWaitResume, waitVars, counted_off, CountMoves, CountedStep, WaitMoves, SendQueued, ReceiveQueued
<1>7. Sees(t, "recv_wait_resume", "recv_wait_yield")
  BY <1>1 DEF ReceiveWaitResume, Sees, SendStep
<1>8. RingMoves(t, "recv_wait_resume", "recv_wait_yield")
  BY <1>1 DEF ReceiveWaitResume, RingMoves, ringVars, localVars
<1> QED BY <1>1, <1>3, <1>4, <1>5, <1>6, <1>7, <1>8 DEF Quiet, Step

LEMMA ReceiveWaitYieldIsQuiet ==
  ASSUME QueueInd, NEW t \in Task, ReceiveWaitYield(t), use' = use
  PROVE  Quiet(t, "recv_wait_yield", "recv_test")
<1>1. AtStep(t, "recv_wait_yield") /\ Goto(t, "recv_test")
  BY DEF ReceiveWaitYield
<1>2. /\ task_suspended_count = IF "recv_wait_yield" \in Window THEN 1 ELSE 0
      /\ Caller(t, "recv_wait_yield") /\ pendsv = FALSE /\ use \in QueueUses /\ LocalTypes /\ kernel_ticks \in Tick
      /\ receive_count \in Nat
  BY <1>1, Here
<1>3. Caller(t, "recv_test")
  BY <1>1, <1>2, UseFacts DEF ReceiveWaitYield, Caller, SendStep, WaitStep, TryStep, ReadStep
<1>4. KernelMoves("recv_wait_yield", "recv_test") /\ UNCHANGED <<to_send, to_receive, use>>
  <2>1. /\ UNCHANGED <<kernel_ticks, kernel_current_task, attr, ready, blocked_curr,
                       blocked_next, ready_switch_next, to_send, to_receive>>
        /\ task_suspended_count' = IF "recv_test" \in Window THEN 1 ELSE 0
    BY <1>1, <1>2 DEF ReceiveWaitYield, task_yield, UnchangedLists, kernelVars, waitVars, Window
  <2>2. /\ pendsv' \in BOOLEAN
        /\ "recv_test" \in Window => ~pendsv'
        /\ "recv_wait_yield" \in Away => "recv_test" \in Away \/ pendsv'
    BY <1>1, <1>2 DEF ReceiveWaitYield, task_yield, UnchangedLists, kernelVars, Window, Away
  <2> QED BY <2>1, <2>2 DEF KernelMoves
<1>5. LocalTypes'
  BY <1>1, <1>2, UseFacts, LocalFacts DEF ReceiveWaitYield, LocalTypes, ringVars, localVars, LocalsDead
<1>6. CountMoves("recv_wait_yield", "recv_test") /\ WaitMoves("recv_wait_yield", "recv_test")
  BY <1>1, <1>2 DEF ReceiveWaitYield, waitVars, counted_off, CountMoves, CountedStep, WaitMoves, SendQueued, ReceiveQueued
<1>7. Sees(t, "recv_wait_yield", "recv_test")
  BY <1>1 DEF ReceiveWaitYield, Sees, SendStep
<1>8. RingMoves(t, "recv_wait_yield", "recv_test")
  BY <1>1 DEF ReceiveWaitYield, RingMoves, ringVars, localVars
<1> QED BY <1>1, <1>3, <1>4, <1>5, <1>6, <1>7, <1>8 DEF Quiet, Step

LEMMA ReceiveSuspendIsQuiet ==
  ASSUME QueueInd, NEW t \in Task, ReceiveSuspend(t), use' = use
  PROVE  Quiet(t, "recv_suspend", "recv_uncount")
<1>1. AtStep(t, "recv_suspend") /\ Goto(t, "recv_uncount")
  BY DEF ReceiveSuspend
<1>2. /\ task_suspended_count = IF "recv_suspend" \in Window THEN 1 ELSE 0
      /\ Caller(t, "recv_suspend") /\ pendsv = FALSE /\ use \in QueueUses /\ LocalTypes /\ kernel_ticks \in Tick
      /\ receive_count \in Nat
  BY <1>1, Here
<1>3. Caller(t, "recv_uncount")
  BY <1>1, <1>2, UseFacts DEF ReceiveSuspend, Caller, SendStep, WaitStep, TryStep, ReadStep
<1>4. KernelMoves("recv_suspend", "recv_uncount") /\ UNCHANGED <<to_send, to_receive, use>>
  <2>1. /\ UNCHANGED <<kernel_ticks, kernel_current_task, attr, ready, blocked_curr,
                       blocked_next, ready_switch_next, to_send, to_receive>>
        /\ task_suspended_count' = IF "recv_uncount" \in Window THEN 1 ELSE 0
    BY <1>1, <1>2 DEF ReceiveSuspend, task_suspend_all, UnchangedLists, kernelVars, waitVars, Window
  <2>2. /\ pendsv' \in BOOLEAN
        /\ "recv_uncount" \in Window => ~pendsv'
        /\ "recv_suspend" \in Away => "recv_uncount" \in Away \/ pendsv'
    BY <1>1, <1>2 DEF ReceiveSuspend, task_suspend_all, UnchangedLists, kernelVars, Window, Away
  <2> QED BY <2>1, <2>2 DEF KernelMoves
<1>5. LocalTypes'
  BY <1>1, <1>2, UseFacts, LocalFacts DEF ReceiveSuspend, LocalTypes, ringVars, localVars, LocalsDead
<1>6. CountMoves("recv_suspend", "recv_uncount") /\ WaitMoves("recv_suspend", "recv_uncount")
  BY <1>1, <1>2 DEF ReceiveSuspend, waitVars, counted_off, CountMoves, CountedStep, WaitMoves, SendQueued, ReceiveQueued
<1>7. Sees(t, "recv_suspend", "recv_uncount")
  BY <1>1 DEF ReceiveSuspend, Sees, SendStep
<1>8. RingMoves(t, "recv_suspend", "recv_uncount")
  BY <1>1 DEF ReceiveSuspend, RingMoves, ringVars, localVars
<1> QED BY <1>1, <1>3, <1>4, <1>5, <1>6, <1>7, <1>8 DEF Quiet, Step

LEMMA ReceiveUncountIsQuiet ==
  ASSUME QueueInd, NEW t \in Task, ReceiveUncount(t), use' = use
  PROVE  Quiet(t, "recv_uncount", "recv_read")
<1>1. AtStep(t, "recv_uncount") /\ Goto(t, "recv_read")
  BY DEF ReceiveUncount
<1>2. /\ task_suspended_count = IF "recv_uncount" \in Window THEN 1 ELSE 0
      /\ Caller(t, "recv_uncount") /\ pendsv = FALSE /\ use \in QueueUses /\ LocalTypes /\ kernel_ticks \in Tick
      /\ receive_count \in Nat
  BY <1>1, Here
<1>3. Caller(t, "recv_read")
  BY <1>1, <1>2, UseFacts DEF ReceiveUncount, Caller, SendStep, WaitStep, TryStep, ReadStep
<1>4. KernelMoves("recv_uncount", "recv_read") /\ UNCHANGED <<to_send, to_receive, use>>
  <2>1. /\ UNCHANGED <<kernel_ticks, kernel_current_task, attr, ready, blocked_curr,
                       blocked_next, ready_switch_next, to_send, to_receive>>
        /\ task_suspended_count' = IF "recv_read" \in Window THEN 1 ELSE 0
    BY <1>1, <1>2 DEF ReceiveUncount, kernelVars, waitVars, Window
  <2>2. /\ pendsv' \in BOOLEAN
        /\ "recv_read" \in Window => ~pendsv'
        /\ "recv_uncount" \in Away => "recv_read" \in Away \/ pendsv'
    BY <1>1, <1>2 DEF ReceiveUncount, kernelVars, Window, Away
  <2> QED BY <2>1, <2>2 DEF KernelMoves
<1>5. LocalTypes'
  BY <1>1, <1>2, UseFacts, LocalFacts DEF ReceiveUncount, LocalTypes, ringVars, localVars, LocalsDead
<1>6. CountMoves("recv_uncount", "recv_read") /\ WaitMoves("recv_uncount", "recv_read")
  BY <1>1, <1>2 DEF ReceiveUncount, waitVars, counted_off, CountMoves, CountedStep, WaitMoves, SendQueued, ReceiveQueued
<1>7. Sees(t, "recv_uncount", "recv_read")
  BY <1>1 DEF ReceiveUncount, Sees, SendStep
<1>8. RingMoves(t, "recv_uncount", "recv_read")
  BY <1>1 DEF ReceiveUncount, RingMoves, ringVars, localVars
<1> QED BY <1>1, <1>3, <1>4, <1>5, <1>6, <1>7, <1>8 DEF Quiet, Step

LEMMA ReceiveLoadIsQuiet ==
  ASSUME QueueInd, NEW t \in Task, ReceiveLoad(t), use' = use
  PROVE  Quiet(t, "recv_load", "recv_store")
<1>1. AtStep(t, "recv_load") /\ Goto(t, "recv_store")
  BY DEF ReceiveLoad
<1>2. /\ task_suspended_count = IF "recv_load" \in Window THEN 1 ELSE 0
      /\ Caller(t, "recv_load") /\ pendsv = FALSE /\ use \in QueueUses /\ LocalTypes /\ kernel_ticks \in Tick
      /\ receive_count \in Nat
  BY <1>1, Here
<1>3. Caller(t, "recv_store")
  BY <1>1, <1>2, UseFacts DEF ReceiveLoad, Caller, SendStep, WaitStep, TryStep, ReadStep
<1>4. KernelMoves("recv_load", "recv_store") /\ UNCHANGED <<to_send, to_receive, use>>
  <2>1. /\ UNCHANGED <<kernel_ticks, kernel_current_task, attr, ready, blocked_curr,
                       blocked_next, ready_switch_next, to_send, to_receive>>
        /\ task_suspended_count' = IF "recv_store" \in Window THEN 1 ELSE 0
    BY <1>1, <1>2 DEF ReceiveLoad, kernelVars, waitVars, Window
  <2>2. /\ pendsv' \in BOOLEAN
        /\ "recv_store" \in Window => ~pendsv'
        /\ "recv_load" \in Away => "recv_store" \in Away \/ pendsv'
    BY <1>1, <1>2 DEF ReceiveLoad, kernelVars, Window, Away
  <2> QED BY <2>1, <2>2 DEF KernelMoves
<1>5. LocalTypes'
  BY <1>1, <1>2, UseFacts, LocalFacts DEF ReceiveLoad, LocalTypes, ringVars, localVars, LocalsDead
<1>6. CountMoves("recv_load", "recv_store") /\ WaitMoves("recv_load", "recv_store")
  BY <1>1, <1>2 DEF ReceiveLoad, waitVars, counted_off, CountMoves, CountedStep, WaitMoves, SendQueued, ReceiveQueued
<1>7. Sees(t, "recv_load", "recv_store")
  BY <1>1 DEF ReceiveLoad, Sees, SendStep
<1>8. RingMoves(t, "recv_load", "recv_store")
  BY <1>1 DEF ReceiveLoad, RingMoves, ringVars, localVars
<1> QED BY <1>1, <1>3, <1>4, <1>5, <1>6, <1>7, <1>8 DEF Quiet, Step

LEMMA ReceiveStoreIsQuiet ==
  ASSUME QueueInd, NEW t \in Task, ReceiveStore(t), use' = use
  PROVE  Quiet(t, "recv_store", "recv_wake")
<1>1. AtStep(t, "recv_store") /\ Goto(t, "recv_wake")
  BY DEF ReceiveStore
<1>2. /\ task_suspended_count = IF "recv_store" \in Window THEN 1 ELSE 0
      /\ Caller(t, "recv_store") /\ pendsv = FALSE /\ use \in QueueUses /\ LocalTypes /\ kernel_ticks \in Tick
      /\ receive_count \in Nat
  BY <1>1, Here
<1>3. Caller(t, "recv_wake")
  BY <1>1, <1>2, UseFacts DEF ReceiveStore, Caller, SendStep, WaitStep, TryStep, ReadStep
<1>4. KernelMoves("recv_store", "recv_wake") /\ UNCHANGED <<to_send, to_receive, use>>
  <2>1. /\ UNCHANGED <<kernel_ticks, kernel_current_task, attr, ready, blocked_curr,
                       blocked_next, ready_switch_next, to_send, to_receive>>
        /\ task_suspended_count' = IF "recv_wake" \in Window THEN 1 ELSE 0
    BY <1>1, <1>2 DEF ReceiveStore, kernelVars, waitVars, Window
  <2>2. /\ pendsv' \in BOOLEAN
        /\ "recv_wake" \in Window => ~pendsv'
        /\ "recv_store" \in Away => "recv_wake" \in Away \/ pendsv'
    BY <1>1, <1>2 DEF ReceiveStore, kernelVars, Window, Away
  <2> QED BY <2>1, <2>2 DEF KernelMoves
<1>5. LocalTypes'
  <2>1. queue_head + 1 \in Int /\ loaded - 1 \in Int
    BY <1>2, MsgQueueAssumption DEF LocalTypes, Slot, Count
  <2>2. (queue_head + 1) % buffer_size \in Slot /\ (loaded - 1) % SizeMod \in Count
    BY <2>1, LocalFacts
  <2>3. /\ queue_head' \in Slot /\ queue_count' \in Count /\ loaded' \in Count
        /\ UNCHANGED <<buffer, queue_tail, message, data, timeout, current_tick>>
    BY <2>2, LocalFacts DEF ReceiveStore, next_head
  <2> QED BY <1>2, <2>3 DEF LocalTypes
<1>6. CountMoves("recv_store", "recv_wake") /\ WaitMoves("recv_store", "recv_wake")
  BY <1>1, <1>2 DEF ReceiveStore, waitVars, counted_off, CountMoves, CountedStep, WaitMoves, SendQueued, ReceiveQueued
<1>7. Sees(t, "recv_store", "recv_wake")
  BY <1>1 DEF ReceiveStore, Sees, SendStep
<1>8. RingMoves(t, "recv_store", "recv_wake")
  BY <1>1 DEF ReceiveStore, RingMoves, ringVars, localVars
<1> QED BY <1>1, <1>3, <1>4, <1>5, <1>6, <1>7, <1>8 DEF Quiet, Step

LEMMA ReceiveResumeIsQuiet ==
  ASSUME QueueInd, NEW t \in Task, ReceiveResume(t), use' = use
  PROVE  Quiet(t, "recv_resume", "recv_more")
<1>1. AtStep(t, "recv_resume") /\ Goto(t, "recv_more")
  BY DEF ReceiveResume
<1>2. /\ task_suspended_count = IF "recv_resume" \in Window THEN 1 ELSE 0
      /\ Caller(t, "recv_resume") /\ pendsv = FALSE /\ use \in QueueUses /\ LocalTypes /\ kernel_ticks \in Tick
      /\ receive_count \in Nat
  BY <1>1, Here
<1>3. Caller(t, "recv_more")
  BY <1>1, <1>2, UseFacts DEF ReceiveResume, Caller, SendStep, WaitStep, TryStep, ReadStep
<1>4. KernelMoves("recv_resume", "recv_more") /\ UNCHANGED <<to_send, to_receive, use>>
  <2>1. /\ UNCHANGED <<kernel_ticks, kernel_current_task, attr, ready, blocked_curr,
                       blocked_next, ready_switch_next, to_send, to_receive>>
        /\ task_suspended_count' = IF "recv_more" \in Window THEN 1 ELSE 0
    BY <1>1, <1>2 DEF ReceiveResume, task_resume_all, UnchangedLists, kernelVars, waitVars, Window
  <2>2. /\ pendsv' \in BOOLEAN
        /\ "recv_more" \in Window => ~pendsv'
        /\ "recv_resume" \in Away => "recv_more" \in Away \/ pendsv'
    BY <1>1, <1>2 DEF ReceiveResume, task_resume_all, UnchangedLists, kernelVars, Window, Away
  <2> QED BY <2>1, <2>2 DEF KernelMoves
<1>5. LocalTypes'
  BY <1>1, <1>2, UseFacts, LocalFacts DEF ReceiveResume, LocalTypes, ringVars, localVars, LocalsDead
<1>6. CountMoves("recv_resume", "recv_more") /\ WaitMoves("recv_resume", "recv_more")
  BY <1>1, <1>2 DEF ReceiveResume, waitVars, counted_off, CountMoves, CountedStep, WaitMoves, SendQueued, ReceiveQueued
<1>7. Sees(t, "recv_resume", "recv_more")
  BY <1>1 DEF ReceiveResume, Sees, SendStep
<1>8. RingMoves(t, "recv_resume", "recv_more")
  BY <1>1 DEF ReceiveResume, RingMoves, ringVars, localVars
<1> QED BY <1>1, <1>3, <1>4, <1>5, <1>6, <1>7, <1>8 DEF Quiet, Step

LEMMA ReceiveYieldIsQuiet ==
  ASSUME QueueInd, NEW t \in Task, ReceiveYield(t), use' = use
  PROVE  Quiet(t, "recv_yield", "out")
<1>1. AtStep(t, "recv_yield") /\ Goto(t, "out")
  BY DEF ReceiveYield
<1>2. /\ task_suspended_count = IF "recv_yield" \in Window THEN 1 ELSE 0
      /\ Caller(t, "recv_yield") /\ pendsv = FALSE /\ use \in QueueUses /\ LocalTypes /\ kernel_ticks \in Tick
      /\ receive_count \in Nat
  BY <1>1, Here
<1>3. Caller(t, "out")
  BY <1>1, <1>2, UseFacts DEF ReceiveYield, Caller, SendStep, WaitStep, TryStep, ReadStep
<1>4. KernelMoves("recv_yield", "out") /\ UNCHANGED <<to_send, to_receive, use>>
  <2>1. /\ UNCHANGED <<kernel_ticks, kernel_current_task, attr, ready, blocked_curr,
                       blocked_next, ready_switch_next, to_send, to_receive>>
        /\ task_suspended_count' = IF "out" \in Window THEN 1 ELSE 0
    BY <1>1, <1>2 DEF ReceiveYield, task_yield, UnchangedLists, kernelVars, waitVars, Window
  <2>2. /\ pendsv' \in BOOLEAN
        /\ "out" \in Window => ~pendsv'
        /\ "recv_yield" \in Away => "out" \in Away \/ pendsv'
    BY <1>1, <1>2 DEF ReceiveYield, task_yield, UnchangedLists, kernelVars, Window, Away
  <2> QED BY <2>1, <2>2 DEF KernelMoves
<1>5. LocalTypes'
  BY <1>1, <1>2, UseFacts, LocalFacts DEF ReceiveYield, LocalTypes, ringVars, localVars, LocalsDead
<1>6. CountMoves("recv_yield", "out") /\ WaitMoves("recv_yield", "out")
  BY <1>1, <1>2 DEF ReceiveYield, waitVars, counted_off, CountMoves, CountedStep, WaitMoves, SendQueued, ReceiveQueued
<1>7. Sees(t, "recv_yield", "out")
  BY <1>1 DEF ReceiveYield, Sees, SendStep
<1>8. RingMoves(t, "recv_yield", "out")
  BY <1>1 DEF ReceiveYield, RingMoves, ringVars, localVars
<1> QED BY <1>1, <1>3, <1>4, <1>5, <1>6, <1>7, <1>8 DEF Quiet, Step

LEMMA SleepYieldIsQuiet ==
  ASSUME QueueInd, NEW t \in Task, SleepYield(t), use' = use
  PROVE  Quiet(t, "sleep_yield", "out")
<1>1. AtStep(t, "sleep_yield") /\ Goto(t, "out")
  BY DEF SleepYield, sleep_yield
<1>2. /\ task_suspended_count = IF "sleep_yield" \in Window THEN 1 ELSE 0
      /\ Caller(t, "sleep_yield") /\ pendsv = FALSE /\ use \in QueueUses /\ LocalTypes /\ kernel_ticks \in Tick
      /\ receive_count \in Nat
  BY <1>1, Here
<1>3. Caller(t, "out")
  BY <1>1, <1>2, UseFacts DEF SleepYield, Caller, SendStep, WaitStep, TryStep, ReadStep
<1>4. KernelMoves("sleep_yield", "out") /\ UNCHANGED <<to_send, to_receive, use>>
  <2>1. /\ UNCHANGED <<kernel_ticks, kernel_current_task, attr, ready, blocked_curr,
                       blocked_next, ready_switch_next, to_send, to_receive>>
        /\ task_suspended_count' = IF "out" \in Window THEN 1 ELSE 0
    BY <1>1, <1>2 DEF SleepYield, sleep_yield, task_yield, UnchangedLists, kernelVars, waitVars, Window
  <2>2. /\ pendsv' \in BOOLEAN
        /\ "out" \in Window => ~pendsv'
        /\ "sleep_yield" \in Away => "out" \in Away \/ pendsv'
    BY <1>1, <1>2 DEF SleepYield, sleep_yield, task_yield, UnchangedLists, kernelVars, Window, Away
  <2> QED BY <2>1, <2>2 DEF KernelMoves
<1>5. LocalTypes'
  BY <1>1, <1>2, UseFacts, LocalFacts DEF SleepYield, LocalTypes, ringVars, localVars, LocalsDead
<1>6. CountMoves("sleep_yield", "out") /\ WaitMoves("sleep_yield", "out")
  BY <1>1, <1>2 DEF SleepYield, waitVars, counted_off, CountMoves, CountedStep, WaitMoves, SendQueued, ReceiveQueued
<1>7. Sees(t, "sleep_yield", "out")
  BY <1>1 DEF SleepYield, Sees, SendStep
<1>8. RingMoves(t, "sleep_yield", "out")
  BY <1>1 DEF SleepYield, RingMoves, ringVars, localVars
<1> QED BY <1>1, <1>3, <1>4, <1>5, <1>6, <1>7, <1>8 DEF Quiet, Step

LEMMA SendTestIsQuiet ==
  ASSUME QueueInd, NEW t \in Task, SendTest(t), use' = use
  PROVE  \E from, to \in Step : Quiet(t, from, to)
<1>1. PICK from \in Step, to \in Step :
        /\ AtStep(t, from) /\ Goto(t, to)
        /\ from = "send_test" /\ to = IF queue_count = buffer_size THEN "send_suspend" ELSE "send_do"
  BY DEF SendTest, Step, msgqueue_is_full
<1>2. /\ task_suspended_count = IF from \in Window THEN 1 ELSE 0
      /\ Caller(t, from) /\ pendsv = FALSE /\ use \in QueueUses /\ LocalTypes /\ kernel_ticks \in Tick
      /\ receive_count \in Nat
  BY <1>1, Here
<1>3. Caller(t, to)
  BY <1>1, <1>2, UseFacts DEF SendTest, Caller, SendStep, WaitStep, TryStep, ReadStep
<1>4. KernelMoves(from, to) /\ UNCHANGED <<to_send, to_receive, use>>
  <2>1. /\ UNCHANGED <<kernel_ticks, kernel_current_task, attr, ready, blocked_curr,
                       blocked_next, ready_switch_next, to_send, to_receive>>
        /\ task_suspended_count' = IF to \in Window THEN 1 ELSE 0
    BY <1>1, <1>2 DEF SendTest, kernelVars, waitVars, Window
  <2>2. /\ pendsv' \in BOOLEAN
        /\ to \in Window => ~pendsv'
        /\ from \in Away => to \in Away \/ pendsv'
    BY <1>1, <1>2 DEF SendTest, kernelVars, Window, Away
  <2> QED BY <2>1, <2>2 DEF KernelMoves
<1>5. LocalTypes'
  BY <1>1, <1>2, UseFacts, LocalFacts DEF SendTest, LocalTypes, ringVars, localVars, LocalsDead
<1>6. CountMoves(from, to) /\ WaitMoves(from, to)
  BY <1>1, <1>2 DEF SendTest, waitVars, counted_off, CountMoves, CountedStep, WaitMoves, SendQueued, ReceiveQueued
<1>7. Sees(t, from, to)
  BY <1>1 DEF SendTest, Sees, SendStep, msgqueue_is_full
<1>8. RingMoves(t, from, to)
  BY <1>1 DEF SendTest, RingMoves, ringVars, localVars
<1> QED BY <1>1, <1>3, <1>4, <1>5, <1>6, <1>7, <1>8 DEF Quiet

LEMMA ReceiveCountIsQuiet ==
  ASSUME QueueInd, NEW t \in Task, ReceiveCount(t), use' = use
  PROVE  \E from, to \in Step : Quiet(t, from, to)
<1>1. PICK from \in Step, to \in Step :
        /\ AtStep(t, from) /\ Goto(t, to)
        /\ <<from, to>> \in {<<"recv_count", "recv_test">>, <<"try_count", "try_test">>}
  BY DEF ReceiveCount, Step
<1>2. /\ task_suspended_count = IF from \in Window THEN 1 ELSE 0
      /\ Caller(t, from) /\ pendsv = FALSE /\ use \in QueueUses /\ LocalTypes /\ kernel_ticks \in Tick
      /\ receive_count \in Nat
  BY <1>1, Here
<1>3. Caller(t, to)
  BY <1>1, <1>2, UseFacts DEF ReceiveCount, Caller, SendStep, WaitStep, TryStep, ReadStep
<1>4. KernelMoves(from, to) /\ UNCHANGED <<to_send, to_receive, use>>
  <2>1. /\ UNCHANGED <<kernel_ticks, kernel_current_task, attr, ready, blocked_curr,
                       blocked_next, ready_switch_next, to_send, to_receive>>
        /\ task_suspended_count' = IF to \in Window THEN 1 ELSE 0
    BY <1>1, <1>2 DEF ReceiveCount, kernelVars, waitVars, Window
  <2>2. /\ pendsv' \in BOOLEAN
        /\ to \in Window => ~pendsv'
        /\ from \in Away => to \in Away \/ pendsv'
    BY <1>1, <1>2 DEF ReceiveCount, kernelVars, Window, Away
  <2> QED BY <2>1, <2>2 DEF KernelMoves
<1>5. LocalTypes'
  BY <1>1, <1>2, UseFacts, LocalFacts DEF ReceiveCount, LocalTypes, ringVars, localVars, LocalsDead
<1>6. CountMoves(from, to) /\ WaitMoves(from, to)
  BY <1>1, <1>2 DEF ReceiveCount, waitVars, counted_off, CountMoves, CountedStep, WaitMoves, SendQueued, ReceiveQueued
<1>7. Sees(t, from, to)
  BY <1>1 DEF ReceiveCount, Sees, SendStep
<1>8. RingMoves(t, from, to)
  BY <1>1 DEF ReceiveCount, RingMoves, ringVars, localVars
<1> QED BY <1>1, <1>3, <1>4, <1>5, <1>6, <1>7, <1>8 DEF Quiet

LEMMA ReceiveTestIsQuiet ==
  ASSUME QueueInd, NEW t \in Task, ReceiveTest(t), use' = use
  PROVE  \E from, to \in Step : Quiet(t, from, to)
<1>1. PICK from \in Step, to \in Step :
        /\ AtStep(t, from) /\ Goto(t, to)
        /\ from \in {"recv_test", "try_test"}
        /\ from = "recv_test" => to = IF queue_count = 0 THEN "recv_wait" ELSE "recv_suspend"
        /\ from = "try_test" => to = IF queue_count = 0 THEN "try_time" ELSE "recv_suspend"
  BY DEF ReceiveTest, Step, msgqueue_is_empty
<1>2. /\ task_suspended_count = IF from \in Window THEN 1 ELSE 0
      /\ Caller(t, from) /\ pendsv = FALSE /\ use \in QueueUses /\ LocalTypes /\ kernel_ticks \in Tick
      /\ receive_count \in Nat
  BY <1>1, Here
<1>3. Caller(t, to)
  BY <1>1, <1>2, UseFacts DEF ReceiveTest, Caller, SendStep, WaitStep, TryStep, ReadStep
<1>4. KernelMoves(from, to) /\ UNCHANGED <<to_send, to_receive, use>>
  <2>1. /\ UNCHANGED <<kernel_ticks, kernel_current_task, attr, ready, blocked_curr,
                       blocked_next, ready_switch_next, to_send, to_receive>>
        /\ task_suspended_count' = IF to \in Window THEN 1 ELSE 0
    BY <1>1, <1>2 DEF ReceiveTest, kernelVars, waitVars, Window
  <2>2. /\ pendsv' \in BOOLEAN
        /\ to \in Window => ~pendsv'
        /\ from \in Away => to \in Away \/ pendsv'
    BY <1>1, <1>2 DEF ReceiveTest, kernelVars, Window, Away
  <2> QED BY <2>1, <2>2 DEF KernelMoves
<1>5. LocalTypes'
  BY <1>1, <1>2, UseFacts, LocalFacts DEF ReceiveTest, LocalTypes, ringVars, localVars, LocalsDead
<1>6. CountMoves(from, to) /\ WaitMoves(from, to)
  BY <1>1, <1>2 DEF ReceiveTest, waitVars, counted_off, CountMoves, CountedStep, WaitMoves, SendQueued, ReceiveQueued
<1>7. Sees(t, from, to)
  BY <1>1 DEF ReceiveTest, Sees, SendStep, msgqueue_is_empty
<1>8. RingMoves(t, from, to)
  BY <1>1 DEF ReceiveTest, RingMoves, ringVars, localVars
<1> QED BY <1>1, <1>3, <1>4, <1>5, <1>6, <1>7, <1>8 DEF Quiet

LEMMA ReceiveReadIsQuiet ==
  ASSUME QueueInd, NEW t \in Task, ReceiveRead(t), use' = use
  PROVE  \E from, to \in Step : Quiet(t, from, to)
<1>1. PICK from \in Step, to \in Step :
        /\ AtStep(t, from) /\ Goto(t, to)
        /\ from = "recv_read" /\ to = IF receive_count = 0 THEN "recv_load" ELSE "recv_resume"
  BY DEF ReceiveRead, Step, last_receiver
<1>2. /\ task_suspended_count = IF from \in Window THEN 1 ELSE 0
      /\ Caller(t, from) /\ pendsv = FALSE /\ use \in QueueUses /\ LocalTypes /\ kernel_ticks \in Tick
      /\ receive_count \in Nat
  BY <1>1, Here
<1>3. Caller(t, to)
  BY <1>1, <1>2, UseFacts DEF ReceiveRead, Caller, SendStep, WaitStep, TryStep, ReadStep
<1>4. KernelMoves(from, to) /\ UNCHANGED <<to_send, to_receive, use>>
  <2>1. /\ UNCHANGED <<kernel_ticks, kernel_current_task, attr, ready, blocked_curr,
                       blocked_next, ready_switch_next, to_send, to_receive>>
        /\ task_suspended_count' = IF to \in Window THEN 1 ELSE 0
    BY <1>1, <1>2 DEF ReceiveRead, kernelVars, waitVars, Window
  <2>2. /\ pendsv' \in BOOLEAN
        /\ to \in Window => ~pendsv'
        /\ from \in Away => to \in Away \/ pendsv'
    BY <1>1, <1>2 DEF ReceiveRead, kernelVars, Window, Away
  <2> QED BY <2>1, <2>2 DEF KernelMoves
<1>5. LocalTypes'
  BY <1>1, <1>2, UseFacts, LocalFacts DEF ReceiveRead, LocalTypes, ringVars, localVars, LocalsDead
<1>6. CountMoves(from, to) /\ WaitMoves(from, to)
  BY <1>1, <1>2 DEF ReceiveRead, waitVars, counted_off, CountMoves, CountedStep, WaitMoves, SendQueued, ReceiveQueued
<1>7. Sees(t, from, to)
  BY <1>1 DEF ReceiveRead, Sees, SendStep, last_receiver
<1>8. RingMoves(t, from, to)
  BY <1>1 DEF ReceiveRead, RingMoves, ringVars, localVars
<1> QED BY <1>1, <1>3, <1>4, <1>5, <1>6, <1>7, <1>8 DEF Quiet

LEMMA ReceiveMoreIsQuiet ==
  ASSUME QueueInd, NEW t \in Task, ReceiveMore(t), use' = use
  PROVE  \E from, to \in Step : Quiet(t, from, to)
<1>1. PICK from \in Step, to \in Step :
        /\ AtStep(t, from) /\ Goto(t, to)
        /\ from = "recv_more" /\ to \in {"recv_yield", "out"}
  BY DEF ReceiveMore, Step
<1>2. /\ task_suspended_count = IF from \in Window THEN 1 ELSE 0
      /\ Caller(t, from) /\ pendsv = FALSE /\ use \in QueueUses /\ LocalTypes /\ kernel_ticks \in Tick
      /\ receive_count \in Nat
  BY <1>1, Here
<1>3. Caller(t, to)
  BY <1>1, <1>2, UseFacts DEF ReceiveMore, Caller, SendStep, WaitStep, TryStep, ReadStep
<1>4. KernelMoves(from, to) /\ UNCHANGED <<to_send, to_receive, use>>
  <2>1. /\ UNCHANGED <<kernel_ticks, kernel_current_task, attr, ready, blocked_curr,
                       blocked_next, ready_switch_next, to_send, to_receive>>
        /\ task_suspended_count' = IF to \in Window THEN 1 ELSE 0
    BY <1>1, <1>2 DEF ReceiveMore, kernelVars, waitVars, Window
  <2>2. /\ pendsv' \in BOOLEAN
        /\ to \in Window => ~pendsv'
        /\ from \in Away => to \in Away \/ pendsv'
    BY <1>1, <1>2 DEF ReceiveMore, kernelVars, Window, Away
  <2> QED BY <2>1, <2>2 DEF KernelMoves
<1>5. LocalTypes'
  BY <1>1, <1>2, UseFacts, LocalFacts DEF ReceiveMore, LocalTypes, ringVars, localVars, LocalsDead
<1>6. CountMoves(from, to) /\ WaitMoves(from, to)
  BY <1>1, <1>2 DEF ReceiveMore, waitVars, counted_off, CountMoves, CountedStep, WaitMoves, SendQueued, ReceiveQueued
<1>7. Sees(t, from, to)
  BY <1>1 DEF ReceiveMore, Sees, SendStep
<1>8. RingMoves(t, from, to)
  BY <1>1 DEF ReceiveMore, RingMoves, ringVars, localVars
<1> QED BY <1>1, <1>3, <1>4, <1>5, <1>6, <1>7, <1>8 DEF Quiet

LEMMA TryTimeIsQuiet ==
  ASSUME QueueInd, NEW t \in Task, TryTime(t), use' = use
  PROVE  \E from, to \in Step : Quiet(t, from, to)
<1>1. PICK from \in Step, to \in Step :
        /\ AtStep(t, from) /\ Goto(t, to)
        /\ from = "try_time" /\ to \in {"try_giveup", "try_yield", "try_test"}
  BY DEF TryTime, Step
<1>2. /\ task_suspended_count = IF from \in Window THEN 1 ELSE 0
      /\ Caller(t, from) /\ pendsv = FALSE /\ use \in QueueUses /\ LocalTypes /\ kernel_ticks \in Tick
      /\ receive_count \in Nat
  BY <1>1, Here
<1>3. Caller(t, to)
  BY <1>1, <1>2, UseFacts DEF TryTime, Caller, SendStep, WaitStep, TryStep, ReadStep
<1>4. KernelMoves(from, to) /\ UNCHANGED <<to_send, to_receive, use>>
  <2>1. /\ UNCHANGED <<kernel_ticks, kernel_current_task, attr, ready, blocked_curr,
                       blocked_next, ready_switch_next, to_send, to_receive>>
        /\ task_suspended_count' = IF to \in Window THEN 1 ELSE 0
    BY <1>1, <1>2 DEF TryTime, kernelVars, waitVars, Window
  <2>2. /\ pendsv' \in BOOLEAN
        /\ to \in Window => ~pendsv'
        /\ from \in Away => to \in Away \/ pendsv'
    BY <1>1, <1>2 DEF TryTime, kernelVars, Window, Away
  <2> QED BY <2>1, <2>2 DEF KernelMoves
<1>5. LocalTypes'
  BY <1>1, <1>2, UseFacts, LocalFacts DEF TryTime, LocalTypes, ringVars, localVars, LocalsDead
<1>6. CountMoves(from, to) /\ WaitMoves(from, to)
  BY <1>1, <1>2 DEF TryTime, waitVars, counted_off, CountMoves, CountedStep, WaitMoves, SendQueued, ReceiveQueued
<1>7. Sees(t, from, to)
  BY <1>1 DEF TryTime, Sees, SendStep
<1>8. RingMoves(t, from, to)
  BY <1>1 DEF TryTime, RingMoves, ringVars, localVars
<1> QED BY <1>1, <1>3, <1>4, <1>5, <1>6, <1>7, <1>8 DEF Quiet

LEMMA CallSendIsQuiet ==
  ASSUME QueueInd, NEW t \in Task, NEW m \in Msg, CallSend(t, m), use' = use
  PROVE  Quiet(t, "out", "send_test")
<1>1. /\ AtStep(t, "out") /\ Goto(t, "send_test") /\ t \in use.senders
      /\ message' = [message EXCEPT ![t] = m]
      /\ UNCHANGED <<kernelVars, ringVars, waitVars, data, loaded, timeout, current_tick>>
  BY DEF CallSend
<1>2. /\ task_suspended_count = IF "out" \in Window THEN 1 ELSE 0
      /\ pendsv = FALSE /\ use \in QueueUses /\ LocalTypes /\ receive_count \in Nat
  BY <1>1, Here
<1>3. Caller(t, "send_test") /\ t \in User
  BY <1>1, <1>2, UseFacts DEF Caller, SendStep, WaitStep, TryStep, ReadStep
<1>4. KernelMoves("out", "send_test") /\ UNCHANGED <<to_send, to_receive, use>>
  BY <1>1, <1>2 DEF KernelMoves, kernelVars, waitVars, Window, Away
<1>5. LocalTypes' /\ message'[t] \in Msg
  BY <1>1, <1>2, <1>3 DEF LocalTypes, ringVars
<1>6. CountMoves("out", "send_test") /\ WaitMoves("out", "send_test")
  BY <1>1, <1>2 DEF waitVars, CountMoves, CountedStep, WaitMoves, SendQueued, ReceiveQueued
<1>7. Sees(t, "out", "send_test")
  BY <1>5 DEF Sees, SendStep
<1>8. RingMoves(t, "out", "send_test")
  BY <1>1 DEF RingMoves, ringVars
<1> QED BY <1>1, <1>3, <1>4, <1>5, <1>6, <1>7, <1>8 DEF Quiet, Step

LEMMA IdleYieldIsQuiet ==
  ASSUME QueueInd, IdleYield, use' = use
  PROVE  Quiet(IdleTask, "out", "out")
<1>1. /\ AtStep(IdleTask, "out") /\ task_yield /\ pc' = pc
      /\ UNCHANGED <<ringVars, waitVars, localVars>>
  BY DEF IdleYield, idle_yield
<1>2. IdleTask \in Task
  BY IdleIsTask
<1>3. /\ task_suspended_count = IF "out" \in Window THEN 1 ELSE 0
      /\ Caller(IdleTask, "out") /\ pendsv = FALSE /\ LocalTypes /\ receive_count \in Nat
      /\ pc[IdleTask] = "out" /\ pc \in [Task -> Step]
  BY <1>1, <1>2, Here
<1>4. Goto(IdleTask, "out")
  BY <1>1, <1>2, <1>3 DEF Goto
<1>5. KernelMoves("out", "out") /\ UNCHANGED <<to_send, to_receive>>
  BY <1>1, <1>3 DEF task_yield, UnchangedLists, waitVars, KernelMoves, Window, Away
<1>6. LocalTypes'
  BY <1>1, <1>3 DEF LocalTypes, ringVars, localVars
<1>7. CountMoves("out", "out") /\ WaitMoves("out", "out")
  BY <1>1, <1>3 DEF waitVars, CountMoves, CountedStep, WaitMoves
<1>8. Sees(IdleTask, "out", "out") /\ RingMoves(IdleTask, "out", "out")
  BY <1>1 DEF Sees, SendStep, RingMoves, ringVars, localVars
<1> QED BY <1>1, <1>3, <1>4, <1>5, <1>6, <1>7, <1>8 DEF Quiet, Step

-----------------------------------------------------------------------------
(* The steps that move tasks *)

\* What such a step leaves to show, when it is a step of the task t that runs.
LEMMA MoveTypes ==
  ASSUME QueueInd, NEW t \in Task, NEW from, NEW to, AtStep(t, from), Goto(t, to),
         to \in Step, Caller(t, to), from \in Window <=> to \in Window,
         from \in CountedStep <=> to \in CountedStep,
         UNCHANGED <<kernel_ticks, kernel_current_task, attr, ready_switch_next,
                     task_suspended_count, pendsv, use, receive_count>>,
         to_send' \in Seq(Task), to_receive' \in Seq(Task), LocalTypes'
  PROVE  /\ QueueTypes' /\ Windows' /\ Counted' /\ \A u \in Task : Caller(u, pc[u])'
         /\ pc'[t] = to /\ \A u \in Task : u # t => pc'[u] = pc[u]
<1>1. /\ t = kernel_current_task /\ pc[t] = from /\ pc \in [Task -> Step]
  BY Here
<1>2. /\ pc' \in [Task -> Step] /\ pc'[t] = to
      /\ \A u \in Task : u # t => pc'[u] = pc[u]
  BY <1>1, Goes
<1>3. QueueTypes'
  BY <1>2 DEF QueueInd, QueueTypes, AttrOf
<1>4. Windows'
  BY <1>1, <1>2 DEF QueueInd, Windows
<1>5. ASSUME NEW u \in Task PROVE Caller(u, pc[u])'
  <2>1. Caller(u, pc'[u])
    BY <1>1, <1>2 DEF QueueInd, Callers
  <2> QED BY <2>1 DEF Caller, User
<1>6. Counted'
  <2>1. \A u \in Task : pc'[u] \in CountedStep <=> pc[u] \in CountedStep
    BY <1>1, <1>2
  <2>2. CountedOf(pc') = CountedOf(pc)
    BY <2>1 DEF CountedOf
  <2> QED BY <2>2 DEF QueueInd, Counted
<1> QED BY <1>2, <1>3, <1>4, <1>5, <1>6

\* The front task is pushed onto the first of two lists.
LEMMA PushLists ==
  ASSUME NEW u \in Seq(Task), NEW v \in Seq(Task),
         Lists(ready, blocked_curr, blocked_next, attr, u \o v),
         NEW t \in User, AtFront(ready, attr, t),
         NEW s, s = tasklist_remove_front(ready, attr[t].priority)
  PROVE  /\ Lists(s, blocked_curr, blocked_next, attr, (<<t>> \o u) \o v)
         /\ StayReady(ready, s, {t})
<1>1. t \in Task
  BY DEF User
<1>2. PICK w \in Seq(Task) : w = u \o v
  BY ConcatProperties
<1>3. PICK new \in Seq(Task) : new = <<t>> \o w /\ IsInsert(new, w, 1, t)
  BY <1>1, PushInserts
<1>4. new = (<<t>> \o u) \o v
  <2>1. <<t>> \in Seq(Task)
    BY <1>1
  <2> QED BY <1>2, <1>3, <2>1, ConcatAssociative
<1>5. PICK n \in 1 .. Len(w) + 1 : n = 1
  <2>1. Len(w) \in Nat
    OBVIOUS
  <2>2. 1 \in 1 .. Len(w) + 1
    BY <2>1
  <2> QED BY <2>2
<1>6. Lists(ready, blocked_curr, blocked_next, attr, w)
  BY <1>2
<1>7. Lists(s, blocked_curr, blocked_next, attr, new) /\ StayReady(ready, s, {t})
  BY <1>3, <1>5, <1>6, WaitLists
<1> QED BY <1>4, <1>7

\* The task that runs is the one that is taken for it.
LEMMA FrontIsTaken ==
  ASSUME QueueInd, NEW t \in Task, NEW from, AtStep(t, from), from \notin Away,
         NEW list, NEW list2, ready' = tasklist_remove_front(ready, CurrentPriority),
         list2 = IF front_task = NoTask THEN list ELSE stack_list_push(list, front_task)
  PROVE  ready' = tasklist_remove_front(ready, attr[t].priority) /\ list2 = <<t>> \o list
<1>1. t = kernel_current_task /\ AtFront(ready, attr, t)
  BY RunsAtFront
<1>2. front_task = t
  BY <1>1 DEF front_task, tasklist_get_front_task, AtFront, CurrentPriority
<1> QED BY <1>1, <1>2, NoTaskAssumption DEF stack_list_push, CurrentPriority

\* A sender pushes itself.
LEMMA SendBlockMoves ==
  ASSUME QueueInd, NEW t \in Task, SendBlock(t), use' = use
  PROVE  /\ Lists(ready', blocked_curr', blocked_next', attr', Waiting')
         /\ StayReady(ready, ready', {t})
         /\ to_send' \in Seq(Task) /\ Range(to_send') = Range(to_send) \union {t}
         /\ to_receive' = to_receive
         /\ t = kernel_current_task /\ pc[t] = "send_block"
<1>1. /\ AtStep(t, "send_block") /\ wait_front(to_send, stack_list_push(to_send, front_task))
      /\ to_receive' = to_receive
  BY DEF SendBlock
<1>2. t = kernel_current_task /\ AtFront(ready, attr, t) /\ pc[t] = "send_block"
  BY <1>1, RunsAtFront, Here DEF Away
<1>3. ready' = tasklist_remove_front(ready, attr[t].priority) /\ to_send' = <<t>> \o to_send
  <2>1. /\ ready' = tasklist_remove_front(ready, CurrentPriority)
        /\ to_send' = IF front_task = NoTask THEN to_send ELSE stack_list_push(to_send, front_task)
    BY <1>1 DEF wait_front
  <2>2. PICK x : x = to_send'
    OBVIOUS
  <2>3. x = IF front_task = NoTask THEN to_send ELSE stack_list_push(to_send, front_task)
    BY <2>1, <2>2
  <2>4. "send_block" \notin Away
    BY DEF Away
  <2> QED BY <1>1, <2>1, <2>2, <2>3, <2>4, FrontIsTaken
<1>4. UNCHANGED <<attr, blocked_curr, blocked_next>>
  BY <1>1 DEF wait_front, UnchangedScheduler
<1>5. t \in User /\ to_send \in Seq(Task) /\ to_receive \in Seq(Task)
  <2>1. Caller(t, "send_block")
    BY <1>1, Here
  <2> QED BY <2>1, WaitingTasks DEF Caller
<1>6. <<t>> \o to_send \in Seq(Task) /\ Range(<<t>> \o to_send) = Range(to_send) \union {t}
  BY <1>5, PushInserts, PushRange
<1>7. PICK s : s = ready'
  OBVIOUS
<1>8. /\ Lists(s, blocked_curr, blocked_next, attr, (<<t>> \o to_send) \o to_receive)
      /\ StayReady(ready, s, {t})
  <2>1. Lists(ready, blocked_curr, blocked_next, attr, to_send \o to_receive)
    BY DEF QueueInd, Waiting
  <2>2. s = tasklist_remove_front(ready, attr[t].priority)
    BY <1>3, <1>7
  <2>3. /\ Lists(s, blocked_curr, blocked_next, attr, (<<t>> \o to_send) \o to_receive)
        /\ StayReady(ready, s, {t})
    BY <1>2, <1>5, <2>1, <2>2, PushLists
  <2> QED BY <2>3
<1>9. Waiting' = (<<t>> \o to_send) \o to_receive
  BY <1>1, <1>3 DEF Waiting
<1> QED BY <1>1, <1>2, <1>3, <1>4, <1>6, <1>7, <1>8, <1>9

\* And a receiver itself.
LEMMA ReceiveBlockMoves ==
  ASSUME QueueInd, NEW t \in Task, ReceiveBlock(t), use' = use
  PROVE  /\ Lists(ready', blocked_curr', blocked_next', attr', Waiting')
         /\ StayReady(ready, ready', {t})
         /\ to_receive' \in Seq(Task) /\ Range(to_receive') = Range(to_receive) \union {t}
         /\ to_send' = to_send
         /\ t = kernel_current_task /\ pc[t] = "recv_block"
<1>1. /\ AtStep(t, "recv_block")
      /\ wait_front(to_receive, stack_list_push(to_receive, front_task)) /\ to_send' = to_send
  BY DEF ReceiveBlock
<1>2. t = kernel_current_task /\ AtFront(ready, attr, t) /\ pc[t] = "recv_block"
  BY <1>1, RunsAtFront, Here DEF Away
<1>3. ready' = tasklist_remove_front(ready, attr[t].priority) /\ to_receive' = <<t>> \o to_receive
  <2>1. /\ ready' = tasklist_remove_front(ready, CurrentPriority)
        /\ to_receive' = IF front_task = NoTask THEN to_receive
                         ELSE stack_list_push(to_receive, front_task)
    BY <1>1 DEF wait_front
  <2>2. PICK x : x = to_receive'
    OBVIOUS
  <2>3. x = IF front_task = NoTask THEN to_receive ELSE stack_list_push(to_receive, front_task)
    BY <2>1, <2>2
  <2>4. "recv_block" \notin Away
    BY DEF Away
  <2> QED BY <1>1, <2>1, <2>2, <2>3, <2>4, FrontIsTaken
<1>4. UNCHANGED <<attr, blocked_curr, blocked_next>>
  BY <1>1 DEF wait_front, UnchangedScheduler
<1>5. t \in User /\ to_send \in Seq(Task) /\ to_receive \in Seq(Task)
  <2>1. Caller(t, "recv_block")
    BY <1>1, Here
  <2> QED BY <2>1, WaitingTasks DEF Caller
<1>6. <<t>> \o to_receive \in Seq(Task) /\ Range(<<t>> \o to_receive) = Range(to_receive) \union {t}
  BY <1>5, PushInserts, PushRange
<1>7. PICK s : s = ready'
  OBVIOUS
<1>8. /\ Lists(s, blocked_curr, blocked_next, attr, to_send \o (<<t>> \o to_receive))
      /\ StayReady(ready, s, {t})
  <2>1. Lists(ready, blocked_curr, blocked_next, attr, to_send \o to_receive)
    BY DEF QueueInd, Waiting
  <2>2. Lists(ready, blocked_curr, blocked_next, attr, to_receive \o to_send)
    BY <1>5, <2>1, SwapWaiters
  <2>3. s = tasklist_remove_front(ready, attr[t].priority)
    BY <1>3, <1>7
  <2>4. /\ Lists(s, blocked_curr, blocked_next, attr, (<<t>> \o to_receive) \o to_send)
        /\ StayReady(ready, s, {t})
    BY <1>2, <1>5, <2>2, <2>3, PushLists
  <2>5. PICK x \in Seq(Task) : x = <<t>> \o to_receive
    BY <1>6
  <2>6. Lists(s, blocked_curr, blocked_next, attr, x \o to_send)
    BY <2>4, <2>5
  <2>7. Lists(s, blocked_curr, blocked_next, attr, to_send \o x)
    BY <1>5, <2>5, <2>6, SwapWaiters
  <2> QED BY <2>4, <2>5, <2>7
<1>9. Waiting' = to_send \o (<<t>> \o to_receive)
  BY <1>1, <1>3 DEF Waiting
<1> QED BY <1>1, <1>2, <1>3, <1>4, <1>6, <1>7, <1>8, <1>9

\* A message is sent: all the receivers that wait become ready.
LEMMA DoSendMoves ==
  ASSUME QueueInd, NEW m, msgqueue_do_send(m)
  PROVE  /\ Lists(ready', blocked_curr', blocked_next', attr', Waiting')
         /\ StayReady(ready, ready', {}) /\ StayFront(ready, ready', attr)
         /\ to_receive' = <<>> /\ to_send' = to_send
<1>1. /\ ready' = make_all_ready(ready, to_receive)
      /\ to_receive' = SubSeq(to_receive, Len(to_receive) + 1, Len(to_receive))
      /\ to_send' = to_send /\ UNCHANGED <<attr, blocked_curr, blocked_next>>
  BY DEF msgqueue_do_send, receivers_woken, UnchangedScheduler
<1>2. to_send \in Seq(Task) /\ to_receive \in Seq(Task)
  BY WaitingTasks
<1>3. to_receive' = <<>>
  <2>1. PICK n \in Nat : n = Len(to_receive)
    BY <1>2
  <2>2. n + 1 \in Int /\ n \in Int /\ n < n + 1
    OBVIOUS
  <2> QED BY <1>1, <2>1, <2>2, SubSeqEmpty
<1>4. PICK s : s = ready'
  OBVIOUS
<1>5. /\ Lists(s, blocked_curr, blocked_next, attr, to_send)
      /\ StayReady(ready, s, {}) /\ StayFront(ready, s, attr)
  <2>1. Lists(ready, blocked_curr, blocked_next, attr, to_send \o to_receive)
    BY DEF QueueInd, Waiting
  <2>2. Lists(ready, blocked_curr, blocked_next, attr, to_receive \o to_send)
    BY <1>2, <2>1, SwapWaiters
  <2>3. s = appended_lists(ready, to_receive, attr)[Len(to_receive)]
    BY <1>1, <1>4 DEF make_all_ready
  <2> QED BY <1>2, <2>2, <2>3, WakeFirstLists
<1>6. Waiting' = to_send
  BY <1>1, <1>2, <1>3, ConcatEmptySeq DEF Waiting
<1> QED BY <1>1, <1>3, <1>4, <1>5, <1>6

\* A receiver has made room: the sender that is first becomes ready.
LEMMA ReceiveWakeMoves ==
  ASSUME QueueInd, NEW t \in Task, ReceiveWake(t), use' = use
  PROVE  /\ Lists(ready', blocked_curr', blocked_next', attr', Waiting')
         /\ StayReady(ready, ready', {}) /\ StayFront(ready, ready', attr)
         /\ to_receive' = to_receive /\ to_send' \in Seq(Task)
         /\ to_send' = IF to_send = <<>> THEN <<>> ELSE Tail(to_send)
         /\ Range(to_send') \subseteq Range(to_send)
<1>1. /\ IF to_send # <<>>
           THEN ready' = make_ready(ready, Head(to_send)) /\ to_send' = Tail(to_send)
           ELSE UNCHANGED <<ready, to_send>>
      /\ to_receive' = to_receive /\ UNCHANGED <<attr, blocked_curr, blocked_next>>
  BY DEF ReceiveWake, sender_woken, UnchangedScheduler
<1>2. to_send \in Seq(Task) /\ to_receive \in Seq(Task)
  BY WaitingTasks
<1>3. Lists(ready, blocked_curr, blocked_next, attr, Waiting)
  BY DEF QueueInd
<1>4. CASE to_send = <<>>
  <2>1. UNCHANGED <<ready, to_send>> /\ Waiting' = Waiting
    BY <1>1, <1>4 DEF Waiting
  <2>2. StayReady(ready, ready', {}) /\ StayFront(ready, ready', attr)
    BY <2>1 DEF StayReady, StayFront
  <2>3. Lists(ready', blocked_curr', blocked_next', attr', Waiting')
    BY <1>1, <1>3, <2>1
  <2> QED BY <1>1, <1>2, <1>4, <2>1, <2>2, <2>3
<1>5. CASE to_send # <<>>
  <2>1. PICK w : w = Waiting
    OBVIOUS
  <2>2. /\ w # <<>> /\ Head(w) = Head(to_send) /\ Tail(w) = Tail(to_send) \o to_receive
    BY <1>2, <1>5, <2>1, ConcatFront DEF Waiting
  <2>3. PICK s : s = ready'
    OBVIOUS
  <2>4. s = tasklist_append(ready, attr[Head(w)].priority, Head(w))
    BY <1>1, <1>5, <2>2, <2>3 DEF make_ready
  <2>5. /\ Lists(s, blocked_curr, blocked_next, attr, Tail(w))
        /\ StayReady(ready, s, {}) /\ StayFront(ready, s, attr)
    BY <1>3, <2>1, <2>2, <2>4, WakeLists
  <2>6. Waiting' = Tail(w)
    BY <1>1, <1>5, <2>2 DEF Waiting
  <2>7. Tail(to_send) \in Seq(Task) /\ Range(Tail(to_send)) \subseteq Range(to_send)
    BY <1>2, <1>5, InRange, TailRangeOf
  <2> QED BY <1>1, <1>5, <2>3, <2>5, <2>6, <2>7
<1> QED BY <1>4, <1>5

LEMMA SleepMoves ==
  ASSUME QueueInd, NEW t \in Task, Sleep(t), use' = use
  PROVE  /\ Lists(ready', blocked_curr', blocked_next', attr', Waiting')
         /\ StayReady(ready, ready', {t})
         /\ t = kernel_current_task /\ pc[t] = "out" /\ t \in User
<1>1. /\ AtStep(t, "out") /\ t \in use.sleepers /\ sleep_front(kernel_ticks)
      /\ UNCHANGED <<attr, to_send, to_receive>>
  BY DEF Sleep, sleep_one_tick, waitVars
<1>2. t = kernel_current_task /\ AtFront(ready, attr, t) /\ pc[t] = "out"
  BY <1>1, RunsAtFront, Here DEF Away
<1>3. t \in User /\ kernel_ticks \in Tick
  BY <1>1, UseFacts DEF QueueInd, QueueTypes
<1>4. PICK w : w = Waiting /\ Lists(ready, blocked_curr, blocked_next, attr, w)
  BY DEF QueueInd
<1>5. /\ Lists(ready', blocked_curr', blocked_next', attr, w)
      /\ StayReady(ready, ready', {kernel_current_task})
  BY <1>1, <1>2, <1>3, <1>4, SleepLists
<1>6. Waiting' = w
  BY <1>1, <1>4 DEF Waiting
<1> QED BY <1>1, <1>2, <1>3, <1>5, <1>6

-----------------------------------------------------------------------------
(* The invariant is kept by the steps that move tasks *)

LEMMA MoveKeeps ==
  ASSUME QueueInd, NEW t \in Task, NEW from, NEW to, AtStep(t, from), Goto(t, to),
         to \in Step, Caller(t, to), from \in Window <=> to \in Window,
         from \in CountedStep <=> to \in CountedStep, from \notin Away,
         UNCHANGED <<kernel_ticks, kernel_current_task, attr, ready_switch_next,
                     task_suspended_count, pendsv, use, receive_count>>,
         to_send' \in Seq(Task), to_receive' \in Seq(Task), LocalTypes',
         Lists(ready', blocked_curr', blocked_next', attr', Waiting'),
         to \in Away \/ StayFront(ready, ready', attr),
         \A u \in Range(to_send') : u \in Range(to_send) \/ (u = t /\ to \in SendQueued),
         \A u \in Range(to_receive') : u \in Range(to_receive) \/ (u = t /\ to \in ReceiveQueued)
  PROVE  QueueInd'
<1>1. /\ QueueTypes' /\ Windows' /\ Counted' /\ \A u \in Task : Caller(u, pc[u])'
      /\ pc'[t] = to /\ \A u \in Task : u # t => pc'[u] = pc[u]
  BY MoveTypes
<1>2. /\ t = kernel_current_task /\ AtFront(ready, attr, t)
      /\ t \notin Range(to_send) /\ t \notin Range(to_receive)
  BY RunsAtFront
<1>3. FrontRuns'
  <2>1. CASE to \in Away
    BY <1>1, <1>2, <2>1 DEF FrontRuns
  <2>2. CASE StayFront(ready, ready', attr)
    <3>1. AtFront(ready', attr, t)
      BY <1>2, <2>2 DEF StayFront
    <3>2. AtFront(ready', attr', kernel_current_task')
      BY <1>2, <3>1
    <3> QED BY <3>2 DEF FrontRuns
  <2> QED BY <2>1, <2>2
<1>4. ASSUME NEW u \in Range(to_send') PROVE pc'[u] \in SendQueued
  <2>1. CASE u \in Range(to_send)
    <3>1. u \in Task /\ u # t /\ pc[u] \in SendQueued
      BY <1>2, <2>1, WaitingTasks DEF QueueInd, Callers
    <3> QED BY <1>1, <3>1
  <2>2. CASE u = t /\ to \in SendQueued
    BY <1>1, <2>2
  <2> QED BY <2>1, <2>2
<1>5. ASSUME NEW u \in Range(to_receive') PROVE pc'[u] \in ReceiveQueued
  <2>1. CASE u \in Range(to_receive)
    <3>1. u \in Task /\ u # t /\ pc[u] \in ReceiveQueued
      BY <1>2, <2>1, WaitingTasks DEF QueueInd, Callers
    <3> QED BY <1>1, <3>1
  <2>2. CASE u = t /\ to \in ReceiveQueued
    BY <1>1, <2>2
  <2> QED BY <2>1, <2>2
<1>6. Callers'
  BY <1>1, <1>4, <1>5 DEF Callers
<1>7. Lists(ready, blocked_curr, blocked_next, attr, Waiting)'
  OBVIOUS
<1> QED BY <1>1, <1>3, <1>6, <1>7 DEF QueueInd

LEMMA SendBlockKeeps ==
  ASSUME QueueInd, NEW t \in Task, SendBlock(t), use' = use
  PROVE  QueueInd'
<1>1. /\ AtStep(t, "send_block") /\ Goto(t, "send_resume")
      /\ UNCHANGED <<kernel_ticks, kernel_current_task, attr, ready_switch_next,
                     task_suspended_count, pendsv, use, receive_count, ringVars, localVars>>
  BY DEF SendBlock, wait_front, UnchangedScheduler
<1>2. /\ Lists(ready', blocked_curr', blocked_next', attr', Waiting')
      /\ to_send' \in Seq(Task) /\ Range(to_send') = Range(to_send) \union {t}
      /\ to_receive' = to_receive
  BY SendBlockMoves
<1>3. Caller(t, "send_resume")
  <2>1. Caller(t, "send_block")
    BY <1>1, Here
  <2> QED BY <2>1 DEF Caller, SendStep, WaitStep, TryStep, ReadStep
<1>4. LocalTypes' /\ to_receive' \in Seq(Task)
  BY <1>1, <1>2 DEF QueueInd, QueueTypes, LocalTypes, ringVars, localVars
<1>5. /\ "send_resume" \in Step
      /\ "send_block" \in Window <=> "send_resume" \in Window
      /\ "send_block" \in CountedStep <=> "send_resume" \in CountedStep
      /\ "send_block" \notin Away
      /\ "send_resume" \in Away
      /\ "send_resume" \in SendQueued
  BY DEF Step, Window, CountedStep, Away, SendQueued
<1>6. /\ \A u \in Range(to_send') : u \in Range(to_send) \/ (u = t /\ "send_resume" \in SendQueued)
      /\ \A u \in Range(to_receive') : u \in Range(to_receive)
  BY <1>2, <1>5
<1> QED BY <1>1, <1>2, <1>3, <1>4, <1>5, <1>6, MoveKeeps

LEMMA ReceiveBlockKeeps ==
  ASSUME QueueInd, NEW t \in Task, ReceiveBlock(t), use' = use
  PROVE  QueueInd'
<1>1. /\ AtStep(t, "recv_block") /\ Goto(t, "recv_wait_resume")
      /\ UNCHANGED <<kernel_ticks, kernel_current_task, attr, ready_switch_next,
                     task_suspended_count, pendsv, use, receive_count, ringVars, localVars>>
  BY DEF ReceiveBlock, wait_front, UnchangedScheduler
<1>2. /\ Lists(ready', blocked_curr', blocked_next', attr', Waiting')
      /\ to_receive' \in Seq(Task) /\ Range(to_receive') = Range(to_receive) \union {t}
      /\ to_send' = to_send
  BY ReceiveBlockMoves
<1>3. Caller(t, "recv_wait_resume")
  <2>1. Caller(t, "recv_block")
    BY <1>1, Here
  <2> QED BY <2>1 DEF Caller, SendStep, WaitStep, TryStep, ReadStep
<1>4. LocalTypes' /\ to_send' \in Seq(Task)
  BY <1>1, <1>2 DEF QueueInd, QueueTypes, LocalTypes, ringVars, localVars
<1>5. /\ "recv_wait_resume" \in Step
      /\ "recv_block" \in Window <=> "recv_wait_resume" \in Window
      /\ "recv_block" \in CountedStep <=> "recv_wait_resume" \in CountedStep
      /\ "recv_block" \notin Away
      /\ "recv_wait_resume" \in Away
      /\ "recv_wait_resume" \in ReceiveQueued
  BY DEF Step, Window, CountedStep, Away, ReceiveQueued
<1>6. /\ \A u \in Range(to_receive') :
           u \in Range(to_receive) \/ (u = t /\ "recv_wait_resume" \in ReceiveQueued)
      /\ \A u \in Range(to_send') : u \in Range(to_send)
  BY <1>2, <1>5
<1> QED BY <1>1, <1>2, <1>3, <1>4, <1>5, <1>6, MoveKeeps

\* The ring with one message more.
LEMMA DoSendTypes ==
  ASSUME QueueInd, NEW m \in Msg \union {NoMsg}, msgqueue_do_send(m)
  PROVE  /\ buffer' \in [Slot -> Msg \union {NoMsg}]
         /\ queue_head' \in Slot /\ queue_tail' \in Slot /\ queue_count' \in Count
<1>1. /\ buffer \in [Slot -> Msg \union {NoMsg}]
      /\ queue_head \in Slot /\ queue_tail \in Slot /\ queue_count \in Count
  BY DEF QueueInd, QueueTypes, LocalTypes
<1>2. queue_tail + 1 \in Int /\ queue_count + 1 \in Int
  BY <1>1 DEF Slot, Count
<1>3. (queue_tail + 1) % buffer_size \in Slot /\ (queue_count + 1) % SizeMod \in Count
  BY <1>2, LocalFacts
<1> QED BY <1>1, <1>3 DEF msgqueue_do_send

LEMMA SendDoKeeps ==
  ASSUME QueueInd, NEW t \in Task, SendDo(t), use' = use
  PROVE  QueueInd'
<1>1. /\ AtStep(t, "send_do") /\ Goto(t, "out") /\ msgqueue_do_send(message[t])
      /\ message' = [message EXCEPT ![t] = NoMsg]
      /\ UNCHANGED <<kernel_ticks, kernel_current_task, attr, ready_switch_next,
                     task_suspended_count, pendsv, use, receive_count,
                     data, loaded, timeout, current_tick>>
  BY DEF SendDo, msgqueue_do_send, UnchangedScheduler
<1>2. /\ Lists(ready', blocked_curr', blocked_next', attr', Waiting')
      /\ StayFront(ready, ready', attr)
      /\ to_receive' = <<>> /\ to_send' = to_send
  BY <1>1, DoSendMoves
<1>3. t \in User /\ Caller(t, "out") /\ LocalTypes /\ to_send \in Seq(Task)
  <2>1. Caller(t, "send_do") /\ LocalTypes
    BY <1>1, Here
  <2> QED BY <2>1, WaitingTasks DEF Caller, SendStep, WaitStep, TryStep, ReadStep
<1>4. LocalTypes'
  <2>1. message[t] \in Msg \union {NoMsg}
    BY <1>3 DEF LocalTypes
  <2>2. /\ buffer' \in [Slot -> Msg \union {NoMsg}]
        /\ queue_head' \in Slot /\ queue_tail' \in Slot /\ queue_count' \in Count
    BY <1>1, <2>1, DoSendTypes
  <2>3. message' \in [User -> Msg \union {NoMsg}]
    BY <1>1, <1>3 DEF LocalTypes
  <2> QED BY <1>1, <1>3, <2>2, <2>3 DEF LocalTypes
<1>5. /\ "out" \in Step
      /\ "send_do" \in Window <=> "out" \in Window
      /\ "send_do" \in CountedStep <=> "out" \in CountedStep
      /\ "send_do" \notin Away
  BY DEF Step, Window, CountedStep, Away
<1>6. to_receive' \in Seq(Task) /\ \A u \in Range(to_receive') : FALSE
  BY <1>2 DEF Range
<1> QED BY <1>1, <1>2, <1>3, <1>4, <1>5, <1>6, MoveKeeps

LEMMA ReceiveWakeKeeps ==
  ASSUME QueueInd, NEW t \in Task, ReceiveWake(t), use' = use
  PROVE  QueueInd'
<1>1. /\ AtStep(t, "recv_wake") /\ Goto(t, "recv_resume")
      /\ UNCHANGED <<kernel_ticks, kernel_current_task, attr, ready_switch_next,
                     task_suspended_count, pendsv, use, receive_count, ringVars, localVars>>
  BY DEF ReceiveWake, UnchangedScheduler
<1>2. /\ Lists(ready', blocked_curr', blocked_next', attr', Waiting')
      /\ StayFront(ready, ready', attr)
      /\ to_receive' = to_receive /\ to_send' \in Seq(Task)
      /\ Range(to_send') \subseteq Range(to_send)
  BY ReceiveWakeMoves
<1>3. Caller(t, "recv_resume")
  <2>1. Caller(t, "recv_wake")
    BY <1>1, Here
  <2> QED BY <2>1 DEF Caller, SendStep, WaitStep, TryStep, ReadStep
<1>4. LocalTypes' /\ to_receive' \in Seq(Task)
  BY <1>1, <1>2 DEF QueueInd, QueueTypes, LocalTypes, ringVars, localVars
<1>5. /\ "recv_resume" \in Step
      /\ "recv_wake" \in Window <=> "recv_resume" \in Window
      /\ "recv_wake" \in CountedStep <=> "recv_resume" \in CountedStep
      /\ "recv_wake" \notin Away
  BY DEF Step, Window, CountedStep, Away
<1>6. /\ \A u \in Range(to_receive') : u \in Range(to_receive)
      /\ \A u \in Range(to_send') : u \in Range(to_send)
  BY <1>2
<1> QED BY <1>1, <1>2, <1>3, <1>4, <1>5, <1>6, MoveKeeps

LEMMA SleepKeeps ==
  ASSUME QueueInd, NEW t \in Task, Sleep(t), use' = use
  PROVE  QueueInd'
<1>1. /\ AtStep(t, "out") /\ Goto(t, "sleep_yield")
      /\ UNCHANGED <<kernel_ticks, kernel_current_task, attr, ready_switch_next,
                     task_suspended_count, pendsv, use, ringVars, waitVars, localVars>>
  BY DEF Sleep, sleep_one_tick
<1>2. Lists(ready', blocked_curr', blocked_next', attr', Waiting') /\ t \in User
  BY SleepMoves
<1>3. Caller(t, "sleep_yield")
  BY <1>2 DEF Caller, SendStep, WaitStep, TryStep, ReadStep
<1>4. /\ LocalTypes' /\ to_send' = to_send /\ to_receive' = to_receive
      /\ receive_count' = receive_count
  BY <1>1 DEF QueueInd, QueueTypes, LocalTypes, ringVars, localVars, waitVars
<1>5. /\ "sleep_yield" \in Step
      /\ "out" \in Window <=> "sleep_yield" \in Window
      /\ "out" \in CountedStep <=> "sleep_yield" \in CountedStep
      /\ "out" \notin Away
      /\ "sleep_yield" \in Away
  BY DEF Step, Window, CountedStep, Away
<1>6. to_send' \in Seq(Task) /\ to_receive' \in Seq(Task)
  BY <1>4, WaitingTasks
<1> QED BY <1>1, <1>2, <1>3, <1>4, <1>5, <1>6, MoveKeeps

\* A handler sends: no task goes on.
LEMMA HandlerKeeps ==
  ASSUME QueueInd, NEW m \in Msg, msgqueue_send_from_isr(m), use' = use
  PROVE  QueueInd'
<1>1. /\ msgqueue_do_send(m)
      /\ UNCHANGED <<kernel_ticks, kernel_current_task, attr, ready_switch_next,
                     task_suspended_count, pendsv, use, pc, receive_count, localVars>>
  BY DEF msgqueue_send_from_isr, msgqueue_do_send, UnchangedScheduler
<1>2. /\ Lists(ready', blocked_curr', blocked_next', attr', Waiting')
      /\ StayFront(ready, ready', attr)
      /\ to_receive' = <<>> /\ to_send' = to_send
  BY <1>1, DoSendMoves
<1>3. LocalTypes'
  <2>1. /\ buffer' \in [Slot -> Msg \union {NoMsg}]
        /\ queue_head' \in Slot /\ queue_tail' \in Slot /\ queue_count' \in Count
    BY <1>1, DoSendTypes
  <2> QED BY <1>1, <2>1 DEF QueueInd, QueueTypes, LocalTypes, localVars
<1>4. QueueTypes'
  <2>1. to_receive' \in Seq(Task)
    BY <1>2
  <2> QED BY <1>1, <1>2, <1>3, <2>1 DEF QueueInd, QueueTypes, AttrOf
<1>5. FrontRuns'
  <2>1. AtFront(ready, attr, kernel_current_task) => AtFront(ready', attr', kernel_current_task')
    BY <1>1, <1>2 DEF QueueInd, QueueTypes, StayFront
  <2> QED BY <1>1, <2>1 DEF QueueInd, FrontRuns
<1>6. Windows' /\ Counted'
  BY <1>1 DEF QueueInd, Windows, Counted
<1>7. Callers'
  <2>1. \A u \in Task : Caller(u, pc[u])'
    BY <1>1 DEF QueueInd, Callers, Caller, User
  <2>2. \A u \in Range(to_receive') : FALSE
    BY <1>2 DEF Range
  <2> QED BY <1>1, <1>2, <2>1, <2>2 DEF QueueInd, Callers
<1>8. Lists(ready, blocked_curr, blocked_next, attr, Waiting)'
  BY <1>2
<1> QED BY <1>4, <1>5, <1>6, <1>7, <1>8 DEF QueueInd

-----------------------------------------------------------------------------
(* The tick and the context switch *)

\* What neither of them touches.
LEMMA KernelStep ==
  ASSUME QueueInd, UNCHANGED <<pc, ringVars, waitVars, localVars, use, attr>>,
         kernel_ticks' \in Tick, kernel_current_task' \in Task,
         ready_switch_next' \in BOOLEAN, pendsv' \in BOOLEAN
  PROVE  QueueTypes' /\ Callers' /\ Counted' /\ Waiting' = Waiting
<1>1. QueueTypes'
  BY DEF QueueInd, QueueTypes, AttrOf, LocalTypes, ringVars, waitVars, localVars
<1>2. Callers'
  BY DEF QueueInd, Callers, Caller, User, waitVars
<1>3. Counted' /\ Waiting' = Waiting
  BY DEF QueueInd, Counted, Waiting, waitVars
<1> QED BY <1>1, <1>2, <1>3

\* The tick makes a task ready, and asks for no switch in a window.
LEMMA TickMoves ==
  ASSUME QueueInd, TickInterrupt, use' = use
  PROVE  /\ QueueInd' /\ StayReady(ready, ready', {})
         /\ UNCHANGED <<kernel_current_task, pc, attr, ringVars, waitVars, localVars>>
<1>1. /\ SysTick /\ UNCHANGED <<pc, ringVars, waitVars, localVars>>
      /\ kernel_current_task' = kernel_current_task /\ attr' = attr
      /\ task_suspended_count' = task_suspended_count
  BY DEF TickInterrupt, tick_interrupt, SysTick
<1>2. kernel_ticks' \in Tick
  <2>1. kernel_ticks + 1 \in Int
    BY DEF QueueInd, QueueTypes, Tick
  <2>2. next_tick \in Tick
    BY <2>1, ModTick DEF next_tick
  <2> QED BY <1>1, <2>2 DEF SysTick
<1>3. pendsv' \in BOOLEAN /\ ready_switch_next' \in BOOLEAN
  <2>1. pendsv' = (pendsv \/ need_switch)
    BY <1>1 DEF SysTick
  <2>2. ready_switch_next' = ((ready_switch_next \/ next_tick = 0) /\ ~switch_cycle)
    BY <1>1 DEF SysTick
  <2>3. pendsv' \in BOOLEAN
    BY <2>1, Zenon
  <2>4. ready_switch_next' \in BOOLEAN
    BY <2>2, Zenon
  <2> QED BY <2>3, <2>4
<1>4. kernel_current_task \in Task
  BY DEF QueueInd, QueueTypes
<1>5. QueueTypes' /\ Callers' /\ Counted' /\ Waiting' = Waiting
  BY <1>1, <1>2, <1>3, <1>4, KernelStep
<1>6. PICK w : w = Waiting
  OBVIOUS
<1>7. /\ Lists(ready', blocked_curr', blocked_next', attr', w)
      /\ StayReady(ready, ready', {})
      /\ StayFront(ready, ready', attr)
  <2>1. Lists(ready, blocked_curr, blocked_next, attr, w)
    BY <1>6 DEF QueueInd
  <2> QED BY <1>1, <1>4, <2>1, TickLists
<1>8. Lists(ready, blocked_curr, blocked_next, attr, Waiting)'
  BY <1>5, <1>6, <1>7
<1>9. FrontRuns'
  <2>1. pendsv => pendsv'
    BY <1>1 DEF SysTick
  <2>2. AtFront(ready, attr, kernel_current_task) => AtFront(ready', attr', kernel_current_task')
    BY <1>1, <1>4, <1>7 DEF StayFront
  <2> QED BY <1>1, <2>1, <2>2 DEF QueueInd, FrontRuns
<1>10. Windows'
  <2>1. pendsv' = TRUE => pendsv \/ task_suspended_count = 0
    BY <1>1 DEF SysTick, need_switch
  <2> QED BY <1>1, <1>3, <2>1 DEF QueueInd, Windows
<1> QED BY <1>1, <1>5, <1>7, <1>8, <1>9, <1>10 DEF QueueInd

\* The context switch starts the front task of the highest list.
LEMMA SwitchMoves ==
  ASSUME QueueInd, ContextSwitch, use' = use
  PROVE  /\ QueueInd' /\ StayReady(ready, ready', {})
         /\ \A p \in Priority : ready'.list[p] # <<>> => p <= attr'[kernel_current_task'].priority
         /\ \A t \in Task : pc[t] \notin Window
         /\ UNCHANGED <<pc, attr, ringVars, waitVars, localVars>>
<1>1. /\ PendSV /\ pendsv /\ pendsv' = FALSE /\ UNCHANGED <<pc, ringVars, waitVars, localVars>>
      /\ kernel_ticks' = kernel_ticks /\ attr' = attr
      /\ ready_switch_next' = ready_switch_next
      /\ task_suspended_count' = task_suspended_count
  BY DEF ContextSwitch, context_switch, PendSV
<1>2. PICK w : w = Waiting
  OBVIOUS
<1>3. /\ Lists(ready', blocked_curr', blocked_next', attr', w)
      /\ StayReady(ready, ready', {})
      /\ kernel_current_task' \in Task /\ AtFront(ready', attr', kernel_current_task')
      /\ \A p \in Priority : ready'.list[p] # <<>> => p <= attr'[kernel_current_task'].priority
  <2>1. Lists(ready, blocked_curr, blocked_next, attr, w) /\ kernel_current_task \in Task
    BY <1>2 DEF QueueInd, QueueTypes
  <2> QED BY <1>1, <2>1, SwitchLists
<1>4. QueueTypes' /\ Callers' /\ Counted' /\ Waiting' = Waiting
  <2>1. kernel_ticks' \in Tick /\ ready_switch_next' \in BOOLEAN /\ pendsv' \in BOOLEAN
    BY <1>1 DEF QueueInd, QueueTypes
  <2> QED BY <1>1, <1>3, <2>1, KernelStep
<1>5. Lists(ready, blocked_curr, blocked_next, attr, Waiting)'
  BY <1>2, <1>3, <1>4
<1>6. FrontRuns'
  BY <1>3 DEF FrontRuns
<1>7. \A t \in Task : pc[t] \notin Window
  BY <1>1 DEF QueueInd, Windows
<1>8. Windows'
  <2>1. task_suspended_count = 0
    BY <1>7 DEF QueueInd, QueueTypes, Windows
  <2> QED BY <1>1, <1>3, <1>7, <2>1 DEF Windows
<1> QED BY <1>1, <1>3, <1>4, <1>5, <1>6, <1>7, <1>8 DEF QueueInd

-----------------------------------------------------------------------------
(* The invariant *)

\* A step of Next: quiet, or one of those that move tasks.
LEMMA QueueSteps ==
  ASSUME QueueInd, Next
  PROVE  /\ use' = use
         /\ \/ TickInterrupt \/ ContextSwitch
            \/ \E m \in Msg : msgqueue_send_from_isr(m)
            \/ \E t \in Task : \/ Sleep(t) \/ SendBlock(t) \/ SendDo(t)
                               \/ ReceiveBlock(t) \/ ReceiveWake(t)
            \/ \E t \in Task, from, to \in Step : Quiet(t, from, to)
<1>1. use' = use
  BY DEF Next
<1>2. CASE IdleYield
  <2>1. IdleTask \in Task /\ Quiet(IdleTask, "out", "out")
    BY <1>1, <1>2, IdleIsTask, IdleYieldIsQuiet
  <2> QED BY <1>1, <2>1 DEF Step
<1>3. ASSUME NEW t \in Task, Send(t) \/ SleepYield(t)
      PROVE  SendBlock(t) \/ SendDo(t) \/ \E from, to \in Step : Quiet(t, from, to)
  <2>1. ASSUME NEW m \in Msg, CallSend(t, m) PROVE \E from, to \in Step : Quiet(t, from, to)
    <3>1. Quiet(t, "out", "send_test")
      BY <1>1, <2>1, CallSendIsQuiet
    <3> QED BY <3>1 DEF Step
  <2>2. CASE SendTest(t)
    BY <1>1, <2>2, SendTestIsQuiet
  <2>3. CASE SendSuspend(t) \/ SendResume(t) \/ SendYield(t) \/ SleepYield(t)
    <3>1. \/ Quiet(t, "send_suspend", "send_block") \/ Quiet(t, "send_resume", "send_yield")
          \/ Quiet(t, "send_yield", "send_test") \/ Quiet(t, "sleep_yield", "out")
      BY <1>1, <2>3, SendSuspendIsQuiet, SendResumeIsQuiet, SendYieldIsQuiet, SleepYieldIsQuiet
    <3> QED BY <3>1 DEF Step
  <2> QED BY <1>3, <2>1, <2>2, <2>3 DEF Send
<1>4. ASSUME NEW t \in Task, Receive(t)
      PROVE  ReceiveBlock(t) \/ ReceiveWake(t) \/ \E from, to \in Step : Quiet(t, from, to)
  <2>1. CASE CallReceive(t) \/ CallTryReceive(t) \/ TryYield(t) \/ TryGiveUp(t)
    <3>1. \/ Quiet(t, "out", "recv_count") \/ Quiet(t, "out", "try_count")
          \/ Quiet(t, "try_yield", "try_test") \/ Quiet(t, "try_giveup", "out")
      BY <1>1, <2>1, CallReceiveIsQuiet, CallTryReceiveIsQuiet, TryYieldIsQuiet, TryGiveUpIsQuiet
    <3> QED BY <3>1 DEF Step
  <2>2. CASE ReceiveCount(t) \/ ReceiveTest(t) \/ TryTime(t) \/ ReceiveRead(t) \/ ReceiveMore(t)
    BY <1>1, <2>2, ReceiveCountIsQuiet, ReceiveTestIsQuiet, TryTimeIsQuiet, ReceiveReadIsQuiet,
       ReceiveMoreIsQuiet
  <2>3. CASE ReceiveWait(t) \/ ReceiveWaitResume(t) \/ ReceiveWaitYield(t) \/ ReceiveSuspend(t)
    <3>1. \/ Quiet(t, "recv_wait", "recv_block")
          \/ Quiet(t, "recv_wait_resume", "recv_wait_yield")
          \/ Quiet(t, "recv_wait_yield", "recv_test") \/ Quiet(t, "recv_suspend", "recv_uncount")
      BY <1>1, <2>3, ReceiveWaitIsQuiet, ReceiveWaitResumeIsQuiet, ReceiveWaitYieldIsQuiet,
         ReceiveSuspendIsQuiet
    <3> QED BY <3>1 DEF Step
  <2>4. CASE ReceiveUncount(t) \/ ReceiveLoad(t) \/ ReceiveStore(t)
    <3>1. \/ Quiet(t, "recv_uncount", "recv_read") \/ Quiet(t, "recv_load", "recv_store")
          \/ Quiet(t, "recv_store", "recv_wake")
      BY <1>1, <2>4, ReceiveUncountIsQuiet, ReceiveLoadIsQuiet, ReceiveStoreIsQuiet
    <3> QED BY <3>1 DEF Step
  <2>5. CASE ReceiveResume(t) \/ ReceiveYield(t)
    <3>1. Quiet(t, "recv_resume", "recv_more") \/ Quiet(t, "recv_yield", "out")
      BY <1>1, <2>5, ReceiveResumeIsQuiet, ReceiveYieldIsQuiet
    <3> QED BY <3>1 DEF Step
  <2> QED BY <1>4, <2>1, <2>2, <2>3, <2>4, <2>5 DEF Receive
<1>5. User \subseteq Task
  BY DEF User
<1> QED BY <1>1, <1>2, <1>3, <1>4, <1>5 DEF Next

LEMMA QueueNext ==
  ASSUME QueueInd, [Next]_queueVars
  PROVE  QueueInd'
<1>1. CASE UNCHANGED queueVars
  <2>1. UNCHANGED <<kernelVars, pc, ringVars, waitVars, localVars, use>>
    BY <1>1 DEF queueVars, vars
  <2>2. UNCHANGED <<kernel_ticks, kernel_current_task, attr, ready, blocked_curr, blocked_next,
                    ready_switch_next, task_suspended_count, pendsv>>
    BY <2>1 DEF kernelVars
  <2>3. QueueTypes' /\ Callers' /\ Counted' /\ Waiting' = Waiting
    <3>1. /\ kernel_ticks \in Tick /\ kernel_current_task \in Task
          /\ ready_switch_next \in BOOLEAN /\ pendsv \in BOOLEAN
      BY DEF QueueInd, QueueTypes
    <3> QED BY <2>1, <2>2, <3>1, KernelStep
  <2>4. Lists(ready, blocked_curr, blocked_next, attr, Waiting)'
    <3>1. Lists(ready', blocked_curr', blocked_next', attr', Waiting')
      BY <2>2, <2>3 DEF QueueInd
    <3> QED BY <3>1
  <2>5. FrontRuns' /\ Windows'
    BY <2>1, <2>2 DEF QueueInd, FrontRuns, Windows
  <2> QED BY <2>3, <2>4, <2>5 DEF QueueInd
<1>2. CASE Next
  BY <1>2, QueueSteps, TickMoves, SwitchMoves, SleepKeeps, SendBlockKeeps, SendDoKeeps,
     ReceiveBlockKeeps, ReceiveWakeKeeps, HandlerKeeps, QuietKeeps
<1> QED BY <1>1, <1>2

-----------------------------------------------------------------------------
(* The ring *)

\* A sum of a remainder.
LEMMA ModSum ==
  ASSUME NEW M \in Nat \ {0}, NEW x \in Int, NEW y \in Int
  PROVE  ((x % M) + y) % M = (x + y) % M
<1>1. PICK z \in Int : z = 0 - y
  OBVIOUS
<1>2. ((x % M) - z) % M = (x - z) % M
  BY ModDiff
<1>3. x % M \in Int
  BY Divided
<1>4. (x % M) - z = (x % M) + y /\ x - z = x + y
  BY <1>1, <1>3
<1> QED BY <1>2, <1>4

\* Two numbers less than M apart have different remainders.
LEMMA ModApart ==
  ASSUME NEW M \in Nat \ {0}, NEW x \in Int, NEW y \in Int, x < y, y < x + M
  PROVE  x % M # y % M
<1>1. SUFFICES ASSUME x % M = y % M PROVE FALSE
  OBVIOUS
<1>2. PICK p \in Int : x = (p * M) + (x % M)
  BY Divided
<1>3. PICK q \in Int : y = (q * M) + (y % M)
  BY Divided
<1>4. PICK r \in Int : r = x % M
  BY Divided
<1>5. x = (p * M) + r /\ y = (q * M) + r
  BY <1>1, <1>2, <1>3, <1>4
<1>6. CASE q <= p
  <2>1. q * M <= p * M
    BY <1>6
  <2> QED BY <1>5, <2>1
<1>7. CASE q >= p + 1
  <2>1. q * M >= (p + 1) * M
    BY <1>7
  <2>2. (p + 1) * M = p * M + M
    OBVIOUS
  <2> QED BY <1>5, <2>1, <2>2
<1> QED BY <1>6, <1>7

\* The numbers of the ring.
LEMMA RingFacts ==
  ASSUME QueueInd
  PROVE  /\ buffer_size \in Nat \ {0} /\ buffer_size \in Int /\ SizeMod \in Nat \ {0}
         /\ SizeMod \in Int /\ SizeMod > buffer_size
         /\ queue_head \in Int /\ queue_tail \in Int /\ queue_count \in Nat /\ loaded \in Nat
         /\ \A n \in 0 .. buffer_size : n % SizeMod = n
<1>1. /\ buffer_size \in Nat \ {0} /\ buffer_size \in Int /\ SizeMod \in Nat \ {0}
      /\ SizeMod \in Int /\ SizeMod > buffer_size
  BY MsgQueueAssumption
<1>2. queue_head \in Int /\ queue_tail \in Int /\ queue_count \in Nat /\ loaded \in Nat
  BY <1>1 DEF QueueInd, QueueTypes, LocalTypes, Slot, Count
<1>3. ASSUME NEW n \in 0 .. buffer_size PROVE n % SizeMod = n
  <2>1. n \in 0 .. SizeMod - 1
    BY <1>1
  <2> QED BY <1>1, <2>1, ModSmall
<1> QED BY <1>1, <1>2, <1>3

\* Only one task is inside of a window, the one that runs.
LEMMA OneInside ==
  ASSUME QueueInd, NEW t \in Task, pc[t] \in Window
  PROVE  t = kernel_current_task
BY DEF QueueInd, Windows

\* A step that leaves the ring alone, and after which no task knows more of it.
LEMMA RingStays ==
  ASSUME QueueInd, RingInd, UNCHANGED <<ringVars, message, receive_count>>,
         \A u \in Task : \/ pc'[u] = pc[u]
                         \/ /\ pc'[u] \notin Reading
                            /\ pc'[u] \in SendStep => pc[u] \in SendStep
  PROVE  RingInd'
<1>1. UNCHANGED <<queue_head, queue_tail, queue_count>>
  BY DEF ringVars
<1>2. {"recv_load", "recv_store"} \subseteq Reading
  BY DEF Reading
<1> QED BY <1>1, <1>2 DEF RingInd

\* When the count is 0 no receiver is at a counted step.
LEMMA NoneCounted ==
  ASSUME NEW p \in [Task -> Step], Cardinality(CountedOf(p)) = 0
  PROVE  CountedOf(p) = {}
<1>1. SUFFICES ASSUME NEW t \in CountedOf(p) PROVE FALSE
  OBVIOUS
<1>2. t \in Task /\ p[t] \in CountedStep
  BY DEF CountedOf
<1>3. PICK s \in [Task -> Step] : s = [p EXCEPT ![t] = "out"]
  BY <1>2 DEF Step
<1>4. s[t] = "out" /\ \A u \in Task : u # t => s[u] = p[u]
  BY <1>2, <1>3
<1>5. "out" \notin CountedStep
  BY DEF CountedStep
<1>6. PICK n : n = Cardinality(CountedOf(p))
  OBVIOUS
<1>7. Cardinality(CountedOf(s)) = (n + 0) - 1
  BY <1>2, <1>4, <1>5, <1>6, CountGoes
<1>8. PICK k : k = Cardinality(CountedOf(s))
  OBVIOUS
<1>9. k \in Nat
  BY <1>8, CountGoes
<1> QED BY <1>6, <1>7, <1>8, <1>9

\* The receiver that was counted last takes the message, with the count it has loaded.
LEMMA RingStore ==
  ASSUME QueueInd, RingInd, NEW t \in Task, NEW to, Quiet(t, "recv_store", to),
         loaded = queue_count
  PROVE  RingInd' /\ queue_count' = queue_count - 1 /\ queue_count > 0
<1>1. /\ t = kernel_current_task /\ pc[t] = "recv_store"
      /\ pc'[t] = to /\ \A u \in Task : u # t => pc'[u] = pc[u]
  BY QuietHere
<1>2. /\ to = "recv_wake" /\ queue_head' = (queue_head + 1) % buffer_size
      /\ queue_count' = (loaded - 1) % SizeMod /\ queue_tail' = queue_tail
      /\ message' = message
  BY DEF Quiet, RingMoves, next_head
<1>3. /\ loaded = queue_count /\ queue_count > 0 /\ receive_count = 0
      /\ queue_count <= buffer_size /\ queue_tail = (queue_head + queue_count) % buffer_size
  BY <1>1 DEF RingInd, Reading
<1>4. queue_count' = queue_count - 1
  <2>1. queue_count - 1 \in 0 .. buffer_size
    BY <1>3, RingFacts
  <2> QED BY <1>2, <1>3, <2>1, RingFacts
<1>5. queue_count' <= buffer_size /\ queue_count' < buffer_size
  BY <1>3, <1>4, RingFacts
<1>6. queue_tail' = (queue_head' + queue_count') % buffer_size
  <2>1. PICK h \in Int, n \in Int : h = queue_head /\ n = queue_count
    BY RingFacts
  <2>2. h + 1 \in Int /\ n - 1 \in Int /\ (h + 1) + (n - 1) = h + n
    OBVIOUS
  <2>3. (((h + 1) % buffer_size) + (n - 1)) % buffer_size = ((h + 1) + (n - 1)) % buffer_size
    BY <2>2, ModSum, RingFacts
  <2> QED BY <1>2, <1>3, <1>4, <2>1, <2>2, <2>3
<1>7. \A u \in Task : pc[u] \notin CountedStep
  <2>1. PICK p \in [Task -> Step] : p = pc
    BY DEF QueueInd, QueueTypes
  <2>2. Cardinality(CountedOf(p)) = 0
    BY <1>3, <2>1 DEF QueueInd, Counted
  <2>3. CountedOf(p) = {}
    BY <2>2, NoneCounted
  <2> QED BY <2>1, <2>3 DEF CountedOf
<1>8. ASSUME NEW u \in Task PROVE pc'[u] \notin Reading
  <2>1. CASE u = t
    BY <1>1, <1>2, <2>1 DEF Reading
  <2>2. CASE u # t
    <3>1. pc[u] \notin Window /\ pc[u] # "recv_suspend" /\ pc'[u] = pc[u]
      BY <1>1, <1>7, <2>2, OneInside DEF CountedStep
    <3> QED BY <3>1 DEF Window, Reading
  <2> QED BY <2>1, <2>2
<1>9. ASSUME NEW u \in Task
      PROVE  pc'[u] \in SendStep => message'[u] \in Msg
  <2>1. pc'[u] \in SendStep => pc[u] \in SendStep
    BY <1>1, <1>2 DEF SendStep
  <2> QED BY <1>2, <2>1 DEF RingInd
<1>10. {"recv_load", "recv_store"} \subseteq Reading
  BY DEF Reading
<1> QED BY <1>3, <1>4, <1>5, <1>6, <1>8, <1>9, <1>10 DEF RingInd

\* The other quiet steps look at the ring.
LEMMA RingQuiet ==
  ASSUME QueueInd, RingInd, NEW t \in Task, NEW from, NEW to, Quiet(t, from, to),
         from # "recv_store"
  PROVE  RingInd' /\ queue_count' = queue_count
<1>1. /\ t = kernel_current_task /\ pc[t] = from
      /\ pc'[t] = to /\ \A u \in Task : u # t => pc'[u] = pc[u]
  BY QuietHere
<1>2. UNCHANGED <<queue_head, queue_tail, queue_count>>
  BY DEF Quiet, RingMoves, ringVars
<1>3. \A u \in User : u # t => message'[u] = message[u]
  BY DEF Quiet, RingMoves, QueueInd, QueueTypes, LocalTypes
<1>4. queue_count <= buffer_size /\ queue_count \in Nat /\ buffer_size \in Nat
  BY RingFacts DEF RingInd
<1>5. ASSUME NEW u \in Task, pc'[u] \in SendStep PROVE message'[u] \in Msg
  <2>1. CASE u # t
    <3>1. pc[u] \in SendStep /\ u \in User
      BY <1>1, <1>5, <2>1 DEF QueueInd, Callers, Caller, SendStep
    <3> QED BY <1>3, <2>1, <3>1 DEF RingInd
  <2>2. CASE u = t /\ from \in SendStep
    <3>1. message' = message
      BY <2>2 DEF Quiet, RingMoves, SendStep
    <3> QED BY <1>1, <2>2, <3>1 DEF RingInd
  <2>3. CASE u = t /\ from \notin SendStep
    BY <1>1, <1>5, <2>3 DEF Quiet, Sees
  <2> QED BY <2>1, <2>2, <2>3
<1>7. ASSUME NEW u \in Task, pc'[u] \in Reading PROVE queue_count' > 0
  <2>1. CASE u # t
    BY <1>1, <1>2, <1>7, <2>1 DEF RingInd
  <2>2. CASE u = t /\ to = "recv_suspend"
    <3>1. queue_count # 0
      BY <2>2 DEF Quiet, Sees
    <3> QED BY <1>2, <1>4, <3>1
  <2>3. CASE u = t /\ to # "recv_suspend"
    <3>1. to \in {"recv_uncount", "recv_read", "recv_load", "recv_store"}
      BY <1>1, <1>7, <2>3 DEF Reading
    <3>2. from \in Reading
      BY <3>1 DEF Quiet, Sees, RingMoves, Reading
    <3> QED BY <1>1, <1>2, <3>2 DEF RingInd
  <2> QED BY <2>1, <2>2, <2>3
<1>8. ASSUME NEW u \in Task, pc'[u] \in {"recv_load", "recv_store"}
      PROVE  receive_count' = 0
  <2>1. u = t
    <3>1. SUFFICES ASSUME u # t PROVE FALSE
      OBVIOUS
    <3>2. pc[u] \in Window
      BY <1>1, <1>8, <3>1 DEF Window
    <3> QED BY <1>1, <3>1, <3>2, OneInside
  <2>2. /\ to = "recv_load" => from = "recv_read" /\ receive_count = 0
        /\ to = "recv_store" => from = "recv_load" /\ loaded' = queue_count
    BY DEF Quiet, RingMoves
  <2>3. receive_count = 0
    BY <1>1, <1>8, <2>1, <2>2 DEF RingInd
  <2>4. from \notin CountedStep /\ to \notin CountedStep
    BY <1>1, <1>8, <2>1, <2>2 DEF CountedStep
  <2>5. receive_count' = 0
    BY <2>3, <2>4 DEF Quiet, CountMoves
  <2> QED BY <2>5
<1> QED BY <1>2, <1>5, <1>7, <1>8 DEF RingInd

\* A message is sent while there is room.
LEMMA RingSend ==
  ASSUME QueueInd, RingInd, NEW m, msgqueue_do_send(m), queue_count < buffer_size,
         \A u \in Task :
           /\ pc'[u] \in SendStep => message'[u] \in Msg
           /\ pc'[u] \in {"recv_load", "recv_store"} => pc'[u] = pc[u]
  PROVE  RingInd' /\ queue_count' = queue_count + 1
<1>1. /\ queue_tail' = (queue_tail + 1) % buffer_size /\ queue_head' = queue_head
      /\ queue_count' = (queue_count + 1) % SizeMod /\ receive_count' = receive_count
  BY DEF msgqueue_do_send
<1>2. queue_count' = queue_count + 1 /\ queue_count' <= buffer_size /\ queue_count' > 0
  <2>1. queue_count + 1 \in 0 .. buffer_size
    BY RingFacts
  <2> QED BY <1>1, <2>1, RingFacts
<1>3. queue_tail' = (queue_head' + queue_count') % buffer_size
  <2>1. PICK h \in Int, n \in Int : h = queue_head /\ n = queue_count
    BY RingFacts
  <2>2. h + n \in Int /\ (h + n) + 1 = h + (n + 1)
    OBVIOUS
  <2>3. (((h + n) % buffer_size) + 1) % buffer_size = ((h + n) + 1) % buffer_size
    <3>1. PICK x \in Int, y \in Int : x = h + n /\ y = 1
      BY <2>2
    <3>2. ((x % buffer_size) + y) % buffer_size = (x + y) % buffer_size
      BY ModSum, RingFacts
    <3> QED BY <3>1, <3>2
  <2>4. queue_tail = (h + n) % buffer_size
    BY <2>1 DEF RingInd
  <2> QED BY <1>1, <1>2, <2>1, <2>2, <2>3, <2>4
<1> QED BY <1>1, <1>2, <1>3 DEF RingInd

\* What SendDo(t) does to the program counters.
LEMMA SendDoHere ==
  ASSUME QueueInd, NEW t \in Task, SendDo(t)
  PROVE  /\ t = kernel_current_task /\ pc[t] = "send_do" /\ Caller(t, "send_do") /\ LocalTypes
         /\ t \in User /\ t \in use.senders /\ use \in QueueUses
         /\ pc'[t] = "out" /\ \A u \in Task : u # t => pc'[u] = pc[u]
<1>1. AtStep(t, "send_do") /\ Goto(t, "out") /\ "out" \in Step
  BY DEF SendDo, Step
<1>2. /\ t = kernel_current_task /\ pc[t] = "send_do" /\ Caller(t, "send_do") /\ LocalTypes
      /\ pc'[t] = "out" /\ use \in QueueUses
      /\ \A u \in Task : u # t => pc'[u] = pc[u]
  BY <1>1, Here, Goes
<1> QED BY <1>2 DEF Caller, SendStep

\* A sender that sends while everything is fresh has room,
LEMMA FreshSend ==
  ASSUME QueueInd, Next, fresh', NEW t \in User, pc[t] = "send_do", pc'[t] = "out"
  PROVE  ~msgqueue_is_full
<1>1. Fresh
  BY DEF Next
<1> QED BY <1>1 DEF Fresh

\* and a receiver that stores the count has loaded the one that is stored.
LEMMA FreshStore ==
  ASSUME QueueInd, Next, fresh', NEW t \in Task, NEW to, Quiet(t, "recv_store", to)
  PROVE  loaded = queue_count
<1>1. Fresh
  BY DEF Next
<1>2. pc[t] = "recv_store" /\ pc'[t] = to /\ to = "recv_wake"
  BY QuietHere DEF Quiet, RingMoves
<1>3. t \in User
  BY <1>2 DEF QueueInd, Callers, Caller
<1> QED BY <1>1, <1>2, <1>3 DEF Fresh

LEMMA RingNext ==
  ASSUME QueueInd, RingInd, [Next]_queueVars, fresh'
  PROVE  RingInd'
<1>1. CASE UNCHANGED queueVars
  <2>1. UNCHANGED <<pc, ringVars, message, receive_count>>
    BY <1>1 DEF queueVars, vars, waitVars, localVars
  <2> QED BY <2>1, RingStays
<1>2. CASE TickInterrupt \/ ContextSwitch
  <2>1. UNCHANGED <<pc, ringVars, message, receive_count>>
    BY <1>2 DEF TickInterrupt, tick_interrupt, ContextSwitch, context_switch, waitVars, localVars
  <2> QED BY <2>1, RingStays
<1>3. ASSUME NEW t \in Task, Sleep(t) \/ SendBlock(t) \/ ReceiveBlock(t) \/ ReceiveWake(t)
      PROVE  RingInd'
  <2>1. PICK from \in Step, to \in Step :
          /\ AtStep(t, from) /\ Goto(t, to)
          /\ to \notin Reading
          /\ to \in SendStep => from \in SendStep
    BY <1>3 DEF Sleep, sleep_one_tick, SendBlock, ReceiveBlock, ReceiveWake, Step, Reading, SendStep
  <2>2. UNCHANGED <<ringVars, message, receive_count>>
    BY <1>3 DEF Sleep, SendBlock, ReceiveBlock, ReceiveWake, waitVars, localVars
  <2>3. pc[t] = from /\ pc'[t] = to /\ \A u \in Task : u # t => pc'[u] = pc[u]
    BY <2>1, Here, Goes
  <2> QED BY <2>1, <2>2, <2>3, RingStays
<1>4. ASSUME Next, NEW t \in Task, SendDo(t) PROVE RingInd'
  <2>1. /\ AtStep(t, "send_do") /\ Goto(t, "out") /\ msgqueue_do_send(message[t])
        /\ message' = [message EXCEPT ![t] = NoMsg]
    BY <1>4 DEF SendDo
  <2>2. /\ pc[t] = "send_do" /\ pc'[t] = "out" /\ t \in User /\ LocalTypes
        /\ \A u \in Task : u # t => pc'[u] = pc[u]
    BY <1>4, SendDoHere
  <2>3. queue_count < buffer_size
    <3>1. ~msgqueue_is_full
      BY <1>4, <2>2, FreshSend
    <3> QED BY <3>1, RingFacts DEF RingInd, msgqueue_is_full
  <2>4. ASSUME NEW u \in Task
        PROVE  /\ pc'[u] \in SendStep => message'[u] \in Msg
               /\ pc'[u] \in {"recv_load", "recv_store"} => pc'[u] = pc[u]
    <3>1. CASE u = t
      BY <2>2, <3>1 DEF SendStep
    <3>2. CASE u # t
      <4>1. pc[u] \in SendStep => message[u] \in Msg /\ u \in User
        BY DEF RingInd, QueueInd, Callers, Caller, SendStep
      <4>2. pc[u] \in SendStep => message'[u] = message[u]
        BY <2>1, <2>2, <3>2, <4>1 DEF LocalTypes
      <4> QED BY <2>2, <3>2, <4>1, <4>2
    <3> QED BY <3>1, <3>2
  <2> QED BY <2>1, <2>3, <2>4, RingSend
<1>5. ASSUME NEW m \in Msg, msgqueue_send_from_isr(m) PROVE RingInd'
  <2>1. ~msgqueue_is_full /\ msgqueue_do_send(m) /\ UNCHANGED <<pc, message>>
    BY <1>5 DEF msgqueue_send_from_isr, localVars
  <2>2. queue_count < buffer_size
    BY <2>1, RingFacts DEF RingInd, msgqueue_is_full
  <2>3. \A u \in Task : pc[u] \in SendStep => message[u] \in Msg
    BY DEF RingInd
  <2> QED BY <2>1, <2>2, <2>3, RingSend
<1>6. CASE Next
  <2>1. ASSUME NEW t \in Task, NEW from, NEW to, Quiet(t, from, to) PROVE RingInd'
    <3>1. CASE from = "recv_store"
      <4>1. loaded = queue_count
        BY <1>6, <2>1, <3>1, FreshStore
      <4> QED BY <2>1, <3>1, <4>1, RingStore
    <3>2. CASE from # "recv_store"
      BY <2>1, <3>2, RingQuiet
    <3> QED BY <3>1, <3>2
  <2> QED BY <1>2, <1>3, <1>4, <1>5, <1>6, <2>1, QueueSteps
<1> QED BY <1>1, <1>6

-----------------------------------------------------------------------------
(* Where everything stays fresh: with one sender, and no handler that sends *)

\* A step that leaves the count alone, and after which no task goes on with it.
LEMMA SeenStays ==
  ASSUME SeenInd, UNCHANGED <<queue_count, loaded>>,
         \A u \in Task : pc'[u] = pc[u] \/ pc'[u] \notin {"send_do", "recv_store"}
  PROVE  SeenInd'
BY DEF SeenInd

LEMMA SeenQuiet ==
  ASSUME QueueInd, RingInd, SeenInd, NEW t \in Task, NEW from, NEW to, Quiet(t, from, to)
  PROVE  SeenInd'
<1>1. /\ t = kernel_current_task /\ pc[t] = from
      /\ pc'[t] = to /\ \A u \in Task : u # t => pc'[u] = pc[u]
  BY QuietHere
<1>2. \/ from = "recv_store" /\ queue_count' = queue_count - 1
      \/ from # "recv_store" /\ queue_count' = queue_count
  <2>1. from = "recv_store" => loaded = queue_count
    BY <1>1 DEF SeenInd
  <2> QED BY <2>1, RingStore, RingQuiet
<1>3. queue_count \in Nat /\ buffer_size \in Nat /\ queue_count <= buffer_size
  BY RingFacts DEF RingInd
<1>4. ASSUME NEW u \in Task, pc'[u] = "send_do" PROVE queue_count' < buffer_size
  <2>1. queue_count < buffer_size
    <3>1. CASE u # t
      BY <1>1, <1>4, <3>1 DEF SeenInd
    <3>2. CASE u = t
      <4>1. queue_count # buffer_size
        BY <1>1, <1>4, <3>2 DEF Quiet, Sees
      <4> QED BY <1>3, <4>1
    <3> QED BY <3>1, <3>2
  <2> QED BY <1>2, <1>3, <2>1
<1>5. ASSUME NEW u \in Task, pc'[u] = "recv_store" PROVE loaded' = queue_count'
  <2>1. u = t
    <3>1. SUFFICES ASSUME u # t PROVE FALSE
      OBVIOUS
    <3>2. pc[u] \in Window
      BY <1>1, <1>5, <3>1 DEF Window
    <3> QED BY <1>1, <3>1, <3>2, OneInside
  <2>2. from = "recv_load" /\ loaded' = queue_count
    BY <1>1, <1>5, <2>1 DEF Quiet, RingMoves
  <2> QED BY <1>2, <2>2
<1> QED BY <1>4, <1>5 DEF SeenInd

LEMMA SeenSendDo ==
  ASSUME QueueInd, SeenInd, OneSender, NEW t \in Task, SendDo(t)
  PROVE  SeenInd'
<1>1. /\ t = kernel_current_task /\ t \in use.senders
      /\ pc'[t] = "out" /\ \A u \in Task : u # t => pc'[u] = pc[u]
  BY SendDoHere
<1>2. ASSUME NEW u \in Task PROVE pc'[u] \notin {"send_do", "recv_store"}
  <2>1. CASE u = t
    BY <1>1, <2>1
  <2>2. CASE u # t
    <3>1. pc[u] \notin Window
      BY <1>1, <2>2, OneInside
    <3>2. pc[u] = "send_do" => u \in use.senders
      BY DEF QueueInd, Callers, Caller, SendStep
    <3>3. pc[u] # "send_do"
      BY <1>1, <2>2, <3>2 DEF OneSender
    <3> QED BY <1>1, <2>2, <3>1, <3>3 DEF Window
  <2> QED BY <2>1, <2>2
<1> QED BY <1>2 DEF SeenInd

LEMMA SeenNext ==
  ASSUME QueueInd, RingInd, SeenInd, OneSender, ~use.isr, [Next]_queueVars
  PROVE  SeenInd'
<1>1. CASE UNCHANGED queueVars
  <2>1. UNCHANGED <<pc, queue_count, loaded>>
    BY <1>1 DEF queueVars, vars, ringVars, localVars
  <2> QED BY <2>1, SeenStays
<1>2. CASE TickInterrupt \/ ContextSwitch
  <2>1. UNCHANGED <<pc, queue_count, loaded>>
    BY <1>2 DEF TickInterrupt, tick_interrupt, ContextSwitch, context_switch, ringVars, localVars
  <2> QED BY <2>1, SeenStays
<1>3. ASSUME NEW t \in Task, Sleep(t) \/ SendBlock(t) \/ ReceiveBlock(t) \/ ReceiveWake(t)
      PROVE  SeenInd'
  <2>1. PICK from \in Step, to \in Step :
          AtStep(t, from) /\ Goto(t, to) /\ to \notin {"send_do", "recv_store"}
    BY <1>3 DEF Sleep, sleep_one_tick, SendBlock, ReceiveBlock, ReceiveWake, Step
  <2>2. UNCHANGED <<queue_count, loaded>>
    BY <1>3 DEF Sleep, SendBlock, ReceiveBlock, ReceiveWake, ringVars, localVars
  <2>3. pc'[t] = to /\ \A u \in Task : u # t => pc'[u] = pc[u]
    BY <2>1, Here, Goes
  <2> QED BY <2>1, <2>2, <2>3, SeenStays
<1>4. \A m \in Msg : ~msgqueue_send_from_isr(m)
  BY DEF msgqueue_send_from_isr
<1>5. CASE Next
  BY <1>2, <1>3, <1>4, <1>5, QueueSteps, SeenQuiet, SeenSendDo
<1> QED BY <1>1, <1>5

\* What is seen is fresh.
LEMMA SeenIsFresh ==
  ASSUME QueueInd, SeenInd
  PROVE  Fresh
<1>1. User \subseteq Task /\ buffer_size \in Nat /\ queue_count \in Nat
  BY RingFacts DEF User
<1> QED BY <1>1 DEF SeenInd, Fresh, msgqueue_is_full

-----------------------------------------------------------------------------
(* Nobody waits for what is there *)

\* What is ready and not below the task that runs is so after a step that does not
\* move it.
LEMMA AheadStays ==
  ASSUME QueueInd, NEW gone, StayReady(ready, ready', gone), attr' = attr,
         kernel_current_task' = kernel_current_task, NEW u \in Task, u \notin gone, Ahead(u)
  PROVE  Ahead(u)'
<1>1. /\ u \in Range(ready.list[attr[u].priority])
      /\ attr[kernel_current_task].priority >= attr[u].priority
  BY DEF Ahead
<1>2. PICK p \in Priority : p = attr[u].priority
  BY HasPriority DEF QueueInd, Lists
<1>3. u \in Range(ready'.list[p])
  BY <1>1, <1>2, ReadyStill
<1> QED BY <1>1, <1>2, <1>3 DEF Ahead

\* The task that is switched to is not below any that is ready.
LEMMA AheadSwitched ==
  ASSUME QueueInd, QueueInd', StayReady(ready, ready', {}), attr' = attr,
         \A p \in Priority : ready'.list[p] # <<>> => p <= attr'[kernel_current_task'].priority,
         NEW u \in Task, Ahead(u)
  PROVE  Ahead(u)'
<1>1. u \in Range(ready.list[attr[u].priority])
  BY DEF Ahead
<1>2. PICK p \in Priority : p = attr[u].priority
  BY HasPriority DEF QueueInd, Lists
<1>3. u \in Range(ready.list[p]) /\ u \notin {}
  BY <1>1, <1>2
<1>4. u \in Range(ready'.list[p])
  BY <1>3, ReadyStill
<1>5. ready'.list[p] # <<>>
  BY <1>4 DEF Range
<1>6. p <= attr[kernel_current_task'].priority
  BY <1>5
<1>7. PICK c \in Task : c = kernel_current_task'
  BY DEF QueueInd, QueueTypes
<1>8. attr[c].priority \in Priority
  BY HasPriority DEF QueueInd, Lists
<1>9. PICK q \in Int : q = attr[kernel_current_task'].priority
  BY <1>7, <1>8 DEF Priority
<1>10. p \in Int
  BY DEF Priority
<1>11. q >= p
  BY <1>6, <1>9, <1>10
<1> QED BY <1>2, <1>4, <1>9, <1>11 DEF Ahead

\* A task that is ahead is not below the one that runs.
LEMMA NotAbove ==
  ASSUME QueueInd, NEW u \in Task, Ahead(u), NEW A, NEW B, u \in A,
         kernel_current_task \in B
  PROVE  ~Above(A, B)
<1>1. SUFFICES ASSUME Above(A, B) PROVE FALSE
  OBVIOUS
<1>2. attr[u].priority > attr[kernel_current_task].priority
  BY <1>1 DEF Above
<1>3. attr[kernel_current_task].priority >= attr[u].priority
  BY DEF Ahead
<1>4. attr[kernel_current_task].priority \in Priority /\ attr[u].priority \in Priority
  BY HasPriority DEF QueueInd, QueueTypes, Lists
<1>5. PICK a \in Int, b \in Int : a = attr[kernel_current_task].priority /\ b = attr[u].priority
  BY <1>4 DEF Priority
<1> QED BY <1>2, <1>3, <1>5

\* The task that runs, when it is not on its way out, is ahead.
LEMMA RunsAhead ==
  ASSUME QueueInd, NEW t \in Task, NEW from, AtStep(t, from), from \notin Away
  PROVE  Ahead(t)
<1>1. t = kernel_current_task /\ t \in Range(ready.list[attr[t].priority])
  BY RunsAtFront
<1>2. attr[t].priority \in Priority
  BY HasPriority DEF QueueInd, Lists
<1>3. PICK p \in Int : p = attr[t].priority
  BY <1>2 DEF Priority
<1>4. p >= p
  OBVIOUS
<1> QED BY <1>1, <1>3, <1>4 DEF Ahead

\* A step that leaves the number of the messages.
LEMMA SafeStays ==
  ASSUME QueueInd, ReceiversSafe, SendersSafe, UNCHANGED <<use, attr, queue_count>>,
         \A u \in Task : pc'[u] \in {"recv_wait", "recv_block"} =>
           \/ pc[u] \in {"recv_wait", "recv_block"} /\ (Ahead(u) => Ahead(u)')
           \/ queue_count = 0 /\ Ahead(u)',
         \A u \in Task : pc'[u] \in {"send_suspend", "send_block"} =>
           \/ pc[u] \in {"send_suspend", "send_block"} /\ (Ahead(u) => Ahead(u)')
           \/ queue_count = buffer_size /\ Ahead(u)',
         to_receive' # <<>> => to_receive # <<>> \/ pc[kernel_current_task] = "recv_block",
         OneSender /\ pc'[kernel_current_task'] # "recv_wake" /\ to_send' # <<>> =>
           \/ pc[kernel_current_task] # "recv_wake" /\ to_send # <<>>
           \/ pc[kernel_current_task] = "send_block"
  PROVE  ReceiversSafe' /\ SendersSafe'
<1>1. kernel_current_task \in Task
  BY DEF QueueInd, QueueTypes
<1>2. ReceiversSafe'
  <2>1. SUFFICES ASSUME ~use.isr, Above(use.blocking, use.senders)
                 PROVE  /\ \A u \in Task : pc'[u] \in {"recv_wait", "recv_block"} =>
                             queue_count = 0 /\ Ahead(u)'
                        /\ to_receive' # <<>> => queue_count = 0
    BY DEF ReceiversSafe, Above
  <2>2. /\ \A u \in Task : pc[u] \in {"recv_wait", "recv_block"} => queue_count = 0 /\ Ahead(u)
        /\ to_receive # <<>> => queue_count = 0
    BY <2>1 DEF ReceiversSafe
  <2>3. pc[kernel_current_task] = "recv_block" => queue_count = 0
    BY <1>1, <2>2
  <2>4. ASSUME NEW u \in Task, pc'[u] \in {"recv_wait", "recv_block"}
        PROVE  queue_count = 0 /\ Ahead(u)'
    BY <2>2, <2>4
  <2> QED BY <2>2, <2>3, <2>4
<1>3. SendersSafe'
  <2>1. SUFFICES ASSUME OneSender, Above(use.senders, Receiver)
                 PROVE  /\ \A u \in Task : pc'[u] \in {"send_suspend", "send_block"} =>
                             queue_count = buffer_size /\ Ahead(u)'
                        /\ pc'[kernel_current_task'] # "recv_wake" /\ to_send' # <<>> =>
                             queue_count = buffer_size
    BY DEF SendersSafe, OneSender, Above
  <2>2. /\ \A u \in Task : pc[u] \in {"send_suspend", "send_block"} =>
             queue_count = buffer_size /\ Ahead(u)
        /\ pc[kernel_current_task] # "recv_wake" /\ to_send # <<>> => queue_count = buffer_size
    BY <2>1 DEF SendersSafe
  <2>3. pc[kernel_current_task] = "send_block" => queue_count = buffer_size
    BY <1>1, <2>2
  <2>4. ASSUME NEW u \in Task, pc'[u] \in {"send_suspend", "send_block"}
        PROVE  queue_count = buffer_size /\ Ahead(u)'
    BY <2>2, <2>4
  <2> QED BY <2>1, <2>2, <2>3, <2>4
<1> QED BY <1>2, <1>3

LEMMA SafeQuiet ==
  ASSUME QueueInd, RingInd, ReceiversSafe, SendersSafe, NEW t \in Task, NEW from, NEW to,
         Quiet(t, from, to), from # "recv_store"
  PROVE  ReceiversSafe' /\ SendersSafe'
<1>1. /\ t = kernel_current_task /\ pc[t] = from /\ kernel_current_task' = kernel_current_task
      /\ pc'[t] = to /\ \A u \in Task : u # t => pc'[u] = pc[u]
      /\ UNCHANGED <<attr, ready, to_send, to_receive, use>>
  BY QuietHere
<1>2. queue_count' = queue_count /\ from # "recv_wake"
  BY RingQuiet DEF Quiet
<1>3. \A u \in Task : Ahead(u) <=> Ahead(u)'
  BY <1>1 DEF Ahead
<1>4. from \in {"recv_test", "send_test"} => Ahead(t)
  BY RunsAhead DEF Quiet, Away
<1>5. /\ to = "recv_wait" => from = "recv_test" /\ queue_count = 0
      /\ to = "recv_block" => from = "recv_wait"
      /\ to = "send_suspend" => from = "send_test" /\ queue_count = buffer_size
      /\ to = "send_block" => from = "send_suspend"
  BY DEF Quiet, Sees
<1>6. ASSUME NEW u \in Task, pc'[u] \in {"recv_wait", "recv_block"}
      PROVE  \/ pc[u] \in {"recv_wait", "recv_block"} /\ (Ahead(u) => Ahead(u)')
             \/ queue_count = 0 /\ Ahead(u)'
  BY <1>1, <1>3, <1>4, <1>5, <1>6
<1>7. ASSUME NEW u \in Task, pc'[u] \in {"send_suspend", "send_block"}
      PROVE  \/ pc[u] \in {"send_suspend", "send_block"} /\ (Ahead(u) => Ahead(u)')
             \/ queue_count = buffer_size /\ Ahead(u)'
  BY <1>1, <1>3, <1>4, <1>5, <1>7
<1> QED BY <1>1, <1>2, <1>6, <1>7, SafeStays

\* The tasks about to wait after the step of the task that runs: none of those that
\* are above it.
LEMMA SafeStore ==
  ASSUME QueueInd, RingInd, ReceiversSafe, SendersSafe, NEW t \in Task, NEW to,
         Quiet(t, "recv_store", to), loaded = queue_count
  PROVE  ReceiversSafe' /\ SendersSafe'
<1>1. /\ t = kernel_current_task /\ pc[t] = "recv_store"
      /\ kernel_current_task' = kernel_current_task
      /\ pc'[t] = to /\ \A u \in Task : u # t => pc'[u] = pc[u]
      /\ UNCHANGED <<attr, to_receive, use>>
  BY QuietHere
<1>2. queue_count > 0 /\ queue_count \in Nat /\ to = "recv_wake" /\ t \in Receiver
  <2>1. Caller(t, "recv_store")
    BY <1>1 DEF QueueInd, Callers
  <2> QED BY <2>1, RingStore, RingFacts DEF Quiet, RingMoves, Caller, ReadStep
<1>3. ReceiversSafe'
  <2>1. SUFFICES ASSUME ~use.isr, Above(use.blocking, use.senders)
                 PROVE  /\ \A u \in Task : pc'[u] \notin {"recv_wait", "recv_block"}
                        /\ to_receive' = <<>>
    BY <1>1 DEF ReceiversSafe, Above
  <2>2. \A u \in Task : pc[u] \notin {"recv_wait", "recv_block"}
    BY <1>2, <2>1 DEF ReceiversSafe
  <2>3. to_receive = <<>>
    BY <1>2, <2>1 DEF ReceiversSafe
  <2> QED BY <1>1, <1>2, <2>2, <2>3
<1>4. SendersSafe'
  <2>1. SUFFICES ASSUME OneSender, Above(use.senders, Receiver)
                 PROVE  \A u \in Task : pc'[u] \notin {"send_suspend", "send_block"}
    BY <1>1, <1>2 DEF SendersSafe, OneSender, Above
  <2>2. ASSUME NEW u \in Task, pc[u] \in {"send_suspend", "send_block"} PROVE FALSE
    <3>1. Ahead(u)
      BY <2>1, <2>2 DEF SendersSafe
    <3>2. u \in use.senders
      BY <2>2 DEF QueueInd, Callers, Caller, SendStep
    <3> QED BY <1>1, <1>2, <2>1, <3>1, <3>2, NotAbove
  <2> QED BY <1>1, <1>2, <2>2
<1> QED BY <1>3, <1>4

\* The tasks that wait to send are senders, and each of them waits once.
LEMMA SendersWait ==
  ASSUME QueueInd, OneSender
  PROVE  /\ \A t \in use.senders : t \notin Range(to_send) => to_send = <<>>
         /\ to_send # <<>> => Tail(to_send) = <<>>
<1>1. to_send \in Seq(Task) /\ to_receive \in Seq(Task)
  BY WaitingTasks
<1>2. \A u \in Range(to_send) : u \in use.senders
  <2>1. ASSUME NEW u \in Range(to_send) PROVE u \in use.senders
    <3>1. u \in Task /\ pc[u] \in SendQueued /\ Caller(u, pc[u])
      BY WaitingTasks DEF QueueInd, Callers
    <3> QED BY <3>1 DEF Caller, SendQueued, SendStep
  <2> QED BY <2>1
<1>3. \A s, t \in use.senders : s = t
  BY DEF OneSender
<1>4. PICK m \in Nat : m = Len(to_send) /\ DOMAIN to_send = 1 .. m
  BY <1>1
<1>5. \A i \in 1 .. m : to_send[i] \in use.senders /\ to_send[i] \in Range(to_send)
  BY <1>2, <1>4 DEF Range
<1>6. to_send # <<>> => m > 0
  BY <1>1, <1>4, EmptySeq
<1>7. to_send # <<>> => to_send[1] \in use.senders /\ to_send[1] \in Range(to_send)
  BY <1>4, <1>5, <1>6
<1>8. ASSUME to_send # <<>> PROVE Tail(to_send) = <<>>
  <2>1. m = 1
    <3>1. SUFFICES ASSUME m > 1 PROVE FALSE
      BY <1>6, <1>8
    <3>2. PICK n \in Nat, w \in Seq(Task) : n = Len(to_receive) /\ w = Waiting
      BY <1>1, WaitingTasks
    <3>3. /\ w \in Seq(Task) /\ Len(w) = m + n
          /\ \A i \in 1 .. m + n : w[i] = IF i <= m THEN to_send[i] ELSE to_receive[i - m]
      BY <1>1, <1>4, <3>2, ConcatAt DEF Waiting
    <3>4. 1 \in 1 .. m + n /\ 2 \in 1 .. m + n /\ 1 <= m /\ 2 <= m /\ 1 \in 1 .. m /\ 2 \in 1 .. m
      BY <3>1
    <3>5. w[1] = w[2] /\ 1 \in DOMAIN w /\ 2 \in DOMAIN w
      BY <1>3, <1>5, <3>3, <3>4
    <3>6. Lists(ready, blocked_curr, blocked_next, attr, w)
      BY <3>2 DEF QueueInd
    <3>7. \A i, j \in DOMAIN w : w[i] = w[j] => i = j
      BY <3>6, WaitersOnce
    <3> QED BY <3>5, <3>7
  <2>2. PICK w \in Seq(Task) : w = Tail(to_send)
    BY <1>1, <1>8, InRange
  <2>3. Len(w) = 0
    BY <1>1, <1>4, <1>8, <2>1, <2>2, HeadTailProperties
  <2> QED BY <2>2, <2>3, EmptySeq
<1> QED BY <1>3, <1>7, <1>8

\* A message is sent: the receivers in the list are woken, and none that is about
\* to wait is ahead of the sender.  A single sender is not in the list either.
LEMMA SafeSendDo ==
  ASSUME QueueInd, ReceiversSafe, NEW t \in Task, SendDo(t), use' = use
  PROVE  ReceiversSafe' /\ SendersSafe'
<1>1. AtStep(t, "send_do") /\ msgqueue_do_send(message[t]) /\ attr' = attr
  BY DEF SendDo, msgqueue_do_send, UnchangedScheduler
<1>2. /\ t = kernel_current_task /\ pc[t] = "send_do" /\ t \in use.senders
      /\ pc'[t] = "out" /\ \A u \in Task : u # t => pc'[u] = pc[u]
  BY SendDoHere
<1>3. to_receive' = <<>> /\ to_send' = to_send
  BY <1>1, DoSendMoves
<1>4. t \notin Range(to_send)
  BY <1>1, NotWaiting
<1>5. ReceiversSafe'
  <2>1. SUFFICES ASSUME ~use.isr, Above(use.blocking, use.senders), NEW u \in Task,
                        pc'[u] \in {"recv_wait", "recv_block"}
                 PROVE  FALSE
    BY <1>1, <1>3 DEF ReceiversSafe, Above
  <2>2. pc[u] \in {"recv_wait", "recv_block"}
    BY <1>2, <2>1
  <2>3. Ahead(u) /\ u \in use.blocking
    BY <2>1, <2>2 DEF ReceiversSafe, QueueInd, Callers, Caller, WaitStep
  <2> QED BY <1>2, <2>1, <2>3, NotAbove
<1>6. SendersSafe'
  <2>1. SUFFICES ASSUME OneSender, Above(use.senders, Receiver)
                 PROVE  /\ \A u \in Task : pc'[u] \notin {"send_suspend", "send_block"}
                        /\ to_send' = <<>>
    BY <1>1 DEF SendersSafe, OneSender, Above
  <2>2. ASSUME NEW u \in Task, pc'[u] \in {"send_suspend", "send_block"} PROVE FALSE
    <3>1. u # t /\ pc[u] \in {"send_suspend", "send_block"}
      BY <1>2, <2>2
    <3>2. u \in use.senders
      BY <3>1 DEF QueueInd, Callers, Caller, SendStep
    <3> QED BY <1>2, <2>1, <3>1, <3>2 DEF OneSender
  <2> QED BY <1>2, <1>3, <1>4, <2>1, <2>2, SendersWait
<1> QED BY <1>5, <1>6

\* A handler sends: there was room, so that no sender was waiting.
LEMMA SafeHandler ==
  ASSUME QueueInd, RingInd, SendersSafe, NEW m \in Msg, msgqueue_send_from_isr(m), use' = use
  PROVE  ReceiversSafe' /\ SendersSafe'
<1>1. /\ use.isr /\ queue_count # buffer_size /\ msgqueue_do_send(m)
      /\ UNCHANGED <<pc, attr, kernel_current_task>>
  BY DEF msgqueue_send_from_isr, msgqueue_is_full, msgqueue_do_send, UnchangedScheduler
<1>2. to_send' = to_send
  BY <1>1, DoSendMoves
<1>3. ReceiversSafe'
  BY <1>1 DEF ReceiversSafe
<1>4. SendersSafe'
  <2>1. SUFFICES ASSUME OneSender, Above(use.senders, Receiver)
                 PROVE  /\ \A u \in Task : pc[u] \notin {"send_suspend", "send_block"}
                        /\ pc[kernel_current_task] # "recv_wake" => to_send = <<>>
    BY <1>1, <1>2 DEF SendersSafe, OneSender, Above
  <2> QED BY <1>1, <2>1 DEF SendersSafe
<1> QED BY <1>3, <1>4

LEMMA SafeWake ==
  ASSUME QueueInd, ReceiversSafe, SendersSafe, NEW t \in Task, ReceiveWake(t),
         use' = use
  PROVE  ReceiversSafe' /\ SendersSafe'
<1>1. /\ AtStep(t, "recv_wake") /\ Goto(t, "recv_resume")
      /\ UNCHANGED <<kernel_current_task, attr, ringVars>>
  BY DEF ReceiveWake, UnchangedScheduler
<1>2. /\ t = kernel_current_task /\ pc'[t] = "recv_resume"
      /\ \A u \in Task : u # t => pc'[u] = pc[u]
  <2>1. "recv_resume" \in Step
    BY DEF Step
  <2> QED BY <1>1, <2>1, Here, Goes
<1>3. /\ StayReady(ready, ready', {}) /\ to_receive' = to_receive
      /\ to_send' = IF to_send = <<>> THEN <<>> ELSE Tail(to_send)
  BY ReceiveWakeMoves
<1>4. OneSender => to_send' = <<>>
  BY <1>3, SendersWait
<1>5. \A u \in Task : Ahead(u) => Ahead(u)'
  BY <1>1, <1>3, AheadStays
<1>6. queue_count' = queue_count
  BY <1>1 DEF ringVars
<1>7. \A u \in Task :
        pc'[u] \in {"recv_wait", "recv_block", "send_suspend", "send_block"} => pc'[u] = pc[u]
  BY <1>2
<1> QED BY <1>1, <1>3, <1>4, <1>5, <1>6, <1>7, SafeStays

\* A task goes to sleep, or into a list of the queue.
LEMMA SafeGoes ==
  ASSUME QueueInd, ReceiversSafe, SendersSafe, NEW t \in Task,
         Sleep(t) \/ SendBlock(t) \/ ReceiveBlock(t), use' = use
  PROVE  ReceiversSafe' /\ SendersSafe'
<1>1. PICK from \in Step, to \in Step :
        /\ AtStep(t, from) /\ Goto(t, to) /\ to \in Away /\ from # "recv_wake"
  BY DEF Sleep, sleep_one_tick, SendBlock, ReceiveBlock, Step, Away
<1>2. /\ t = kernel_current_task /\ pc[t] = from /\ pc'[t] = to
      /\ \A u \in Task : u # t => pc'[u] = pc[u]
  BY <1>1, Here, Goes
<1>3. UNCHANGED <<kernel_current_task, attr, queue_count>>
  BY DEF Sleep, sleep_one_tick, SendBlock, ReceiveBlock, wait_front, UnchangedScheduler, ringVars
<1>4. StayReady(ready, ready', {t})
  BY SleepMoves, SendBlockMoves, ReceiveBlockMoves
<1>5. /\ to_receive' = to_receive \/ pc[t] = "recv_block"
      /\ to_send' = to_send \/ pc[t] = "send_block"
  <2>1. CASE Sleep(t)
    BY <2>1 DEF Sleep, waitVars
  <2>2. CASE SendBlock(t)
    BY <2>2, SendBlockMoves
  <2>3. CASE ReceiveBlock(t)
    BY <2>3, ReceiveBlockMoves
  <2> QED BY <2>1, <2>2, <2>3
<1>6. \A u \in Task : pc'[u] \notin Away => u # t /\ pc'[u] = pc[u] /\ (Ahead(u) => Ahead(u)')
  BY <1>1, <1>2, <1>3, <1>4, AheadStays
<1>7. \A u \in Task : pc'[u] \in {"recv_wait", "recv_block", "send_suspend", "send_block"} =>
        pc'[u] = pc[u] /\ (Ahead(u) => Ahead(u)')
  BY <1>6 DEF Away
<1> QED BY <1>1, <1>2, <1>3, <1>5, <1>7, SafeStays

LEMMA SafeNext ==
  ASSUME QueueInd, RingInd, ReceiversSafe, SendersSafe, [Next]_queueVars, fresh'
  PROVE  ReceiversSafe' /\ SendersSafe'
<1>1. CASE UNCHANGED queueVars
  <2>1. UNCHANGED <<pc, attr, use, queue_count, kernel_current_task, ready, to_send, to_receive>>
    BY <1>1 DEF queueVars, vars, kernelVars, ringVars, waitVars
  <2>2. \A u \in Task : Ahead(u) => Ahead(u)'
    BY <2>1 DEF Ahead
  <2> QED BY <2>1, <2>2, SafeStays
<1>2. CASE TickInterrupt /\ use' = use
  <2>1. /\ StayReady(ready, ready', {}) /\ UNCHANGED <<kernel_current_task, pc, attr>>
        /\ UNCHANGED <<queue_count, to_send, to_receive>>
    BY <1>2, TickMoves DEF ringVars, waitVars
  <2>2. \A u \in Task : Ahead(u) => Ahead(u)'
    BY <2>1, AheadStays
  <2> QED BY <1>2, <2>1, <2>2, SafeStays
<1>3. CASE ContextSwitch /\ use' = use
  <2>1. /\ QueueInd' /\ StayReady(ready, ready', {}) /\ UNCHANGED <<pc, attr>>
        /\ \A p \in Priority : ready'.list[p] # <<>> => p <= attr'[kernel_current_task'].priority
        /\ UNCHANGED <<queue_count, to_send, to_receive>>
        /\ \A t \in Task : pc[t] \notin Window
    BY <1>3, SwitchMoves DEF ringVars, waitVars
  <2>2. \A u \in Task : Ahead(u) => Ahead(u)'
    BY <2>1, AheadSwitched
  <2>3. pc[kernel_current_task] # "recv_wake"
    BY <2>1 DEF QueueInd, QueueTypes, Window
  <2> QED BY <1>3, <2>1, <2>2, <2>3, SafeStays
<1>4. ASSUME Next, NEW t \in Task, NEW from, NEW to, Quiet(t, from, to)
      PROVE  ReceiversSafe' /\ SendersSafe'
  <2>1. CASE from = "recv_store"
    <3>1. loaded = queue_count
      BY <1>4, <2>1, FreshStore
    <3> QED BY <1>4, <2>1, <3>1, SafeStore
  <2>2. CASE from # "recv_store"
    BY <1>4, <2>2, SafeQuiet
  <2> QED BY <2>1, <2>2
<1>5. CASE Next
  BY <1>2, <1>3, <1>4, <1>5, QueueSteps, SafeHandler, SafeSendDo, SafeWake, SafeGoes
<1> QED BY <1>1, <1>5

-----------------------------------------------------------------------------
(* What is in the ring *)

\* A message, or what the buffer holds before it is written.
Item == Msg \union {NoMsg}

\* The n items of the buffer b from h on, around its end.
Around(b, h, n) == [i \in 1 .. n |-> b[(h + i - 1) % buffer_size]]

LEMMA AroundFacts ==
  ASSUME NEW b \in [Slot -> Item], NEW h \in Int, NEW n \in Nat, NEW c, c = Around(b, h, n)
  PROVE  /\ c \in Seq(Item) /\ Len(c) = n
         /\ \A i \in 1 .. n : c[i] = b[(h + i - 1) % buffer_size]
<1>1. \A i \in 1 .. n : (h + i - 1) % buffer_size \in Slot
  <2>1. ASSUME NEW i \in 1 .. n PROVE (h + i - 1) % buffer_size \in Slot
    <3>1. h + i - 1 \in Int
      OBVIOUS
    <3> QED BY <3>1, LocalFacts
  <2> QED BY <2>1
<1>2. c \in [1 .. n -> Item]
  BY <1>1 DEF Around
<1>3. \A i \in 1 .. n : c[i] = b[(h + i - 1) % buffer_size]
  BY DEF Around
<1> QED BY <1>2, <1>3

\* An item is written behind the last one: it is appended.
LEMMA AroundSend ==
  ASSUME NEW b \in [Slot -> Item], NEW h \in Int, NEW n \in Nat, n < buffer_size,
         NEW m \in Item
  PROVE  Around([b EXCEPT ![(h + n) % buffer_size] = m], h, n + 1) = Append(Around(b, h, n), m)
<1>1. buffer_size \in Nat \ {0} /\ buffer_size \in Int
  BY MsgQueueAssumption
<1>2. PICK a \in [Slot -> Item] : a = [b EXCEPT ![(h + n) % buffer_size] = m]
  OBVIOUS
<1>3. PICK k \in Nat : k = n + 1
  OBVIOUS
<1>4. PICK c : c = Around(b, h, n)
  OBVIOUS
<1>5. PICK e : e = Around(a, h, k)
  OBVIOUS
<1>6. /\ c \in Seq(Item) /\ Len(c) = n
      /\ \A i \in 1 .. n : c[i] = b[(h + i - 1) % buffer_size]
  BY <1>4, AroundFacts
<1>7. /\ e \in Seq(Item) /\ Len(e) = k
      /\ \A i \in 1 .. k : e[i] = a[(h + i - 1) % buffer_size]
  <2>1. a \in [Slot -> Item] /\ k \in Nat
    BY <1>2, <1>3
  <2> HIDE <1>2, <1>3
  <2> QED BY <1>5, <2>1, AroundFacts
<1>8. PICK f \in Seq(Item) : f = Append(c, m)
  BY <1>6, AppendProperties
<1>9. Len(f) = k /\ f[k] = m /\ \A i \in 1 .. n : f[i] = c[i]
  BY <1>3, <1>6, <1>8
<1>10. ASSUME NEW i \in 1 .. k PROVE e[i] = f[i]
  <2>1. PICK y \in Int : y = h + i - 1
    OBVIOUS
  <2>2. y % buffer_size \in Slot /\ e[i] = a[y % buffer_size]
    BY <1>7, <2>1, LocalFacts
  <2>3. CASE i = k
    <3>1. y = h + n
      BY <1>3, <2>1, <2>3
    <3>2. a[y % buffer_size] = m
      BY <1>2, <2>2, <3>1
    <3> QED BY <1>9, <2>2, <2>3, <3>2
  <2>4. CASE i # k
    <3>1. i \in 1 .. n
      BY <1>3, <2>4
    <3>2. PICK z \in Int : z = h + n
      OBVIOUS
    <3>3. y < z /\ z < y + buffer_size
      BY <1>1, <2>1, <3>1, <3>2
    <3>4. y % buffer_size # z % buffer_size
      BY <1>1, <3>3, ModApart
    <3>5. e[i] = b[y % buffer_size]
      BY <1>2, <2>2, <3>2, <3>4
    <3> QED BY <1>6, <1>9, <2>1, <3>1, <3>5
  <2> QED BY <2>3, <2>4
<1>11. e = f
  BY <1>7, <1>8, <1>9, <1>10, SeqEqual
<1> QED BY <1>2, <1>3, <1>4, <1>5, <1>8, <1>11

\* The head moves on: the others are left.
LEMMA AroundStore ==
  ASSUME NEW b \in [Slot -> Item], NEW h \in Int, NEW n \in Nat, n > 0,
         NEW g \in Int, g = (h + 1) % buffer_size
  PROVE  Around(b, g, n - 1) = SubSeq(Around(b, h, n), 2, n)
<1>1. buffer_size \in Nat \ {0} /\ buffer_size \in Int
  BY MsgQueueAssumption
<1>2. PICK k \in Nat : k = n - 1
  OBVIOUS
<1>3. PICK c : c = Around(b, h, n)
  OBVIOUS
<1>4. PICK e : e = Around(b, g, k)
  OBVIOUS
<1>5. /\ c \in Seq(Item) /\ Len(c) = n
      /\ \A i \in 1 .. n : c[i] = b[(h + i - 1) % buffer_size]
  BY <1>3, AroundFacts
<1>6. /\ e \in Seq(Item) /\ Len(e) = k
      /\ \A i \in 1 .. k : e[i] = b[(g + i - 1) % buffer_size]
  BY <1>4, AroundFacts
<1>7. PICK f : f = SubSeq(c, 2, n)
  OBVIOUS
<1>8. f \in Seq(Item) /\ Len(f) = k /\ \A i \in 1 .. k : f[i] = c[i + 1]
  <2>1. \A i \in 2 .. n : c[i] \in Item
    BY <1>5
  <2>2. /\ f \in Seq(Item) /\ Len(f) = IF 2 <= n THEN n - 2 + 1 ELSE 0
        /\ \A i \in 1 .. n - 2 + 1 : f[i] = c[2 + i - 1]
    BY <1>7, <2>1, SubSeqProperties
  <2>3. Len(f) = k
    BY <1>2, <2>2
  <2>4. ASSUME NEW i \in 1 .. k PROVE f[i] = c[i + 1]
    <3>1. i \in 1 .. n - 2 + 1 /\ 2 + i - 1 = i + 1
      BY <1>2
    <3> QED BY <2>2, <3>1
  <2> QED BY <2>2, <2>3, <2>4
<1>9. ASSUME NEW i \in 1 .. k PROVE e[i] = f[i]
  <2>1. PICK x \in Int, y \in Int : x = h + 1 /\ y = i - 1
    OBVIOUS
  <2>2. ((x % buffer_size) + y) % buffer_size = (x + y) % buffer_size
    BY <1>1, ModSum
  <2>3. i + 1 \in 1 .. n /\ x + y = h + (i + 1) - 1 /\ g + i - 1 = g + y
    BY <1>2, <2>1
  <2>4. e[i] = b[(g + y) % buffer_size]
    BY <1>6, <2>3
  <2>5. f[i] = b[(h + (i + 1) - 1) % buffer_size]
    BY <1>5, <1>8, <2>3
  <2> QED BY <2>1, <2>2, <2>3, <2>4, <2>5
<1>10. e = f
  BY <1>6, <1>8, <1>9, SeqEqual
<1> QED BY <1>2, <1>3, <1>4, <1>7, <1>10

\* Reading the front item, and appending behind it.
LEMMA FrontItem ==
  ASSUME NEW c \in Seq(Item), NEW n \in Nat, n = Len(c), n > 0, NEW m \in Item
  PROVE  /\ c # <<>> /\ Head(c) = c[1] /\ Tail(c) = SubSeq(c, 2, n)
         /\ SubSeq(c, 2, n) \in Seq(Item) /\ Len(SubSeq(c, 2, n)) = n - 1
         /\ SubSeq(Append(c, m), 2, n + 1) = Append(SubSeq(c, 2, n), m)
<1>1. c # <<>>
  BY EmptySeq
<1>2. Head(c) = c[1] /\ Tail(c) = SubSeq(c, 2, n)
  BY <1>1, TailIsSubSeq
<1>3. PICK f \in Seq(Item) : f = SubSeq(c, 2, n) /\ Len(f) = n - 1
  BY <1>1, <1>2, HeadTailProperties
<1>4. PICK d \in Seq(Item) : d = Append(c, m)
  BY AppendProperties
<1>5. d # <<>> /\ Tail(d) = Append(Tail(c), m) /\ Len(d) = n + 1
  BY <1>1, <1>4, HeadTailAppend
<1>6. Tail(d) = SubSeq(d, 2, n + 1)
  BY <1>5, TailIsSubSeq
<1> QED BY <1>1, <1>2, <1>3, <1>4, <1>5, <1>6
-----------------------------------------------------------------------------
(* The queue is a fifo *)

LEMMA ContentsFacts ==
  ASSUME QueueInd
  PROVE  /\ Contents = Around(buffer, queue_head, queue_count)
         /\ Contents \in Seq(Item) /\ Len(Contents) = queue_count
<1>1. Contents = Around(buffer, queue_head, queue_count)
  BY DEF Contents, Around
<1>2. buffer \in [Slot -> Item]
  BY DEF QueueInd, QueueTypes, LocalTypes, Item
<1>3. PICK b \in [Slot -> Item], h \in Int, n \in Nat :
        b = buffer /\ h = queue_head /\ n = queue_count
  BY <1>2, RingFacts
<1>4. PICK c : c = Around(b, h, n)
  OBVIOUS
<1>5. c \in Seq(Item) /\ Len(c) = n
  BY <1>4, AroundFacts
<1> QED BY <1>1, <1>3, <1>4, <1>5

\* Only the task that runs can be about to take a message.
LEMMA LeavingGoes ==
  ASSUME QueueInd, NEW t \in Task, t = kernel_current_task,
         \A u \in Task : u # t => pc'[u] = pc[u],
         pc'[t] \in {"recv_load", "recv_store"} => t \in Receiver
  PROVE  /\ Leaving <=> pc[t] \in {"recv_load", "recv_store"}
         /\ Leaving' <=> pc'[t] \in {"recv_load", "recv_store"}
<1>1. ASSUME NEW u \in Receiver, u # t
      PROVE  pc[u] \notin {"recv_load", "recv_store"} /\ pc'[u] = pc[u]
  <2>1. u \in Task
    BY UseFacts DEF QueueInd, QueueTypes
  <2>2. pc[u] \notin Window
    BY <1>1, <2>1, OneInside
  <2> QED BY <1>1, <2>1, <2>2 DEF Window
<1>2. pc[t] \in {"recv_load", "recv_store"} => t \in Receiver
  <2>1. Caller(t, pc[t])
    BY DEF QueueInd, Callers
  <2> QED BY <2>1 DEF Caller, ReadStep
<1> QED BY <1>1, <1>2 DEF Leaving

\* A step that touches neither the ring nor what has been received.
LEMMA FifoStays ==
  ASSUME UNCHANGED ringVars, Leaving' <=> Leaving, \A r \in Receiver : data'[r] = data[r]
  PROVE  UNCHANGED <<fifo_q, fifo_got>>
<1>1. Contents' = Contents /\ queue_count' = queue_count
  BY DEF Contents, ringVars
<1>2. fifo_q' = fifo_q
  BY <1>1 DEF fifo_q
<1>3. fifo_got' = fifo_got
  BY DEF fifo_got
<1> QED BY <1>2, <1>3

LEMMA FifoSends ==
  ASSUME QueueInd, RingInd, NEW m \in Msg, msgqueue_do_send(m), queue_count < buffer_size,
         Leaving' <=> Leaving, \A r \in Receiver : data'[r] = data[r],
         queue_count' = queue_count + 1
  PROVE  Fifo!Send
<1>1. PICK b \in [Slot -> Item], h \in Int, n \in Nat, x \in Slot :
        b = buffer /\ h = queue_head /\ n = queue_count /\ x = queue_tail
  BY RingFacts DEF QueueInd, QueueTypes, LocalTypes, Item
<1>2. m \in Item
  BY DEF Item
<1>3. x = (h + n) % buffer_size /\ n < buffer_size
  BY <1>1 DEF RingInd
<1>4. PICK d : d = [b EXCEPT ![x] = m]
  OBVIOUS
<1>5. buffer' = d /\ queue_head' = h /\ queue_count' = n + 1
  BY <1>1, <1>4 DEF msgqueue_do_send
<1>6. Around(d, h, n + 1) = Append(Around(b, h, n), m)
  <2>1. PICK e \in Item : e = m
    BY <1>2
  <2>2. b \in [Slot -> Item] /\ h \in Int /\ n \in Nat /\ x \in Slot
    BY <1>1
  <2>3. d = [b EXCEPT ![(h + n) % buffer_size] = e]
    BY <1>3, <1>4, <2>1
  <2>4. e \in Item
    BY <2>1
  <2>5. Around([b EXCEPT ![(h + n) % buffer_size] = e], h, n + 1) = Append(Around(b, h, n), e)
    BY <1>3, <2>2, <2>4, AroundSend
  <2> QED BY <2>1, <2>3, <2>5
<1>7. Contents' = Append(Contents, m)
  <2>1. Contents' = Around(d, h, n + 1)
    BY <1>5 DEF Contents, Around
  <2>2. Contents = Around(b, h, n)
    BY <1>1, ContentsFacts
  <2> QED BY <1>6, <2>1, <2>2
<1>8. PICK c \in Seq(Item) : c = Contents /\ Len(c) = n
  BY <1>1, ContentsFacts
<1>9. Leaving => n > 0
  <2>1. SUFFICES ASSUME NEW t \in Receiver, pc[t] \in {"recv_load", "recv_store"} PROVE n > 0
    BY DEF Leaving
  <2>2. t \in Task
    BY UseFacts DEF QueueInd, QueueTypes
  <2> QED BY <1>1, <2>1, <2>2 DEF RingInd, Reading
<1>10. fifo_q' = Append(fifo_q, m) /\ Len(fifo_q) < buffer_size
  <2>1. buffer_size \in Int
    BY RingFacts
  <2>2. CASE Leaving
    <3>1. fifo_q = SubSeq(c, 2, n) /\ fifo_q' = SubSeq(Append(c, m), 2, n + 1)
      BY <1>1, <1>5, <1>7, <1>8, <2>2 DEF fifo_q
    <3>2. /\ Len(SubSeq(c, 2, n)) = n - 1
          /\ SubSeq(Append(c, m), 2, n + 1) = Append(SubSeq(c, 2, n), m)
      BY <1>1, <1>2, <1>8, <1>9, <2>2, FrontItem
    <3>3. fifo_q' = Append(fifo_q, m)
      BY <3>1, <3>2
    <3>4. Len(fifo_q) < buffer_size
      BY <1>1, <1>3, <2>1, <3>1, <3>2
    <3> QED BY <3>3, <3>4
  <2>3. CASE ~Leaving
    BY <1>3, <1>7, <1>8, <2>3 DEF fifo_q
  <2> QED BY <2>2, <2>3
<1>11. fifo_got' = fifo_got
  BY DEF fifo_got
<1> QED BY <1>10, <1>11 DEF Fifo!Send

\* A receiver reads: the message stays for the others, or is about to leave.
LEMMA FifoReads ==
  ASSUME QueueInd, RingInd, NEW t \in Task, NEW to, Quiet(t, "recv_read", to)
  PROVE  t \in Receiver /\ Fifo!Receive(t)
<1>1. /\ t = kernel_current_task /\ pc[t] = "recv_read"
      /\ pc'[t] = to /\ \A u \in Task : u # t => pc'[u] = pc[u]
  BY QuietHere
<1>2. /\ data' = [data EXCEPT ![t] = buffer[queue_head]] /\ UNCHANGED ringVars
  BY DEF Quiet, RingMoves
<1>3. t \in Receiver /\ Receiver \subseteq User /\ data \in [User -> Msg \union {NoMsg}]
  <2>1. Caller(t, "recv_read")
    BY <1>1 DEF QueueInd, Callers
  <2> QED BY <2>1, UseFacts DEF Caller, ReadStep, QueueInd, QueueTypes, LocalTypes
<1>4. queue_count > 0
  BY <1>1 DEF RingInd, Reading
<1>5. PICK n \in Nat, c \in Seq(Item) : n = queue_count /\ c = Contents /\ Len(c) = n
  BY RingFacts, ContentsFacts
<1>6. c[1] = buffer[queue_head]
  <2>1. c = Around(buffer, queue_head, n) /\ 1 \in 1 .. n
    BY <1>4, <1>5, ContentsFacts
  <2>2. c[1] = buffer[(queue_head + 1 - 1) % buffer_size]
    BY <2>1 DEF Around
  <2>3. queue_head \in 0 .. buffer_size - 1
    BY DEF QueueInd, QueueTypes, LocalTypes, Slot
  <2>4. PICK h \in 0 .. buffer_size - 1 : h = queue_head
    BY <2>3
  <2>5. h % buffer_size = h
    BY RingFacts, ModSmall
  <2>6. h \in Int /\ h + 1 - 1 = h
    BY RingFacts
  <2> QED BY <2>2, <2>4, <2>5, <2>6
<1>7. c # <<>> /\ Head(c) = c[1] /\ Tail(c) = SubSeq(c, 2, n)
  <2>1. NoMsg \in Item
    BY DEF Item
  <2> QED BY <1>4, <1>5, <2>1, FrontItem
<1>8. ~Leaving
  BY <1>1, <1>3, LeavingGoes
<1>9. fifo_q = c
  BY <1>5, <1>8 DEF fifo_q
<1>10. fifo_q' \in {fifo_q, Tail(fifo_q)}
  <2>1. Contents' = c /\ queue_count' = n
    BY <1>2, <1>5 DEF ringVars, Contents
  <2>2. fifo_q' = SubSeq(c, 2, n) \/ fifo_q' = c
    BY <2>1 DEF fifo_q
  <2> QED BY <1>7, <1>9, <2>2
<1>11. fifo_got' = [fifo_got EXCEPT ![t] = Head(fifo_q)]
  BY <1>2, <1>3, <1>6, <1>7, <1>9 DEF fifo_got
<1> QED BY <1>3, <1>7, <1>9, <1>10, <1>11 DEF Fifo!Receive

\* The head and the count follow.
LEMMA FifoStores ==
  ASSUME QueueInd, RingInd, NEW t \in Task, NEW to, Quiet(t, "recv_store", to),
         loaded = queue_count
  PROVE  UNCHANGED <<fifo_q, fifo_got>>
<1>1. /\ t = kernel_current_task /\ pc[t] = "recv_store"
      /\ pc'[t] = to /\ \A u \in Task : u # t => pc'[u] = pc[u]
  BY QuietHere
<1>2. /\ to = "recv_wake" /\ queue_head' = (queue_head + 1) % buffer_size
      /\ buffer' = buffer /\ data' = data
  BY DEF Quiet, RingMoves, next_head
<1>3. queue_count' = queue_count - 1 /\ queue_count > 0
  BY RingStore
<1>4. Leaving /\ ~Leaving'
  BY <1>1, <1>2, LeavingGoes
<1>5. PICK b \in [Slot -> Item], h \in Int, n \in Nat, g \in Int :
        b = buffer /\ h = queue_head /\ n = queue_count /\ g = queue_head'
  <2>1. queue_head + 1 \in Int
    BY RingFacts
  <2>2. queue_head' \in Slot /\ Slot \subseteq Int
    BY <1>2, <2>1, LocalFacts, RingFacts DEF Slot
  <2> QED BY <2>2, RingFacts DEF QueueInd, QueueTypes, LocalTypes, Item
<1>6. Around(b, g, n - 1) = SubSeq(Around(b, h, n), 2, n)
  BY <1>2, <1>3, <1>5, AroundStore
<1>7. Contents' = Around(b, g, n - 1)
  BY <1>2, <1>3, <1>5 DEF Contents, Around
<1>8. Contents = Around(b, h, n)
  BY <1>5, ContentsFacts
<1>9. fifo_q' = fifo_q
  BY <1>4, <1>5, <1>6, <1>7, <1>8 DEF fifo_q
<1>10. fifo_got' = fifo_got
  BY <1>2 DEF fifo_got
<1> QED BY <1>9, <1>10

LEMMA FifoQuiet ==
  ASSUME QueueInd, RingInd, NEW t \in Task, NEW from, NEW to, Quiet(t, from, to),
         from = "recv_store" => loaded = queue_count
  PROVE  UNCHANGED <<fifo_q, fifo_got>> \/ \E r \in Receiver : Fifo!Receive(r)
<1>1. CASE from = "recv_read"
  BY <1>1, FifoReads
<1>2. CASE from = "recv_store"
  BY <1>2, FifoStores
<1>3. CASE from # "recv_read" /\ from # "recv_store"
  <2>1. /\ t = kernel_current_task /\ pc[t] = from
        /\ pc'[t] = to /\ \A u \in Task : u # t => pc'[u] = pc[u]
    BY QuietHere
  <2>2. UNCHANGED ringVars
    BY <1>3 DEF Quiet, RingMoves
  <2>3. Leaving' <=> Leaving
    <3>1. to \in {"recv_load", "recv_store"} <=> from \in {"recv_load", "recv_store"}
      BY <1>3 DEF Quiet, RingMoves
    <3>2. to \in {"recv_load", "recv_store"} => t \in Receiver
      BY DEF Quiet, Caller, ReadStep
    <3> QED BY <2>1, <3>1, <3>2, LeavingGoes
  <2>4. data' = data
    BY <1>3 DEF Quiet, RingMoves
  <2> QED BY <2>2, <2>3, <2>4, FifoStays
<1> QED BY <1>1, <1>2, <1>3

LEMMA FifoSendDo ==
  ASSUME QueueInd, RingInd, NEW t \in Task, SendDo(t), ~msgqueue_is_full
  PROVE  Fifo!Send
<1>1. msgqueue_do_send(message[t]) /\ data' = data
  BY DEF SendDo
<1>2. /\ t = kernel_current_task /\ pc[t] = "send_do" /\ pc'[t] = "out"
      /\ \A u \in Task : u # t => pc'[u] = pc[u]
  BY SendDoHere
<1>3. queue_count < buffer_size /\ message[t] \in Msg
  BY <1>2, RingFacts DEF SendStep, RingInd, msgqueue_is_full
<1>4. Leaving' <=> Leaving
  BY <1>2, LeavingGoes
<1>5. queue_count' = queue_count + 1
  <2>1. queue_count + 1 \in 0 .. buffer_size /\ queue_count' = (queue_count + 1) % SizeMod
    BY <1>1, <1>3, RingFacts DEF msgqueue_do_send
  <2> QED BY <2>1, RingFacts
<1>6. PICK m \in Msg : m = message[t]
  BY <1>3
<1> QED BY <1>1, <1>3, <1>4, <1>5, <1>6, FifoSends

LEMMA FifoHandler ==
  ASSUME QueueInd, RingInd, NEW m \in Msg, msgqueue_send_from_isr(m)
  PROVE  Fifo!Send
<1>1. ~msgqueue_is_full /\ msgqueue_do_send(m) /\ UNCHANGED <<pc, data>>
  BY DEF msgqueue_send_from_isr, localVars
<1>2. queue_count < buffer_size
  BY <1>1, RingFacts DEF RingInd, msgqueue_is_full
<1>3. queue_count' = queue_count + 1
  <2>1. queue_count + 1 \in 0 .. buffer_size /\ queue_count' = (queue_count + 1) % SizeMod
    BY <1>1, <1>2, RingFacts DEF msgqueue_do_send
  <2> QED BY <2>1, RingFacts
<1>4. Leaving' <=> Leaving
  BY <1>1 DEF Leaving
<1> QED BY <1>1, <1>2, <1>3, <1>4, FifoSends

LEMMA FifoNext ==
  ASSUME QueueInd, RingInd, [Next]_queueVars, fresh'
  PROVE  [Fifo!Next]_<<fifo_q, fifo_got>>
<1>1. ASSUME UNCHANGED <<pc, ringVars, data>> PROVE UNCHANGED <<fifo_q, fifo_got>>
  <2>1. Leaving' <=> Leaving
    BY <1>1 DEF Leaving
  <2> QED BY <1>1, <2>1, FifoStays
<1>2. CASE UNCHANGED queueVars
  <2>1. UNCHANGED <<pc, ringVars, data>>
    BY <1>2 DEF queueVars, vars, localVars
  <2> QED BY <1>1, <2>1
<1>3. CASE TickInterrupt \/ ContextSwitch
  <2>1. UNCHANGED <<pc, ringVars, data>>
    BY <1>3 DEF TickInterrupt, tick_interrupt, ContextSwitch, context_switch, localVars
  <2> QED BY <1>1, <2>1
<1>4. ASSUME NEW t \in Task, Sleep(t) \/ SendBlock(t) \/ ReceiveBlock(t) \/ ReceiveWake(t)
      PROVE  UNCHANGED <<fifo_q, fifo_got>>
  <2>1. PICK from \in Step, to \in Step :
          /\ AtStep(t, from) /\ Goto(t, to)
          /\ {from, to} \intersect {"recv_load", "recv_store"} = {}
    BY <1>4 DEF Sleep, sleep_one_tick, SendBlock, ReceiveBlock, ReceiveWake, Step
  <2>2. UNCHANGED <<ringVars, data>>
    BY <1>4 DEF Sleep, SendBlock, ReceiveBlock, ReceiveWake, localVars
  <2>3. /\ t = kernel_current_task /\ pc[t] = from /\ pc'[t] = to
        /\ \A u \in Task : u # t => pc'[u] = pc[u]
    BY <2>1, Here, Goes
  <2>4. Leaving' <=> Leaving
    BY <2>1, <2>3, LeavingGoes
  <2> QED BY <2>2, <2>4, FifoStays
<1>5. CASE Next
  <2>1. ASSUME NEW t \in Task, SendDo(t) PROVE Fifo!Send
    <3>1. ~msgqueue_is_full
      BY <1>5, <2>1, SendDoHere, FreshSend
    <3> QED BY <2>1, <3>1, FifoSendDo
  <2>2. ASSUME NEW t \in Task, NEW from, NEW to, Quiet(t, from, to)
        PROVE  UNCHANGED <<fifo_q, fifo_got>> \/ \E r \in Receiver : Fifo!Receive(r)
    <3>1. from = "recv_store" => loaded = queue_count
      BY <1>5, <2>2, FreshStore
    <3> QED BY <2>2, <3>1, FifoQuiet
  <2> QED BY <1>3, <1>4, <1>5, <2>1, <2>2, QueueSteps, FifoHandler DEF Fifo!Next
<1> QED BY <1>2, <1>5, <1>1

-----------------------------------------------------------------------------
(* The theorems *)

LEMMA QueueInit ==
  ASSUME Init
  PROVE  QueueInd /\ RingInd /\ ReceiversSafe /\ SendersSafe /\ Fifo!Init /\ fresh = TRUE
<1>1. /\ use \in QueueUses /\ KernelStarted(Created, AttrOf) /\ pc = [t \in Task |-> "out"]
      /\ buffer = [i \in Slot |-> NoMsg]
      /\ queue_head = 0 /\ queue_tail = 0 /\ queue_count = 0 /\ loaded = 0
      /\ to_send = <<>> /\ to_receive = <<>> /\ receive_count = 0
      /\ message = [t \in User |-> NoMsg] /\ data = [t \in User |-> NoMsg]
      /\ fresh = TRUE
      /\ timeout = [t \in User |-> 0] /\ current_tick = [t \in User |-> 0]
  BY DEF Init
<1>2. PICK a \in [Task -> Attribute] : a = AttrOf
  BY <1>1, UseFacts
<1>3. /\ Lists(ready, blocked_curr, blocked_next, attr, <<>>)
      /\ kernel_current_task \in Task /\ AtFront(ready, attr, kernel_current_task)
  BY <1>1, <1>2, StartedLists
<1>4. /\ kernel_ticks = 0 /\ attr = AttrOf /\ ready_switch_next = FALSE
      /\ task_suspended_count = 0 /\ pendsv = FALSE
  BY <1>1 DEF KernelStarted
<1>5. 0 \in Tick /\ 0 \in Slot /\ 0 \in Count
  BY TickModAssumption, MsgQueueAssumption DEF Tick, Slot, Count
<1>6. LocalTypes
  BY <1>1, <1>5 DEF LocalTypes
<1>7. QueueTypes
  <2>1. pc \in [Task -> Step]
    BY <1>1 DEF Step
  <2>2. to_send \in Seq(Task) /\ to_receive \in Seq(Task)
    BY <1>1
  <2>3. ready_switch_next \in BOOLEAN /\ pendsv \in BOOLEAN
    BY <1>4
  <2> QED BY <1>1, <1>3, <1>4, <1>5, <1>6, <2>1, <2>2, <2>3 DEF QueueTypes
<1>8. Lists(ready, blocked_curr, blocked_next, attr, Waiting)
  <2>1. Waiting = <<>>
    BY <1>1 DEF Waiting
  <2> QED BY <1>3, <2>1
<1>9. FrontRuns
  BY <1>3 DEF FrontRuns
<1>10. Windows
  BY <1>1, <1>3, <1>4 DEF Windows, Window
<1>11. Callers
  BY <1>1 DEF Callers, Caller, SendStep, WaitStep, TryStep, ReadStep, Range
<1>12. Counted
  <2>1. CountedOf(pc) = {}
    BY <1>1 DEF CountedOf, CountedStep
  <2> QED BY <1>1, <2>1, FS_EmptySet DEF Counted
<1>13. QueueInd
  BY <1>7, <1>8, <1>9, <1>10, <1>11, <1>12 DEF QueueInd
<1>14. RingInd
  <2>1. queue_tail = (queue_head + queue_count) % buffer_size
    <3>1. 0 \in 0 .. buffer_size - 1
      BY <1>5 DEF Slot
    <3>2. 0 % buffer_size = 0
      BY <3>1, <1>13, RingFacts, ModSmall
    <3> QED BY <1>1, <3>2
  <2>2. queue_count <= buffer_size
    BY <1>1, <1>13, RingFacts
  <2> QED BY <1>1, <2>1, <2>2 DEF RingInd, SendStep, Reading
<1>15. ReceiversSafe /\ SendersSafe
  BY <1>1 DEF ReceiversSafe, SendersSafe
<1>16. Fifo!Init
  <2>1. Contents = <<>>
    BY <1>1, <1>13, ContentsFacts, EmptySeq
  <2>2. ~Leaving
    <3>1. Receiver \subseteq Task
      BY <1>1, UseFacts
    <3> QED BY <1>1, <3>1 DEF Leaving
  <2>3. fifo_q = <<>>
    BY <2>1, <2>2 DEF fifo_q
  <2>4. fifo_got = [r \in Receiver |-> NoMsg]
    BY <1>1, UseFacts DEF fifo_got
  <2> QED BY <2>3, <2>4 DEF Fifo!Init
<1> QED BY <1>1, <1>13, <1>14, <1>15, <1>16

LEMMA QueueTypeOK ==
  ASSUME QueueInd, fresh \in BOOLEAN
  PROVE  TypeOK
<1>1. /\ kernel_ticks \in Tick /\ kernel_current_task \in Task
      /\ ready_switch_next \in BOOLEAN /\ pendsv \in BOOLEAN
      /\ attr \in [Task -> Attribute] /\ ready \in ReadyType
      /\ blocked_curr \in Seq(Sleeper) /\ blocked_next \in Seq(Sleeper)
  BY DEF QueueInd, QueueTypes, Lists
<1>2. task_suspended_count \in Nat
  BY DEF QueueInd, Windows
<1>3. KernelTypeOK
  BY <1>1, <1>2 DEF KernelTypeOK, ReadyType
<1>4. receive_count \in 0 .. Cardinality(Receiver)
  <2>1. Receiver \subseteq Task
    BY UseFacts DEF QueueInd, QueueTypes
  <2>2. IsFiniteSet(Receiver)
    BY <2>1, TaskIsFinite, FS_Subset
  <2>3. CountedOf(pc) \subseteq Receiver
    <3>1. SUFFICES ASSUME NEW t \in Task, pc[t] \in CountedStep PROVE t \in Receiver
      BY DEF CountedOf
    <3>2. Caller(t, pc[t]) /\ use.blocking \subseteq Receiver
      BY UseFacts DEF QueueInd, QueueTypes, Callers
    <3> QED BY <3>1, <3>2 DEF Caller, CountedStep, WaitStep, TryStep, ReadStep
  <2>4. /\ IsFiniteSet(CountedOf(pc))
        /\ Cardinality(CountedOf(pc)) <= Cardinality(Receiver)
    BY <2>2, <2>3, FS_Subset
  <2>5. Cardinality(CountedOf(pc)) \in Nat /\ Cardinality(Receiver) \in Nat
    BY <2>2, <2>4, FS_CardinalityType
  <2> QED BY <2>4, <2>5 DEF QueueInd, Counted
<1> QED BY <1>1, <1>3, <1>4 DEF TypeOK, QueueInd, QueueTypes, LocalTypes

\* The inductive invariant of the queue.
FreshInd ==
  /\ QueueInd /\ fresh \in BOOLEAN
  /\ fresh => RingInd /\ ReceiversSafe /\ SendersSafe
  /\ OneSender /\ ~use.isr => fresh /\ SeenInd

LEMMA FreshKeeps ==
  ASSUME FreshInd, [Next]_queueVars
  PROVE  FreshInd' /\ (fresh' => fresh)
<1>1. fresh' \in BOOLEAN /\ (fresh' => fresh)
  <2>1. fresh \in BOOLEAN
    BY DEF FreshInd
  <2>2. CASE UNCHANGED queueVars
    BY <2>1, <2>2 DEF queueVars
  <2>3. CASE Next
    <3>1. fresh' = (fresh /\ Fresh)
      BY <2>3 DEF Next
    <3> QED BY <3>1, Zenon
  <2> QED BY <2>2, <2>3
<1>2. QueueInd'
  BY QueueNext DEF FreshInd
<1>3. ASSUME fresh' PROVE RingInd' /\ ReceiversSafe' /\ SendersSafe'
  <2>1. RingInd /\ ReceiversSafe /\ SendersSafe /\ QueueInd
    BY <1>1, <1>3 DEF FreshInd
  <2> QED BY <1>3, <2>1, RingNext, SafeNext
<1>4. ASSUME OneSender', ~(use'.isr) PROVE fresh' /\ SeenInd'
  <2>1. use' = use
    BY DEF Next, queueVars
  <2>2. OneSender /\ ~use.isr
    BY <1>4, <2>1 DEF OneSender
  <2>3. QueueInd /\ RingInd /\ fresh /\ SeenInd
    BY <2>2 DEF FreshInd
  <2>4. SeenInd'
    BY <2>2, <2>3, SeenNext
  <2>5. fresh'
    <3>1. CASE UNCHANGED queueVars
      BY <2>3, <3>1 DEF queueVars
    <3>2. CASE Next
      BY <2>3, <3>2, SeenIsFresh DEF Next
    <3> QED BY <3>1, <3>2
  <2> QED BY <2>4, <2>5
<1> QED BY <1>1, <1>2, <1>3, <1>4 DEF FreshInd

LEMMA QueueInvariance == FairSpec => []FreshInd
<1>1. Init => FreshInd
  <2>1. Init => SeenInd
    BY DEF Init, SeenInd
  <2> QED BY <2>1, QueueInit DEF FreshInd
<1>2. FreshInd /\ [Next]_queueVars => FreshInd'
  BY FreshKeeps
<1> QED BY <1>1, <1>2, PTL DEF FairSpec, Spec

\* Outside of the windows of the queue's functions no receiver waits for a message
\* that is there and no single sender for room that is there, where they cannot be
\* preempted by those that bring it, as long as no count is used that was another
\* one by then; and with one sender and no handler that sends none ever is.
THEOREM NobodyStranded == FairSpec => []MsgQueueInv
<1>1. FreshInd => MsgQueueInv
  <2>1. SUFFICES ASSUME FreshInd PROVE TypeOK /\ FreshAlone /\ NoReceiverStranded /\ NoSenderStranded
    BY DEF MsgQueueInv
  <2>2. NoReceiverStranded
    BY <2>1 DEF FreshInd, NoReceiverStranded, ReceiversSafe, msgqueue_is_empty
  <2>3. NoSenderStranded
    <3>1. SUFFICES ASSUME fresh, task_suspended_count = 0, to_send # <<>>, OneSender,
                          Above(use.senders, Receiver)
                   PROVE  queue_count = buffer_size
      BY DEF NoSenderStranded, msgqueue_is_full
    <3>2. pc[kernel_current_task] # "recv_wake"
      BY <2>1, <3>1 DEF FreshInd, QueueInd, Windows, Window
    <3> QED BY <2>1, <3>1, <3>2 DEF FreshInd, SendersSafe
  <2> QED BY <2>1, <2>2, <2>3, QueueTypeOK DEF FreshInd, FreshAlone
<1> QED BY <1>1, QueueInvariance, PTL

\* The queue implements the fifo with any tasks that send and with handlers that do:
\* what is received is what was sent, in that order, nothing is lost, and nothing is
\* overwritten, up to the first use of a count that was another one by then.
THEOREM MessagesInOrder == FairSpec => FifoSpec
<1>1. Init => Fifo!Init
  BY QueueInit
<1>2. FreshInd /\ [Next]_queueVars => [fresh' => Fifo!Next]_<<fifo_q, fifo_got>>
  <2>1. SUFFICES ASSUME FreshInd, [Next]_queueVars, fresh'
                 PROVE  [Fifo!Next]_<<fifo_q, fifo_got>>
    OBVIOUS
  <2>2. QueueInd /\ RingInd
    BY <2>1, FreshKeeps DEF FreshInd
  <2> QED BY <2>1, <2>2, FifoNext
<1> QED BY <1>1, <1>2, QueueInvariance, PTL DEF FairSpec, Spec, FifoSpec

\* The queue of one sender, to which no handler sends, is a fifo without a condition,
\* whatever its receivers are and however they wait.
THEOREM OneSenderInOrder == FairSpec /\ OneSender /\ ~use.isr => IsFifo
<1> DEFINE Alone == OneSender /\ ~use.isr
<1>1. Init => Fifo!Init
  BY QueueInit
<1>2. Alone /\ [Next]_queueVars => Alone'
  <2>1. [Next]_queueVars => use' = use
    BY DEF Next, queueVars
  <2> QED BY <2>1 DEF OneSender
<1>3. FreshInd /\ Alone /\ [Next]_queueVars => [Fifo!Next]_<<fifo_q, fifo_got>>
  <2>1. SUFFICES ASSUME FreshInd, Alone, [Next]_queueVars
                 PROVE  [Fifo!Next]_<<fifo_q, fifo_got>>
    OBVIOUS
  <2>2. FreshInd' /\ Alone'
    BY <1>2, <2>1, FreshKeeps
  <2>3. fresh'
    BY <2>2 DEF FreshInd
  <2>4. QueueInd /\ RingInd
    BY <2>1 DEF FreshInd
  <2> QED BY <2>1, <2>3, <2>4, FifoNext
<1> HIDE DEF Alone
<1>4. FairSpec /\ Alone => IsFifo
  BY <1>1, <1>2, <1>3, QueueInvariance, PTL DEF FairSpec, Spec, IsFifo, Fifo!Spec
<1> QED BY <1>4 DEF Alone

=============================================================================
