------------------------------ MODULE MsgQueue ------------------------------
(***************************************************************************)
(* One message queue (kernel/msg_queue.c): tasks that send and receive,    *)
(* and a handler that sends.  A receiver that does not find itself the     *)
(* last one waiting reads the front message and leaves it in the queue.    *)
(*                                                                         *)
(* The room is tested before the atomic block of a sender, and the count   *)
(* is decremented outside of one.  fresh is a history: nobody has gone on  *)
(* with a value of the count that was another one by then.  What the queue *)
(* promises it promises as long as that is so.                             *)
(***************************************************************************)
EXTENDS Sync

CONSTANTS
  buffer_size,
  Msg,          \* the messages
  NoMsg,        \* what the buffer holds before it is written
  SizeMod,      \* the number of values of size_t
  Sender,       \* the tasks that send
  Receiver      \* and those that receive

\* The systems whose object is a message queue.
QueueUses == {u \in Uses : u.object = "msg_queue"}

\* senders are the tasks that call msgqueue_send, and msgs what is sent; blocking
\* are the tasks that call msgqueue_receive, timeouts[t] the arguments t calls
\* msgqueue_try_receive with; isr says whether a handler sends.
ASSUME MsgQueueAssumption ==
  /\ buffer_size \in Nat \ {0} /\ SizeMod \in Nat /\ SizeMod > buffer_size
  /\ NoMsg \notin Msg
  /\ Sender \subseteq User /\ Receiver \subseteq User
  /\ \A u \in QueueUses :
       /\ u.msgs \subseteq Msg
       /\ u.senders \subseteq Sender /\ u.blocking \subseteq Receiver
       /\ u.timeouts \in [Receiver -> SUBSET Tick]
       /\ u.isr \in BOOLEAN

Slot == 0 .. buffer_size - 1
Count == 0 .. SizeMod - 1

VARIABLES
  buffer,
  queue_head,
  queue_tail,
  queue_count,
  to_send,           \* tasks_waiting_to_send, a stack
  to_receive,        \* tasks_waiting_to_receive, a stack
  receive_count,     \* task_waiting_to_receive_count
  message,           \* message[t]: the message t sends
  data,              \* data[t]: the one it has received last
  loaded,            \* the value of queue_count a receiver decrements
  timeout,
  current_tick,
  fresh

ringVars == <<buffer, queue_head, queue_tail, queue_count>>
waitVars == <<to_send, to_receive, receive_count>>
localVars == <<message, data, loaded, timeout, current_tick>>
vars == <<kernelVars, pc, ringVars, waitVars, localVars>>

Step == {"out", "sleep_yield",
         "send_test", "send_suspend", "send_block", "send_resume", "send_yield",
         "send_do",
         "recv_count", "try_count", "recv_test", "try_test", "try_time",
         "try_yield", "try_giveup",
         "recv_wait", "recv_block", "recv_wait_resume", "recv_wait_yield",
         "recv_suspend", "recv_uncount", "recv_read", "recv_load", "recv_store",
         "recv_wake", "recv_resume", "recv_more", "recv_yield"}

\* The types of the queue and of what its users hold in their locals.
TypeOK ==
  /\ KernelTypeOK
  /\ use \in QueueUses
  /\ pc \in [Task -> Step]
  /\ buffer \in [Slot -> Msg \union {NoMsg}]
  /\ queue_head \in Slot /\ queue_tail \in Slot
  /\ queue_count \in Count /\ loaded \in Count
  /\ to_send \in Seq(Task) /\ to_receive \in Seq(Task)
  /\ receive_count \in 0 .. Cardinality(Receiver)
  /\ message \in [User -> Msg \union {NoMsg}] /\ data \in [User -> Msg \union {NoMsg}]
  /\ timeout \in [User -> Tick] /\ current_tick \in [User -> Tick]
  /\ fresh \in BOOLEAN

Init ==
  /\ use \in QueueUses
  /\ KernelStarted(Created, AttrOf)
  /\ pc = [t \in Task |-> "out"]
  /\ buffer = [i \in Slot |-> NoMsg]
  /\ queue_head = 0 /\ queue_tail = 0 /\ queue_count = 0
  /\ to_send = <<>> /\ to_receive = <<>> /\ receive_count = 0
  /\ message = [t \in User |-> NoMsg] /\ data = [t \in User |-> NoMsg]
  /\ loaded = 0
  /\ timeout = [t \in User |-> 0]
  /\ current_tick = [t \in User |-> 0]
  /\ fresh = TRUE

msgqueue_is_empty == queue_count = 0

msgqueue_is_full == queue_count = buffer_size

-----------------------------------------------------------------------------
(* Sending *)

\* Mutant of receivers_woken: one receiver is woken for one message.
WokenFirst == IF to_receive = <<>> THEN <<>> ELSE <<Head(to_receive)>>

receivers_woken == to_receive

msgqueue_do_send(m) ==
  /\ buffer' = [buffer EXCEPT ![queue_tail] = m]
  /\ queue_tail' = (queue_tail + 1) % buffer_size
  /\ queue_count' = (queue_count + 1) % SizeMod
  /\ ready' = make_all_ready(ready, receivers_woken)
  /\ to_receive' = SubSeq(to_receive, Len(receivers_woken) + 1, Len(to_receive))
  /\ UnchangedScheduler
  /\ UNCHANGED <<queue_head, to_send, receive_count>>

CallSend(t, m) ==
  /\ AtStep(t, "out") /\ t \in use.senders /\ m \in use.msgs
  /\ message' = [message EXCEPT ![t] = m]
  /\ Goto(t, "send_test")
  /\ UNCHANGED <<kernelVars, ringVars, waitVars, data, loaded, timeout, current_tick>>

SendTest(t) ==
  /\ AtStep(t, "send_test")
  /\ Goto(t, IF msgqueue_is_full THEN "send_suspend" ELSE "send_do")
  /\ UNCHANGED <<kernelVars, ringVars, waitVars, localVars>>

SendSuspend(t) ==
  /\ AtStep(t, "send_suspend")
  /\ task_suspend_all
  /\ Goto(t, "send_block")
  /\ UNCHANGED <<ringVars, waitVars, localVars>>

SendBlock(t) ==
  /\ AtStep(t, "send_block")
  /\ wait_front(to_send, stack_list_push(to_send, front_task))
  /\ Goto(t, "send_resume")
  /\ UNCHANGED <<ringVars, to_receive, receive_count, localVars>>

SendResume(t) ==
  /\ AtStep(t, "send_resume")
  /\ task_resume_all
  /\ Goto(t, "send_yield")
  /\ UNCHANGED <<ringVars, waitVars, localVars>>

SendYield(t) ==
  /\ AtStep(t, "send_yield")
  /\ task_yield
  /\ Goto(t, "send_test")
  /\ UNCHANGED <<ringVars, waitVars, localVars>>

\* The atomic block: nobody looks again whether there is still room.
SendDo(t) ==
  /\ AtStep(t, "send_do")
  /\ msgqueue_do_send(message[t])
  /\ message' = [message EXCEPT ![t] = NoMsg]
  /\ Goto(t, "out")
  /\ UNCHANGED <<data, loaded, timeout, current_tick>>

\* The handler tests for room before it masks the interrupts; no task and no other
\* user of the queue runs before it returns.
msgqueue_send_from_isr(m) ==
  /\ use.isr /\ m \in use.msgs
  /\ ~msgqueue_is_full
  /\ msgqueue_do_send(m)
  /\ UNCHANGED <<pc, localVars>>

-----------------------------------------------------------------------------
(* Receiving: msgqueue_do_receive, "try" while it has a timeout *)

CallReceive(t) ==
  /\ AtStep(t, "out") /\ t \in use.blocking
  /\ Goto(t, "recv_count")
  /\ UNCHANGED <<kernelVars, ringVars, waitVars, localVars>>

CallTryReceive(t) ==
  /\ AtStep(t, "out") /\ t \in Receiver
  /\ \E n \in use.timeouts[t] : timeout' = [timeout EXCEPT ![t] = n]
  /\ current_tick' = [current_tick EXCEPT ![t] = kernel_ticks]
  /\ Goto(t, "try_count")
  /\ UNCHANGED <<kernelVars, ringVars, waitVars, message, data, loaded>>

ReceiveCount(t) ==
  /\ \/ AtStep(t, "recv_count") /\ Goto(t, "recv_test")
     \/ AtStep(t, "try_count") /\ Goto(t, "try_test")
  /\ receive_count' = receive_count + 1
  /\ UNCHANGED <<kernelVars, ringVars, to_send, to_receive, localVars>>

ReceiveTest(t) ==
  /\ \/ AtStep(t, "recv_test") /\ Goto(t, IF msgqueue_is_empty THEN "recv_wait" ELSE "recv_suspend")
     \/ AtStep(t, "try_test") /\ Goto(t, IF msgqueue_is_empty THEN "try_time" ELSE "recv_suspend")
  /\ UNCHANGED <<kernelVars, ringVars, waitVars, localVars>>

\* The tick count is read once here and twice by the code.  When the tick comes
\* between its readings the call does what it does when the tick comes just before.
TryTime(t) ==
  /\ AtStep(t, "try_time")
  /\ CASE timeout[t] = 0 -> Goto(t, "try_giveup") /\ UNCHANGED localVars
       [] timeout[t] > 0 /\ ~tick_after(kernel_ticks, (current_tick[t] + 1) % TickMod) ->
            Goto(t, "try_yield") /\ UNCHANGED localVars
       [] OTHER ->
            /\ current_tick' = [current_tick EXCEPT ![t] = kernel_ticks]
            /\ timeout' = [timeout EXCEPT ![t] = @ - 1]
            /\ Goto(t, "try_test")
            /\ UNCHANGED <<message, data, loaded>>
  /\ UNCHANGED <<kernelVars, ringVars, waitVars>>

TryYield(t) ==
  /\ AtStep(t, "try_yield")
  /\ task_yield
  /\ Goto(t, "try_test")
  /\ UNCHANGED <<ringVars, waitVars, localVars>>

\* The locals of a call that has ended are not kept.
LocalsDead(t) ==
  /\ timeout' = [timeout EXCEPT ![t] = 0]
  /\ current_tick' = [current_tick EXCEPT ![t] = 0]

counted_off == receive_count - 1

TryGiveUp(t) ==
  /\ AtStep(t, "try_giveup")
  /\ receive_count' = counted_off
  /\ Goto(t, "out")
  /\ LocalsDead(t)
  /\ UNCHANGED <<kernelVars, ringVars, to_send, to_receive, message, data, loaded>>

ReceiveWait(t) ==
  /\ AtStep(t, "recv_wait")
  /\ task_suspend_all
  /\ Goto(t, "recv_block")
  /\ UNCHANGED <<ringVars, waitVars, localVars>>

ReceiveBlock(t) ==
  /\ AtStep(t, "recv_block")
  /\ wait_front(to_receive, stack_list_push(to_receive, front_task))
  /\ Goto(t, "recv_wait_resume")
  /\ UNCHANGED <<ringVars, to_send, receive_count, localVars>>

ReceiveWaitResume(t) ==
  /\ AtStep(t, "recv_wait_resume")
  /\ task_resume_all
  /\ Goto(t, "recv_wait_yield")
  /\ UNCHANGED <<ringVars, waitVars, localVars>>

ReceiveWaitYield(t) ==
  /\ AtStep(t, "recv_wait_yield")
  /\ task_yield
  /\ Goto(t, "recv_test")
  /\ UNCHANGED <<ringVars, waitVars, localVars>>

ReceiveSuspend(t) ==
  /\ AtStep(t, "recv_suspend")
  /\ task_suspend_all
  /\ Goto(t, "recv_uncount")
  /\ LocalsDead(t)
  /\ UNCHANGED <<ringVars, waitVars, message, data, loaded>>

ReceiveUncount(t) ==
  /\ AtStep(t, "recv_uncount")
  /\ receive_count' = receive_count - 1
  /\ Goto(t, "recv_read")
  /\ UNCHANGED <<kernelVars, ringVars, to_send, to_receive, localVars>>

last_receiver == receive_count = 0

ReceiveRead(t) ==
  /\ AtStep(t, "recv_read")
  /\ data' = [data EXCEPT ![t] = buffer[queue_head]]
  /\ Goto(t, IF last_receiver THEN "recv_load" ELSE "recv_resume")
  /\ UNCHANGED <<kernelVars, ringVars, waitVars, message, loaded, timeout, current_tick>>

\* --(queue_count) outside of an atomic block.  The handler that may come in
\* between does not touch queue_head, which is written just before.
ReceiveLoad(t) ==
  /\ AtStep(t, "recv_load")
  /\ loaded' = queue_count
  /\ Goto(t, "recv_store")
  /\ UNCHANGED <<kernelVars, ringVars, waitVars, message, data, timeout, current_tick>>

\* Mutant of next_head: the head does not wrap where the tail does.
HeadStops == IF queue_head + 1 < buffer_size THEN queue_head + 1 ELSE queue_head

next_head == (queue_head + 1) % buffer_size

ReceiveStore(t) ==
  /\ AtStep(t, "recv_store")
  /\ queue_head' = next_head
  /\ queue_count' = (loaded - 1) % SizeMod
  /\ loaded' = 0
  /\ Goto(t, "recv_wake")
  /\ UNCHANGED <<kernelVars, buffer, queue_tail, waitVars, message, data, timeout,
                 current_tick>>

\* Mutant of sender_woken: no sender is woken.
NoSenderWoken == FALSE

sender_woken == to_send # <<>>

ReceiveWake(t) ==
  /\ AtStep(t, "recv_wake")
  /\ IF sender_woken
       THEN ready' = make_ready(ready, Head(to_send)) /\ to_send' = Tail(to_send)
       ELSE UNCHANGED <<ready, to_send>>
  /\ UnchangedScheduler
  /\ Goto(t, "recv_resume")
  /\ UNCHANGED <<ringVars, to_receive, receive_count, localVars>>

ReceiveResume(t) ==
  /\ AtStep(t, "recv_resume")
  /\ task_resume_all
  /\ Goto(t, "recv_more")
  /\ UNCHANGED <<ringVars, waitVars, localVars>>

ReceiveMore(t) ==
  /\ AtStep(t, "recv_more")
  /\ Goto(t, IF receive_count # 0 THEN "recv_yield" ELSE "out")
  /\ UNCHANGED <<kernelVars, ringVars, waitVars, localVars>>

ReceiveYield(t) ==
  /\ AtStep(t, "recv_yield")
  /\ task_yield
  /\ Goto(t, "out")
  /\ UNCHANGED <<ringVars, waitVars, localVars>>

-----------------------------------------------------------------------------

Send(t) ==
  \/ \E m \in Msg : CallSend(t, m)
  \/ SendTest(t) \/ SendSuspend(t) \/ SendBlock(t) \/ SendResume(t)
  \/ SendYield(t) \/ SendDo(t)

Receive(t) ==
  \/ CallReceive(t) \/ CallTryReceive(t)
  \/ ReceiveCount(t) \/ ReceiveTest(t)
  \/ TryTime(t) \/ TryYield(t) \/ TryGiveUp(t)
  \/ ReceiveWait(t) \/ ReceiveBlock(t) \/ ReceiveWaitResume(t) \/ ReceiveWaitYield(t)
  \/ ReceiveSuspend(t) \/ ReceiveUncount(t) \/ ReceiveRead(t) \/ ReceiveLoad(t)
  \/ ReceiveStore(t) \/ ReceiveWake(t) \/ ReceiveResume(t) \/ ReceiveMore(t)
  \/ ReceiveYield(t)

Sleep(t) == sleep_one_tick(t, "out", "sleep_yield") /\ UNCHANGED <<ringVars, waitVars, localVars>>
SleepYield(t) == sleep_yield(t, "sleep_yield", "out") /\ UNCHANGED <<ringVars, waitVars, localVars>>

\* Bound: a receiver in msgqueue_try_receive is not kept from the CPU for half
\* the range of the tick count.
TryInTime ==
  \A t \in Receiver : pc[t] \in {"try_count", "try_test", "try_time", "try_yield"}
    => 2 * ((kernel_ticks - current_tick[t]) % TickMod) < TickMod

TickInterrupt == TryInTime /\ tick_interrupt /\ UNCHANGED <<ringVars, waitVars, localVars>>
ContextSwitch == context_switch /\ UNCHANGED <<ringVars, waitVars, localVars>>
IdleYield == idle_yield /\ UNCHANGED <<ringVars, waitVars, localVars>>

\* A sender that sends finds room, and a receiver that stores the decremented count
\* finds the one it has loaded.
Fresh ==
  \A t \in User :
    /\ pc[t] = "send_do" /\ pc'[t] # "send_do" => ~msgqueue_is_full
    /\ pc[t] = "recv_store" /\ pc'[t] # "recv_store" => loaded = queue_count

Next ==
  /\ \/ TickInterrupt \/ ContextSwitch \/ IdleYield
     \/ \E m \in Msg : msgqueue_send_from_isr(m)
     \/ \E t \in User : Send(t) \/ Receive(t) \/ Sleep(t) \/ SleepYield(t)
  /\ fresh' = (fresh /\ Fresh)
  /\ UNCHANGED use

queueVars == <<vars, fresh, use>>

Spec == Init /\ [][Next]_queueVars

\* The timer runs, pending interrupts are taken, and a task that gets the CPU
\* again and again makes progress.  That tasks send and receive again and again
\* is up to the system; it is assumed here.
FairSpec ==
  /\ Spec
  /\ WF_vars(TickInterrupt) /\ WF_vars(ContextSwitch) /\ WF_vars(IdleYield)
  /\ \A t \in User : SF_vars(Send(t) \/ Receive(t) \/ SleepYield(t))

-----------------------------------------------------------------------------

OneSender == \A s, t \in use.senders : s = t

\* With one sender, and no handler that sends, no count changes under a task that
\* has seen it: what follows needs no condition there.
FreshAlone == OneSender /\ ~use.isr => fresh

\* No task of A is preempted by one of B.
Above(A, B) == \A a \in A, b \in B : attr[a].priority > attr[b].priority

\* Outside of the windows of the queue's functions no receiver waits while
\* there is a message, when the receivers are above the senders and no handler sends.
NoReceiverStranded ==
  fresh /\ task_suspended_count = 0 /\ to_receive # <<>>
    /\ ~use.isr /\ Above(use.blocking, use.senders)
    => msgqueue_is_empty

\* And no sender waits while there is room, when it is the only one and above the
\* receivers.
NoSenderStranded ==
  fresh /\ task_suspended_count = 0 /\ to_send # <<>>
    /\ OneSender /\ Above(use.senders, Receiver)
    => msgqueue_is_full

\* The types of the queue, and nobody waits for what is there.
MsgQueueInv ==
  use \in QueueUses => TypeOK /\ FreshAlone /\ NoReceiverStranded /\ NoSenderStranded

OneSenderAbove == use \in QueueUses /\ OneSender /\ Above(use.senders, Receiver)

\* A sender above the receivers that waits for room is woken, if a receiver gets
\* to receive again and again.  (Senders wait in a stack: this is about one.)
SenderServed ==
  OneSenderAbove /\ []<>(\E r \in Receiver : AtStep(r, "out"))
    => \A t \in Sender : t \in Range(to_send) ~> t \notin Range(to_send)

-----------------------------------------------------------------------------
(* The queue implements MsgFifo.  A message has left the queue when its last *)
(* receiver has read it, although head and count are updated later.          *)

Leaving == \E t \in Receiver : pc[t] \in {"recv_load", "recv_store"}

Contents == [i \in 1 .. queue_count |-> buffer[(queue_head + i - 1) % buffer_size]]

fifo_q == IF Leaving THEN SubSeq(Contents, 2, queue_count) ELSE Contents
fifo_got == [r \in Receiver |-> data[r]]

Fifo == INSTANCE MsgFifo WITH Size <- buffer_size, q <- fifo_q, got <- fifo_got

\* Messages are received in the order they were sent, none is received that
\* was not sent, and none is lost or overwritten, as long as no value of the count
\* is used that was another one by then.
FifoSpec == Fifo!Init /\ [][fresh' => Fifo!Next]_<<fifo_q, fifo_got>>

\* The same without a condition.
IsFifo == Fifo!Spec

=============================================================================
