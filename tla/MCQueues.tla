------------------------------ MODULE MCQueues ------------------------------
(***************************************************************************)
(* Instances of MsgQueue and of EventGroup for TLC: in one run, of which   *)
(* the initial state says which of the two objects the tasks use.  The     *)
(* idle task is the last one.                                              *)
(***************************************************************************)
EXTENDS MsgQueue, EventGroup, TLC

CONSTANTS t1, t2, t3, idle, m1, m2

\* The object that is not used has one initial state, and stays in it.
ObjectsInit ==
  \/ /\ Init
     /\ events = {} /\ waiting = <<>> /\ arg = [t \in Task |-> {}]
  \/ /\ EventGroupInit
     /\ buffer = [i \in Slot |-> NoMsg]
     /\ queue_head = 0 /\ queue_tail = 0 /\ queue_count = 0
     /\ to_send = <<>> /\ to_receive = <<>> /\ receive_count = 0
     /\ message = [t \in User |-> NoMsg] /\ data = [t \in User |-> NoMsg] /\ loaded = 0
     /\ timeout = [t \in User |-> 0] /\ current_tick = [t \in User |-> 0]
     /\ fresh = TRUE

OnQueue == use \in QueueUses /\ UNCHANGED <<groupVars, use>>
OnEvents == use \in EventUses /\ UNCHANGED <<ringVars, waitVars, localVars, fresh, use>>

ObjectsNext ==
  \/ OnQueue /\ Next
  \/ OnEvents /\ EventGroupNext

objectsVars == <<queueVars, groupVars>>

\* Without the history and the use, which no step changes alone.
stateVars == <<vars, groupVars>>

ObjectsSpec == ObjectsInit /\ [][ObjectsNext]_objectsVars

\* With the fairness of the two modules.
ObjectsFairSpec ==
  /\ ObjectsSpec
  /\ WF_stateVars((TickInterrupt /\ OnQueue) \/ (EventTick /\ OnEvents))
  /\ WF_stateVars((ContextSwitch /\ OnQueue) \/ (EventSwitch /\ OnEvents))
  /\ WF_stateVars((IdleYield /\ OnQueue) \/ (EventIdleYield /\ OnEvents))
  /\ \A t \in User :
       SF_stateVars(\/ OnQueue /\ (Send(t) \/ Receive(t) \/ SleepYield(t))
                    \/ OnEvents /\ (Listening(t) \/ Trigger(t) \/ EventSleepYield(t)))

-----------------------------------------------------------------------------

RR(p) == [priority |-> p, sched_method |-> "RR"]

Tasks == <<t1, t2, t3, idle>>

Ranks(p1, p2, p3) == (t1 :> RR(p1)) @@ (t2 :> RR(p2)) @@ (t3 :> RR(p3)) @@ (idle :> RR(0))

-----------------------------------------------------------------------------
(* The queue: t1 sends, and t2 and t3 receive *)

NoTry == [r \in Receiver |-> {}]
OnePolls(timeouts) == [r \in Receiver |-> IF r = t2 THEN timeouts ELSE {}]

QueueUse(ranks, senders, blocking, msgs, timeouts, isr) ==
  [object |-> "msg_queue", attr |-> ranks, sleepers |-> {}, senders |-> senders,
   blocking |-> blocking, msgs |-> msgs, timeouts |-> timeouts, isr |-> isr,
   triggers |-> [t \in User |-> {}]]

\* A sender of higher priority than the receiver, which polls; two receivers of
\* higher priority than the sender, which wait, of one priority and of two; a
\* handler that sends to a receiver that polls; and two senders of one priority, of
\* which one also polls.
Queues ==
  {[QueueUse(Ranks(2, 1, 0), {t1}, {}, {m1}, OnePolls({0, 1}), FALSE) EXCEPT !.sleepers = {t1}],
   QueueUse(Ranks(1, 2, 2), {t1}, {t2, t3}, {m1}, NoTry, FALSE),
   QueueUse(Ranks(1, 2, 3), {t1}, {t2, t3}, Msg, NoTry, FALSE),
   QueueUse(Ranks(0, 1, 0), {}, {}, Msg, OnePolls({0, 1}), TRUE),
   QueueUse(Ranks(1, 1, 0), {t1, t2}, {}, {m1}, OnePolls({0}), FALSE)}

\* A handler sends to one receiver that polls.
HandlerSending == {QueueUse(Ranks(0, 1, 0), {}, {}, Msg, OnePolls({0, 1}), TRUE)}

-----------------------------------------------------------------------------
(* The event group: t2 and t3 listen, and t1 triggers.  They are preempted by *)
(* nobody.                                                                     *)

OneByOne == [t \in User |-> IF t = t1 THEN {{"timer"}, {"custom"}} ELSE {}]

\* One listener with either logic, and two with the logic "any".
Groups ==
  {[object |-> "event_group", attr |-> Ranks(1, 2, 2), sleepers |-> {t2, t3},
    events |-> {"timer", "custom"}, logic |-> l[1], listeners |-> l[2],
    triggers |-> OneByOne] :
      l \in {<<"all", {t2}>>, <<"any", {t2}>>, <<"any", {t2, t3}>>}}

\* The premise of the theorem about NoneLeftBehind.
ASSUME GroupsAreBelow == \A u \in Groups : TriggersBelow(u)

QueuesAndGroups == Queues \union Groups
=============================================================================
