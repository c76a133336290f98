---------------------------- MODULE AtomicLists ----------------------------
(***************************************************************************)
(* The ready lists under the interrupts: QueueList composed with Irq.  The *)
(* lists are changed by a task, one access at a time, and in their atomic  *)
(* blocks by SysTick, which wakes at most one sleeper, and by the handler  *)
(* of a device, which wakes the receivers of a message queue.              *)
(*                                                                         *)
(* Masked says whether the task does its operation inside atomic(...), as  *)
(* task.c does, or with the scheduler only suspended, as semaphore.c,      *)
(* mutex.c, msg_queue.c and event_group.c do.                              *)
(***************************************************************************)
EXTENDS QueueList, Irq

CONSTANT Masked

ASSUME MaskedAssumption == Masked \in BOOLEAN

\* A history: no handler that BASEPRI does not hold back has changed the lists in the
\* middle of an operation of the task.  What becomes of the lists then is not modelled.
VARIABLE undisturbed

atomicVars == <<listVars, irqVars, config, undisturbed>>

\* The types of the parts.
AtomicTypeOK == ListTypeOK /\ IrqTypeOK /\ undisturbed \in BOOLEAN

AtomicInit == ListInit /\ IrqInit /\ undisturbed = TRUE

-----------------------------------------------------------------------------

\* An access of the task to the lists.
TaskAccess ==
  /\ AtStep("task", IF Masked THEN "in" ELSE "out")
  /\ undisturbed /\ ListAccess
  /\ UNCHANGED <<irqVars, undisturbed>>

\* An operation on the lists neither begins nor ends an atomic block.
TaskMasking ==
  /\ access = "idle"
  /\ StartDisable \/ DecLoad("task")
  /\ UNCHANGED <<listVars, undisturbed>>

HandlerWakes(h, t) ==
  /\ undisturbed /\ HandlerAppend(t)
  /\ undisturbed' = (access = "idle" \/ HeldBack(h))

SysTickWakes(t) == DecLoad("systick") /\ HandlerWakes("systick", t)

DeviceWakes(t) ==
  /\ AtStep("device", "in")
  /\ HandlerWakes("device", t)
  /\ UNCHANGED irqVars

OtherIrqStep ==
  /\ \/ \E h \in Handler : TakeInterrupt(h) \/ SaveBasepri(h) \/ DecLoad(h)
     \/ \E c \in IrqContext : ContextStep(c)
  /\ UNCHANGED <<listVars, undisturbed>>

AtomicNext ==
  /\ \/ TaskAccess
     \/ TaskMasking
     \/ \E t \in Task : SysTickWakes(t) \/ DeviceWakes(t)
     \/ OtherIrqStep
  /\ UNCHANGED config

AtomicSpec == AtomicInit /\ [][AtomicNext]_atomicVars

-----------------------------------------------------------------------------

\* The types, and the nesting count of irq.h: the handlers leave it as they
\* found it, also between the load and the store of a task that changes it, and
\* interrupts are held back only as long as somebody is in a block.
AtomicInv == AtomicTypeOK /\ NestingExact /\ Unmasked

\* Between two operations of the task the lists and the bitmap hold what was appended
\* and not removed, if the handlers that append during one are among those that
\* BASEPRI should hold back.
ReadyKept == undisturbed => ReadyCoherent

=============================================================================
