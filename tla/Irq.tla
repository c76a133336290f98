-------------------------------- MODULE Irq --------------------------------
(***************************************************************************)
(* The masking of interrupts (asm/irq.h), which atomic.h is built on, with *)
(* the priorities config.h and systick.h give.  A task and the handlers    *)
(* share the register BASEPRI and interrupt_disabled_nesting, a word that  *)
(* is loaded, changed and stored.  A handler of a smaller number preempts  *)
(* the code of a larger one; a BASEPRI other than 0 holds back the         *)
(* handlers whose number is not below it.                                  *)
(*                                                                         *)
(* A system has one of several configurations: the two priorities of       *)
(* config.h, that of a device whose handler uses the from_isr functions,   *)
(* and the priorities its hardware tells apart, the multiples of granule.  *)
(***************************************************************************)
EXTENDS Integers, Sequences

CONSTANTS
  Configs,
  MaxDepth   \* bound on the nesting of atomic blocks in a task

ASSUME IrqAssumption ==
  /\ Configs \subseteq
       [SHIELDABLE_MAX : 0 .. 255, KERNEL_PRIORITY : 0 .. 255, device : 0 .. 255,
        granule : 1 .. 64]
  /\ MaxDepth \in Nat \ {0}

Handler == {"systick", "device"}
IrqContext == Handler \union {"task"}

VARIABLES
  config,    \* that of this system; no step changes it
  basepri,
  nesting,   \* interrupt_disabled_nesting
  core,      \* the contexts on the core: the running one, then those it preempted
  irq_pc,    \* irq_pc[c]: the next access of context c
  depth,     \* depth[c]: the atomic blocks c is in
  tmp,       \* tmp[c]: the nesting it has loaded
  prev       \* prev[c]: prev_basepri; 0 in irq_enable of a task

irqVars == <<basepri, nesting, core, irq_pc, depth, tmp, prev>>

\* What the hardware makes of a priority that is written.  irq_disable and systick.h
\* write theirs as config.h has them.
Implemented(p) == p - (p % config.granule)

ShieldableMax == Implemented(config.SHIELDABLE_MAX)

PriorityOf(c) ==
  CASE c = "systick" -> Implemented(config.KERNEL_PRIORITY)
    [] c = "device" -> Implemented(config.device)
    [] OTHER -> 256

IrqStep == {"out", "mrs", "msr", "inc_load", "inc_store", "in", "dec_store",
            "test", "restore"}

\* The types: the count is never negative, nor above what the task and the handlers
\* that may interrupt it nest.
IrqTypeOK ==
  /\ config \in Configs
  /\ basepri \in {0, ShieldableMax}
  /\ nesting \in 0 .. MaxDepth + 2
  /\ core \in Seq(IrqContext)
  /\ irq_pc \in [IrqContext -> IrqStep]
  /\ depth \in [IrqContext -> Nat]
  /\ tmp \in [IrqContext -> Nat]
  /\ prev \in [IrqContext -> {0, ShieldableMax}]

IrqInit ==
  /\ config \in Configs
  /\ basepri = 0
  /\ nesting = 0
  /\ core = <<"task">>
  /\ irq_pc = [c \in IrqContext |-> "out"]
  /\ depth = [c \in IrqContext |-> 0]
  /\ tmp = [c \in IrqContext |-> 0]
  /\ prev = [c \in IrqContext |-> 0]

-----------------------------------------------------------------------------

AtStep(c, step) == Head(core) = c /\ irq_pc[c] = step
Goto(c, step) == irq_pc' = [irq_pc EXCEPT ![c] = step]

\* The core takes an interrupt; the handler starts with irq_disable_from_isr.
TakeInterrupt(h) ==
  /\ PriorityOf(h) < PriorityOf(Head(core))
  /\ basepri = 0 \/ PriorityOf(h) < basepri
  /\ core' = <<h>> \o core
  /\ Goto(h, "mrs")
  /\ UNCHANGED <<basepri, nesting, depth, tmp, prev>>

\* irq_disable_from_isr saves BASEPRI first.
SaveBasepri(h) ==
  /\ AtStep(h, "mrs")
  /\ prev' = [prev EXCEPT ![h] = basepri]
  /\ Goto(h, "msr")
  /\ UNCHANGED <<basepri, nesting, core, depth, tmp>>

\* A task enters an atomic block, perhaps inside another.
StartDisable ==
  /\ AtStep("task", "out") \/ AtStep("task", "in")
  /\ depth["task"] < MaxDepth
  /\ Goto("task", "msr")
  /\ UNCHANGED <<basepri, nesting, core, depth, tmp, prev>>

\* irq_disable_without_nesting
SetBasepri(c) ==
  /\ AtStep(c, "msr")
  /\ basepri' = ShieldableMax
  /\ Goto(c, "inc_load")
  /\ UNCHANGED <<nesting, core, depth, tmp, prev>>

\* ++interrupt_disabled_nesting
IncLoad(c) ==
  /\ AtStep(c, "inc_load")
  /\ tmp' = [tmp EXCEPT ![c] = nesting]
  /\ Goto(c, "inc_store")
  /\ UNCHANGED <<basepri, nesting, core, depth, prev>>

\* Mutant of IncStore: a flag instead of a count.
IncSetsOne(c) ==
  /\ AtStep(c, "inc_store")
  /\ nesting' = 1
  /\ depth' = [depth EXCEPT ![c] = @ + 1]
  /\ tmp' = [tmp EXCEPT ![c] = 0]
  /\ Goto(c, "in")
  /\ UNCHANGED <<basepri, core, prev>>

IncStore(c) ==
  /\ AtStep(c, "inc_store")
  /\ nesting' = tmp[c] + 1
  /\ depth' = [depth EXCEPT ![c] = @ + 1]
  /\ tmp' = [tmp EXCEPT ![c] = 0]
  /\ Goto(c, "in")
  /\ UNCHANGED <<basepri, core, prev>>

\* The block ends: --interrupt_disabled_nesting.
DecLoad(c) ==
  /\ AtStep(c, "in")
  /\ tmp' = [tmp EXCEPT ![c] = nesting]
  /\ depth' = [depth EXCEPT ![c] = @ - 1]
  /\ Goto(c, "dec_store")
  /\ UNCHANGED <<basepri, nesting, core, prev>>

DecStore(c) ==
  /\ AtStep(c, "dec_store")
  /\ nesting' = tmp[c] - 1
  /\ tmp' = [tmp EXCEPT ![c] = 0]
  /\ Goto(c, "test")
  /\ UNCHANGED <<basepri, core, depth, prev>>

\* Mutant of restores: the count is tested for its value before the decrement.
RestoresAtOne == nesting = 1

restores == nesting = 0

Leave(c) ==
  /\ prev' = [prev EXCEPT ![c] = 0]
  /\ IF c = "task"
       THEN Goto(c, IF depth[c] = 0 THEN "out" ELSE "in") /\ UNCHANGED core
       ELSE Goto(c, "out") /\ core' = Tail(core)

TestNesting(c) ==
  /\ AtStep(c, "test")
  /\ IF restores
       THEN Goto(c, "restore") /\ UNCHANGED <<core, prev>>
       ELSE Leave(c)
  /\ UNCHANGED <<basepri, nesting, depth, tmp>>

RestoreBasepri(c) ==
  /\ AtStep(c, "restore")
  /\ basepri' = prev[c]
  /\ Leave(c)
  /\ UNCHANGED <<nesting, depth, tmp>>

\* The steps of a context but for the beginning and the end of its block.
ContextStep(c) ==
  \/ SetBasepri(c) \/ IncLoad(c) \/ IncStore(c) \/ DecStore(c)
  \/ TestNesting(c) \/ RestoreBasepri(c)

-----------------------------------------------------------------------------

\* atomic(...) is atomic: a handler that uses the kernel does not run its
\* block while the context it interrupted is inside one.
Exclusion ==
  \A c \in IrqContext : depth[c] > 0 => \A d \in IrqContext \ {c} : depth[d] = 0

\* A handler that BASEPRI holds back inside a block.
HeldBack(h) == ShieldableMax # 0 /\ PriorityOf(h) >= ShieldableMax

\* The same of the task and of the handlers that the priorities of the system hold
\* back, whatever the others do.
MaskedExclusion ==
  LET masked == {c \in IrqContext : c = "task" \/ HeldBack(c)}
  IN  \A c, d \in masked : depth[c] > 0 /\ depth[d] > 0 => c = d

\* The count is what the contexts on the core have entered and not left, when
\* none of them is in the middle of changing it: a handler takes back what it
\* added, at whatever access of the task it came in.
NestingExact ==
  (\A c \in IrqContext : irq_pc[c] \in {"out", "mrs", "msr", "in", "restore"})
    => nesting = depth["task"] + depth["systick"] + depth["device"]

\* Outside of every block the interrupts are enabled again.
Unmasked == AtStep("task", "out") => basepri = 0

=============================================================================
