-------------------------------- MODULE Port --------------------------------
(***************************************************************************)
(* The context switch of the ports (arch/arm/cortex-m0, m3, m4, m7): what  *)
(* PendSV saves on the stack of the task that stops and takes from the     *)
(* stack of the task that goes on, and how the first run of a task begins. *)
(*                                                                         *)
(* A cell of a stack stands for the registers that are stored together:    *)
(* the frame the hardware stores, r4 to r7, r8 to r11, EXC_RETURN, and s16 *)
(* to s31.  The first cell is the one at the lowest address, where the     *)
(* stack pointer points.  What a task has of its own below is left out.    *)
(*                                                                         *)
(* PendSV has the lowest priority, so that it comes between any two        *)
(* instructions of a task; why it does is the scheduler's business.        *)
(***************************************************************************)
EXTENDS Integers, Sequences

CONSTANTS
  Thread,   \* the tasks
  Value     \* what a task may leave in a register

VARIABLES
  port,
  phase,     \* "boot", "thread" while a task runs, and in PendSV "saved" and "switched"
  current,   \* kernel_current_task
  live,      \* what the registers hold; frame stands for r0 to r3, r12, lr, pc, xPSR
  exc,       \* lr in PendSV: the bit of EXC_RETURN for a frame with FPU registers
  stack,     \* stack[t]: the cells of task t from its stack pointer on
  left       \* left[t]: what the registers held when t was stopped

portVars == <<port, phase, current, live, exc, stack, left>>

WithFpu == {"m4", "m7"}

\* fpu: in a frame, s0 to s15 are part of it; in EXC_RETURN, its bit for that.
Cell(group, t, v, fpu) == [group |-> group, of |-> t, value |-> v, fpu |-> fpu]

Unwritten(group) == Cell(group, "none", "none", FALSE)

EXC_RETURN(fpu) == Cell("exc", "none", "none", fpu)

\* The cell at the i-th place of the stack s; below it is memory of the task.
At(s, i) == IF i \in DOMAIN s THEN s[i] ELSE Unwritten("own")

\* What a task has in its registers.
Context(t, v, fpu) ==
  [low |-> Cell("low", t, v, FALSE), high |-> Cell("high", t, v, FALSE),
   fp |-> Cell("fp", t, v, FALSE), frame |-> Cell("frame", t, v, fpu), fpu |-> fpu]

\* A task that has not run: fn, arg and the return handler are in its frame.
Fresh(t) ==
  [low |-> Unwritten("low"), high |-> Unwritten("high"), fp |-> Unwritten("fp"),
   frame |-> Cell("frame", t, "entry", FALSE), fpu |-> FALSE]

-----------------------------------------------------------------------------
(* port_init_task_stack: top_of_stack is moved over what is not written *)

init_m0(t) == <<Unwritten("low"), Unwritten("high"), Fresh(t).frame>>

init_m3(t) == <<Unwritten("low"), Unwritten("high"), Fresh(t).frame>>

init_m4(t) == <<Unwritten("low"), Unwritten("high"), EXC_RETURN(FALSE), Fresh(t).frame>>

init_m7(t) == <<Unwritten("low"), Unwritten("high"), EXC_RETURN(FALSE), Fresh(t).frame>>

port_init_task_stack(t) ==
  CASE port = "m0" -> init_m0(t)
    [] port = "m3" -> init_m3(t)
    [] port = "m4" -> init_m4(t)
    [] port = "m7" -> init_m7(t)

PortInit ==
  /\ port \in {"m0", "m3"} \union WithFpu
  /\ phase = "boot"
  /\ current \in Thread
  /\ \E v \in Value : live = Context("main", v, FALSE)
  /\ exc = FALSE
  /\ stack = [t \in Thread |-> port_init_task_stack(t)]
  /\ left = [t \in Thread |-> Fresh(t)]

-----------------------------------------------------------------------------
(* Saving the registers c on top of the frame the hardware has stored *)

\* r8 to r11 are stored above r4 to r7, which they pass through.
save_m0(c, e) == <<c.low, c.high, c.frame>>

\* EXC_RETURN stays on the stack of the handlers.
save_m3(c, e) == <<c.low, c.high, c.frame>>

\* Mutant of save_m4: s16 to s31 are left where they are.
SaveWithoutFpu(c, e) == <<c.low, c.high, EXC_RETURN(e), c.frame>>

\* s16 to s31 first, when the frame has the other FPU registers.
save_m4(c, e) ==
  IF e THEN <<c.low, c.high, EXC_RETURN(e), c.fp, c.frame>>
       ELSE <<c.low, c.high, EXC_RETURN(e), c.frame>>

save_m7(c, e) == save_m4(c, e)

save(c, e) ==
  CASE port = "m0" -> save_m0(c, e)
    [] port = "m3" -> save_m3(c, e)
    [] port = "m4" -> save_m4(c, e)
    [] port = "m7" -> save_m7(c, e)

(* Restoring from the stack s: registers, EXC_RETURN and the place of the frame *)

\* r8 to r11 from their offset; then back for r4 to r7.
restore_m0(s, e) == [low |-> At(s, 1), high |-> At(s, 2), fp |-> live.fp, exc |-> e, psp |-> 3]

restore_m3(s, e) == [low |-> At(s, 1), high |-> At(s, 2), fp |-> live.fp, exc |-> e, psp |-> 3]

\* Mutant of restore_m4: s16 to s31 when the task that was stopped had them.
RestoreByStopped(s, e) ==
  [low |-> At(s, 1), high |-> At(s, 2), fp |-> IF e THEN At(s, 4) ELSE live.fp,
   exc |-> At(s, 3).fpu, psp |-> IF e THEN 5 ELSE 4]

\* s16 to s31 when the task that goes on has them, whatever the other one had.
restore_m4(s, e) ==
  LET mine == At(s, 3).fpu
  IN  [low |-> At(s, 1), high |-> At(s, 2), fp |-> IF mine THEN At(s, 4) ELSE live.fp,
       exc |-> mine, psp |-> IF mine THEN 5 ELSE 4]

restore_m7(s, e) == restore_m4(s, e)

restore(s, e) ==
  CASE port = "m0" -> restore_m0(s, e)
    [] port = "m3" -> restore_m3(s, e)
    [] port = "m4" -> restore_m4(s, e)
    [] port = "m7" -> restore_m7(s, e)

\* The hardware loads the frame; of the other size it is not the frame it stored.
unstacked(cell, e) == IF cell.fpu = e THEN cell ELSE Unwritten("own")

\* bx lr: the task runs with the registers r.
ReturnTo(r) ==
  /\ live' = [low |-> r.low, high |-> r.high, fp |-> r.fp,
              frame |-> unstacked(At(stack[current], r.psp), r.exc), fpu |-> r.exc]
  /\ stack' = [stack EXCEPT ![current] = SubSeq(@, r.psp + 1, Len(@))]
  /\ phase' = "thread"

-----------------------------------------------------------------------------

\* No SVC: r4 to r11 are skipped and the frame is loaded instruction by instruction.
start_m0 ==
  ReturnTo([low |-> live.low, high |-> live.high, fp |-> live.fp, exc |-> FALSE, psp |-> 3])

\* EXC_RETURN is that of svc, from main(), with the bits for the PSP.
start_m3 == ReturnTo(restore_m3(stack[current], live.fpu))

start_m4 == ReturnTo(restore_m4(stack[current], live.fpu))

start_m7 == ReturnTo(restore_m7(stack[current], live.fpu))

port_start_first_task ==
  /\ phase = "boot"
  /\ CASE port = "m0" -> start_m0
       [] port = "m3" -> start_m3
       [] port = "m4" -> start_m4
       [] port = "m7" -> start_m7
  /\ UNCHANGED <<port, current, exc, left>>

\* The task changes its registers; once it has used the FPU its frames are the
\* large ones.
Work ==
  /\ phase = "thread"
  /\ \E v \in Value, fpu \in BOOLEAN :
       /\ (fpu => port \in WithFpu) /\ (live.fpu => fpu)
       /\ live' = [Context(current, v, fpu) EXCEPT !.fp = IF fpu THEN @ ELSE live.fp]
  /\ UNCHANGED <<port, phase, current, exc, stack, left>>

\* The hardware stores the frame and sets lr; PendSV stores the rest.
PendSVSave ==
  /\ phase = "thread"
  /\ phase' = "saved"
  /\ exc' = live.fpu
  /\ stack' = [stack EXCEPT ![current] = save(live, live.fpu)]
  /\ left' = [left EXCEPT ![current] = live]
  /\ UNCHANGED <<port, current, live>>

\* task_switch_next, masked by basepri, by cpsid on M0 and by both on M7: the
\* next task may be any one.
SwitchNext ==
  /\ phase = "saved"
  /\ phase' = "switched"
  /\ current' \in Thread
  /\ UNCHANGED <<port, live, exc, stack, left>>

PendSVRestore ==
  /\ phase = "switched"
  /\ ReturnTo(restore(stack[current], exc))
  /\ UNCHANGED <<port, current, exc, left>>

PortNext == port_start_first_task \/ Work \/ PendSVSave \/ SwitchNext \/ PendSVRestore

PortSpec == PortInit /\ [][PortNext]_portVars

-----------------------------------------------------------------------------

\* A task goes on with the registers it was stopped with, the FPU's too when it
\* has used them, and with its stack pointer where it was; the first time with
\* the frame port_init_task_stack made.
Resumed(r, c) ==
  /\ r.frame = c.frame /\ r.fpu = c.fpu
  /\ r.low = c.low \/ c.low.value = "none"
  /\ r.high = c.high \/ c.high.value = "none"
  /\ r.fpu => r.fp = c.fp

ContextKept ==
  [][phase # "thread" /\ phase' = "thread" =>
       Resumed(live', left[current]) /\ stack'[current] = <<>>]_portVars

\* The stack of a task that does not run is complete, so that PendSV may go on
\* with any task: what was saved, or what port_init_task_stack wrote.
StacksComplete ==
  \A t \in Thread :
    phase # "thread" \/ t # current => stack[t] = save(left[t], left[t].fpu)

\* A task without the FPU has small frames only.
Frames(c) ==
  /\ c.fpu \in BOOLEAN /\ c.frame.fpu = c.fpu
  /\ c.fpu => port \in WithFpu

\* The types, and what PendSV may rely on for the task it goes on with.
PortInv ==
  /\ port \in {"m0", "m3"} \union WithFpu
  /\ phase \in {"boot", "thread", "saved", "switched"} /\ current \in Thread
  /\ exc \in BOOLEAN /\ (exc => port \in WithFpu)
  /\ phase = "boot" => ~live.fpu
  /\ phase \in {"boot", "thread"} => live.fpu \in BOOLEAN
  /\ phase = "thread" => Frames(live)
  /\ \A t \in Thread : Frames(left[t])
  /\ StacksComplete

=============================================================================
