------------------------------ MODULE TaskList ------------------------------
(***************************************************************************)
(* The ready lists of the kernel (include/zhiyec/task_list.h) and the      *)
(* comparison of tick counts (include/zhiyec/tick.h), as operators on      *)
(* values.  A ready structure is a record:                                 *)
(*                                                                         *)
(*   list    kernel_task_list, one FIFO queue of tasks for each priority   *)
(*   bitmap  kernel_task_list_bitmap, as the set of the priorities whose   *)
(*           bit is 1                                                      *)
(*                                                                         *)
(* Here a list operation is one step.  That is what the code gets inside   *)
(* atomic(...); QueueList takes the same operations apart into single      *)
(* loads and stores.                                                       *)
(***************************************************************************)
EXTENDS Integers, Sequences

CONSTANTS
  Task,      \* the task objects
  NoTask,    \* NULL
  TickMod    \* the number of values of tick_t, 2^32 in the code

ASSUME NoTaskAssumption == NoTask \notin Task
ASSUME TickModAssumption == TickMod \in Nat \ {0} /\ TickMod % 2 = 0

\* enum task_priority
TASKPRIO_IDLE == 0
Priority == 0 .. 3

\* enum task_sched_method
SchedMethod == {"RR", "FIFO"}

EmptyReady == [list |-> [p \in Priority |-> <<>>], bitmap |-> {}]

-----------------------------------------------------------------------------
(* Ready lists *)

\* Mutant of tasklist_append: the bitmap is left alone.
AppendWithoutBitmap(r, p, t) == [r EXCEPT !.list[p] = Append(@, t)]

\* Mutant of tasklist_append: the task is put at the head of the list.
AppendAtHead(r, p, t) ==
  [list   |-> [r.list EXCEPT ![p] = <<t>> \o @],
   bitmap |-> r.bitmap \union {p}]

tasklist_append(r, p, t) ==
  [list   |-> [r.list EXCEPT ![p] = Append(@, t)],
   bitmap |-> r.bitmap \union {p}]

tasklist_get_front_task(r, p) ==
  IF r.list[p] = <<>> THEN NoTask ELSE Head(r.list[p])

\* The node the function returns is tasklist_get_front_task(r, p).
tasklist_remove_front(r, p) ==
  IF r.list[p] = <<>>
    THEN r
    ELSE [list   |-> [r.list EXCEPT ![p] = Tail(@)],
          bitmap |-> IF Tail(r.list[p]) = <<>> THEN r.bitmap \ {p} ELSE r.bitmap]

\* 31 - clz(bitmap).  With no bit set the code indexes kernel_task_list
\* with -1; the CHOOSE has no value then.
tasklist_get_highest_priority(r) ==
  CHOOSE p \in r.bitmap : \A q \in r.bitmap : q <= p

-----------------------------------------------------------------------------
(* Ticks: tick_t is unsigned, stick_t is the signed type of the same width *)

Tick == 0 .. TickMod - 1

\* The sign bit of (stick_t)(target - now).
tick_after(now, target) == 2 * ((target - now) % TickMod) >= TickMod

=============================================================================
