---------------------------- MODULE MCScheduler ----------------------------
(* An instance of Scheduler for TLC. *)
EXTENDS SchedulerInv

RR(p) == [priority |-> p, sched_method |-> "RR"]
FIFO(p) == [priority |-> p, sched_method |-> "FIFO"]

Tasks3 == 0 .. 2
OneTask == <<RR(1)>>
Created == {RR(1), FIFO(2)}
=============================================================================
