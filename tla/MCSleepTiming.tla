--------------------------- MODULE MCSleepTiming ---------------------------
(* Instances of SleepTiming for TLC. *)
EXTENDS SleepTiming

RR(p) == [priority |-> p, sched_method |-> "RR"]

Tasks2 == 0 .. 1
Tasks3 == 0 .. 2

OneTask == <<RR(1)>>
TwoTasks == <<RR(1), RR(1)>>

\* The premise of the theorem on BoundedLateness.
ASSUME TwoSleepersAssumption == TwoSleepers
=============================================================================
