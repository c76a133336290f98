--------------------------- MODULE MCAtomicLists ---------------------------
(* Instances of AtomicLists for TLC: three tasks of one priority, one of another. *)
EXTENDS AtomicLists, TLC

CONSTANTS t1, t2, t3, t4

Tasks == {t1, t2, t3, t4}
Priorities == (t1 :> 1) @@ (t2 :> 1) @@ (t3 :> 1) @@ (t4 :> 2)

Config(shieldable, kernel, granule) ==
  [SHIELDABLE_MAX |-> shieldable, KERNEL_PRIORITY |-> kernel, device |-> 96,
   granule |-> granule]

\* The priorities of config.h, where the hardware has 4 bits of them and where it has
\* all 8.
Shipped == {Config(5, 4, 16), Config(5, 4, 1)}

\* The same numbers in the upper 4 bits, and SysTick no more urgent than what is held
\* back.
Shifted == {Config(80, 80, 16)}

AllConfigs == Shipped \union Shifted
=============================================================================
