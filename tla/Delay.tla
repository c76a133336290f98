------------------------------- MODULE Delay -------------------------------
(***************************************************************************)
(* The busy waiting of delay_us (utility/delay.c).  SysTick counts down    *)
(* from reload to 0 and starts again, Reload + 1 cycles for every turn; a  *)
(* task that is preempted between two readings may miss any number of      *)
(* turns.  unsigned long and uint32_t hold the numbers below Word.         *)
(***************************************************************************)
EXTENDS Integers

CONSTANTS
  Reload,         \* SYSTICK_LOAD_REG
  CyclesPerUs,    \* CPU_CLOCK_HZ / 1000000
  Word,
  Us,             \* the arguments of delay_us
  MaxTurns,       \* bound: the new starts of SysTick between two readings
  MaxElapsed      \* bound: the cycles of a delay in which a whole turn may be missed

\* No delay is so long that its ticks, or the last addition to count, wrap: that is
\* 59 s at 72 MHz.
ASSUME DelayAssumption ==
  /\ {Reload, CyclesPerUs, Word, MaxElapsed} \subseteq Nat \ {0} /\ MaxTurns \in Nat
  /\ Us \subseteq Nat
  /\ \A n \in Us : n * CyclesPerUs + Reload < Word

VARIABLES
  us,           \* the argument, while delay_us runs or when it has returned
  waits,        \* delay_us has not returned
  count, prev_value,
  elapsed,      \* the cycles since its first reading
  turns,        \* how often SysTick has started again since then
  in_time        \* no reading came a whole turn after the one before

delayVars == <<us, waits, count, prev_value, elapsed, turns, in_time>>

ticks == us * CyclesPerUs

DelayInit ==
  /\ us \in Us /\ waits = TRUE
  /\ count = 0 /\ prev_value \in 0 .. Reload
  /\ elapsed = 0 /\ turns = 0 /\ in_time = TRUE

\* Mutant of cycles: a reading of the same value is taken for a whole turn.
CyclesOfTurn(prev, curr) ==
  IF curr < prev THEN prev - curr ELSE Reload + prev - curr

\* The cycles between two readings; a start again has one more than it counts.
cycles(prev, curr) ==
  IF curr = prev THEN 0
    ELSE IF curr < prev THEN prev - curr ELSE Reload + prev - curr

\* The next reading is curr; SysTick has started again n times.
delay_us(curr, n) ==
  LET k == prev_value - curr + n * (Reload + 1)
  IN  /\ waits
      /\ k > 0 /\ (k <= Reload \/ elapsed + k <= MaxElapsed)
      /\ count' = count + cycles(prev_value, curr)
      /\ prev_value' = curr
      /\ waits' = (curr = prev_value \/ count' < ticks)
      /\ elapsed' = elapsed + k /\ turns' = turns + n
      /\ in_time' = (in_time /\ k <= Reload)
      /\ UNCHANGED us

\* The next delay.
NextDelay ==
  /\ ~waits
  /\ us' \in Us /\ waits' = TRUE
  /\ count' = 0 /\ prev_value' \in 0 .. Reload
  /\ elapsed' = 0 /\ turns' = 0 /\ in_time' = TRUE

DelayNext == NextDelay \/ \E curr \in 0 .. Reload, n \in 0 .. MaxTurns : delay_us(curr, n)

DelaySpec == DelayInit /\ [][DelayNext]_delayVars

-----------------------------------------------------------------------------

\* The types; count does not wrap.
DelayTypeOK ==
  /\ us \in Us /\ waits \in BOOLEAN /\ in_time \in BOOLEAN
  /\ count \in 0 .. Word - 1 /\ prev_value \in 0 .. Reload
  /\ elapsed \in Nat /\ turns \in Nat

\* A delay is never shorter than it was asked for, however late SysTick is read.
NeverShorter == ~waits => elapsed >= ticks

\* What is counted lags behind by one cycle for every turn, as long as SysTick is
\* read in every turn: the delay takes that much longer.
LagsByTurns == in_time => elapsed - count = turns

\* The types, and a delay takes as long as it was asked for, or a little longer.
DelayInv == DelayTypeOK /\ NeverShorter /\ LagsByTurns

=============================================================================
