----------------------------- MODULE PartProofs -----------------------------
(***************************************************************************)
(* The parts that use nothing of the kernel's state: of KernelProofs only  *)
(* the lemmas about sequences and numbers are needed here.  No delay is    *)
(* too short, for every clock, reload value and lateness of the readings;  *)
(* the reports of a key are true, whatever times it is configured with and *)
(* however long its contact bounces; a context switch loses nothing, for   *)
(* any number of tasks and any contents of the registers; what a task has  *)
(* allocated is its own, for every pool and any order of the calls; the    *)
(* console runs the line that was typed, for every sequence of characters; *)
(* and a transfer of the software I2C that succeeds moves exactly its      *)
(* bytes, for any device and any length of them.                           *)
(***************************************************************************)
EXTENDS Delay, KeyObj, Port, Memory, Console, I2cSoftware, KernelProofs

\* The turns of SysTick are not below the whole turns that the readings tell.
LEMMA Turns ==
  ASSUME NEW n \in Nat, NEW r \in Nat
  PROVE  /\ n * (r + 1) \in Nat
         /\ n > 0 => n * (r + 1) >= r + 1
         /\ n > 1 => n * (r + 1) >= 2 * (r + 1)
         /\ n = 0 => n * (r + 1) = 0
         /\ n = 1 => n * (r + 1) = r + 1
  OBVIOUS

\* What is counted between two readings is at most the cycles k between them, and
\* less by one for a new start when there was at most one.
LEMMA CyclesCounted ==
  ASSUME NEW prev \in 0 .. Reload, NEW curr \in 0 .. Reload, NEW n \in Nat,
         NEW k \in Int, k = prev - curr + n * (Reload + 1), k > 0
  PROVE  /\ cycles(prev, curr) \in 0 .. Reload
         /\ cycles(prev, curr) <= k
         /\ k <= Reload => cycles(prev, curr) = k - n
<1>1. Reload \in Nat \ {0}
  BY DelayAssumption
<1> DEFINE turn == n * (Reload + 1)
<1>2. /\ turn \in Nat /\ (n > 0 => turn >= Reload + 1) /\ (n > 1 => turn >= 2 * (Reload + 1))
      /\ (n = 0 => turn = 0) /\ (n = 1 => turn = Reload + 1)
  BY <1>1, Turns
<1>3. k = prev - curr + turn
  OBVIOUS
<1> HIDE DEF turn
<1> QED BY <1>1, <1>2, <1>3 DEF cycles

-----------------------------------------------------------------------------

\* Until the delay is over its ticks have not been counted, and the count has
\* not got ahead of the time.
Counted ==
  /\ count <= elapsed
  /\ waits => (count = 0 \/ count < ticks)
  /\ ~waits => count >= ticks

DelayInd == DelayTypeOK /\ Counted /\ LagsByTurns

LEMMA Ticks ==
  ASSUME NEW n \in Us
  PROVE  n * CyclesPerUs \in Nat /\ n * CyclesPerUs + Reload < Word
BY DelayAssumption

LEMMA DelayStarts == DelayInit => DelayInd
BY DelayAssumption DEF DelayInit, DelayInd, DelayTypeOK, Counted, LagsByTurns

LEMMA DelayReads ==
  ASSUME DelayInd, NEW curr \in 0 .. Reload, NEW n \in 0 .. MaxTurns, delay_us(curr, n)
  PROVE  DelayInd'
<1> DEFINE k == prev_value - curr + n * (Reload + 1)
<1>1. /\ Reload \in Nat \ {0} /\ Word \in Nat /\ MaxTurns \in Nat /\ n \in Nat
  BY DelayAssumption
<1>2. /\ us \in Us /\ count \in 0 .. Word - 1 /\ prev_value \in 0 .. Reload
      /\ elapsed \in Nat /\ turns \in Nat /\ in_time \in BOOLEAN
      /\ waits
  BY DEF DelayInd, DelayTypeOK, delay_us
<1>3. ticks \in Nat /\ ticks + Reload < Word /\ us' = us /\ ticks' = ticks
  BY <1>2, Ticks DEF ticks, delay_us
<1>4. k > 0 /\ k \in Int
  BY <1>1, <1>2 DEF delay_us
<1> DEFINE c == cycles(prev_value, curr)
<1>5. c \in 0 .. Reload /\ c <= k /\ (k <= Reload => c = k - n)
  BY <1>1, <1>2, <1>4, CyclesCounted
<1>6. /\ count' = count + c /\ prev_value' = curr
      /\ waits' = (curr = prev_value \/ count' < ticks)
      /\ elapsed' = elapsed + k /\ turns' = turns + n
      /\ in_time' = (in_time /\ k <= Reload)
  BY DEF delay_us
<1>7. curr = prev_value => c = 0
  BY DEF cycles
<1> HIDE DEF k, c
<1>8. count' \in Nat /\ count' <= Word - 1
  <2>1. CASE count = 0
    BY <1>1, <1>2, <1>3, <1>5, <1>6, <2>1
  <2>2. CASE count < ticks
    BY <1>1, <1>2, <1>3, <1>5, <1>6, <2>2
  <2> QED BY <1>2, <2>1, <2>2 DEF DelayInd, Counted
<1>9. DelayTypeOK'
  BY <1>1, <1>2, <1>3, <1>4, <1>6, <1>8 DEF DelayTypeOK
<1>10. Counted'
  <2>1. count' <= elapsed'
    BY <1>1, <1>2, <1>4, <1>5, <1>6 DEF DelayInd, Counted
  <2>2. CASE curr = prev_value
    <3>1. waits'
      BY <1>6, <2>2
    <3>2. count' = count
      BY <1>2, <1>6, <1>7, <2>2
    <3>3. count = 0 \/ count < ticks
      BY <1>2 DEF DelayInd, Counted
    <3> QED BY <1>3, <2>1, <3>1, <3>2, <3>3 DEF Counted
  <2>3. CASE curr # prev_value /\ count' < ticks
    BY <1>3, <1>6, <2>1, <2>3 DEF Counted
  <2>4. CASE curr # prev_value /\ ~(count' < ticks)
    <3>1. ~waits'
      BY <1>6, <2>4
    <3>2. count' >= ticks'
      BY <1>3, <1>8, <2>4
    <3> QED BY <2>1, <3>1, <3>2 DEF Counted
  <2> QED BY <2>2, <2>3, <2>4
<1>11. LagsByTurns'
  <2> SUFFICES ASSUME in_time' PROVE elapsed' - count' = turns'
    BY DEF LagsByTurns
  <2>1. in_time /\ k <= Reload
    BY <1>6
  <2>2. elapsed - count = turns /\ c = k - n
    BY <1>5, <2>1 DEF DelayInd, LagsByTurns
  <2> QED BY <1>1, <1>2, <1>4, <1>5, <1>6, <2>2
<1> QED BY <1>9, <1>10, <1>11 DEF DelayInd

LEMMA DelayStep == DelayInd /\ [DelayNext]_delayVars => DelayInd'
<1> SUFFICES ASSUME DelayInd, [DelayNext]_delayVars PROVE DelayInd'
  OBVIOUS
<1>1. CASE NextDelay
  BY <1>1, DelayAssumption DEF NextDelay, DelayInd, DelayTypeOK, Counted, LagsByTurns
<1>2. CASE \E curr \in 0 .. Reload, n \in 0 .. MaxTurns : delay_us(curr, n)
  BY <1>2, DelayReads
<1>3. CASE UNCHANGED delayVars
  BY <1>3 DEF delayVars, DelayInd, DelayTypeOK, Counted, LagsByTurns, ticks
<1> QED BY <1>1, <1>2, <1>3 DEF DelayNext

\* delay_us never returns before its time, and is late by what it is read late
\* and one cycle for every turn of SysTick.
THEOREM DelayLongEnough == DelaySpec => []DelayInv
<1>1. DelayInd => DelayInv
  BY Ticks DEF DelayInd, DelayInv, DelayTypeOK, Counted, NeverShorter, ticks
<1> QED BY <1>1, DelayStarts, DelayStep, PTL DEF DelaySpec

-----------------------------------------------------------------------------

LEMMA Times ==
  /\ DEBOUNCE_TICKS \in Nat \ {0} /\ LONG_PRESSED_TICKS \in Nat \ {0}
  /\ DOUBLE_PRESSED_TICKS \in Nat \ {0} /\ Longest \in Nat
  /\ DEBOUNCE_TICKS < LONG_PRESSED_TICKS /\ DEBOUNCE_TICKS < DOUBLE_PRESSED_TICKS
  /\ LONG_PRESSED_TICKS <= Longest /\ DOUBLE_PRESSED_TICKS <= Longest
BY KeyAssumption DEF Longest

\* The ticks are counted only while the contact rests.
TicksCounted ==
  /\ key_status \in {"press_delay", "release_delay"} => key_ticks < DEBOUNCE_TICKS
  /\ key_status = "pressed" => key_ticks < LONG_PRESSED_TICKS /\ pressed /\ steady > key_ticks
  /\ key_status = "double" => key_ticks < DOUBLE_PRESSED_TICKS /\ ~pressed /\ steady > key_ticks

KeyInd == KeyInv /\ TicksCounted

LEMMA Initially == key_init => KeyInd
<1> SUFFICES ASSUME key_init PROVE KeyInd
  OBVIOUS
<1>1. pressed \in BOOLEAN
  BY DEF key_init
<1>2. /\ key_status = "idle" /\ key_prev_status = "idle" /\ key_ticks = 0
      /\ event = "none" /\ steady = 0
  BY DEF key_init
<1> QED BY <1>1, <1>2, Times DEF KeyInd, KeyInv, KeyTypeOK, KeyStatus, LongIsHeld,
        SingleIsSingle, DelaysKnown, TicksCounted

\* What the poll itself records.
LEMMA Steady ==
  ASSUME KeyInd, NEW p \in BOOLEAN, Poll(p)
  PROVE  /\ pressed' = p /\ steady' \in 1 .. Longest
         /\ pressed = p => steady' >= steady /\ (steady < Longest => steady' > steady)
BY Times DEF KeyInd, KeyInv, KeyTypeOK, Poll

LEMMA PollKeeps ==
  ASSUME KeyInd, NEW p \in BOOLEAN, Poll(p)
  PROVE  KeyInd'
<1>1. /\ pressed' = p /\ steady' \in 1 .. Longest
      /\ pressed = p => steady' >= steady /\ (steady < Longest => steady' > steady)
  BY Steady
<1>2. /\ key_status \in KeyStatus /\ key_prev_status \in KeyStatus /\ key_ticks \in 0 .. Longest
      /\ pressed \in BOOLEAN /\ steady \in 0 .. Longest /\ DelaysKnown /\ TicksCounted
  BY DEF KeyInd, KeyInv, KeyTypeOK
<1>3. key_update_status(p)
  BY DEF Poll
<1> USE Times DEF KeyInv, KeyTypeOK, KeyStatus, LongIsHeld, SingleIsSingle, DelaysKnown,
        TicksCounted, Change, Stay, after_delay
<1>4. CASE FromIdle(p)
  BY <1>1, <1>2, <1>4 DEF FromIdle, KeyInd
<1>5. CASE Delay
  BY <1>1, <1>2, <1>5 DEF Delay, KeyInd
<1>6. CASE PressDelayOver(p)
  BY <1>1, <1>2, <1>6 DEF PressDelayOver, KeyInd
<1>7. CASE ReleaseDelayOver(p)
  BY <1>1, <1>2, <1>7 DEF ReleaseDelayOver, released, KeyInd
<1>8. CASE Pressed(p)
  <2>1. key_status = "pressed" /\ pressed /\ steady > key_ticks /\ key_ticks < LONG_PRESSED_TICKS
    BY <1>2, <1>8 DEF Pressed
  <2>2. CASE ~p
    BY <1>1, <1>2, <1>8, <2>1, <2>2 DEF Pressed, KeyInd
  <2>3. CASE p
    <3>1. pressed' /\ pressed' \in BOOLEAN /\ pressed = p
      BY <1>1, <1>2, <2>1, <2>3
    <3>2. steady' > key_ticks + 1 \/ steady' >= LONG_PRESSED_TICKS
      BY <1>1, <1>2, <2>1, <3>1
    <3>3. CASE key_ticks + 1 >= LONG_PRESSED_TICKS
      BY <1>1, <1>2, <1>8, <2>1, <2>3, <3>1, <3>2, <3>3 DEF Pressed, KeyInd
    <3>4. CASE key_ticks + 1 < LONG_PRESSED_TICKS
      BY <1>1, <1>2, <1>8, <2>1, <2>3, <3>1, <3>2, <3>4 DEF Pressed, KeyInd
    <3> QED BY <1>2, <3>3, <3>4
  <2> QED BY <2>2, <2>3
<1>9. CASE LongPressed(p)
  BY <1>1, <1>2, <1>9 DEF LongPressed, KeyInd
<1>10. CASE DoublePressed(p)
  BY <1>1, <1>2, <1>10 DEF DoublePressed, single_press, window_over, KeyInd
<1> QED BY <1>3, <1>4, <1>5, <1>6, <1>7, <1>8, <1>9, <1>10 DEF key_update_status

LEMMA KeyStep == KeyInd /\ [KeyNext]_keyVars => KeyInd'
<1> SUFFICES ASSUME KeyInd, [KeyNext]_keyVars PROVE KeyInd'
  OBVIOUS
<1>1. CASE KeyNext
  BY <1>1, PollKeeps DEF KeyNext
<1>2. CASE UNCHANGED keyVars
  BY <1>2 DEF keyVars, statusVars, KeyInd, KeyInv, KeyTypeOK, LongIsHeld, SingleIsSingle,
     DelaysKnown, TicksCounted
<1> QED BY <1>1, <1>2

\* A long press that is reported has been held for the whole time, a single press
\* had no second, and no press is forgotten in a delay for a status it does not know.
THEOREM ReportsAreTrue == KeySpec => []KeyInv
<1>1. KeyInd => KeyInv
  BY DEF KeyInd
<1> QED BY <1>1, Initially, KeyStep, PTL DEF KeySpec

-----------------------------------------------------------------------------

LEMMA Bits ==
  ASSUME NEW b
  PROVE  EXC_RETURN(b).fpu = b
BY DEF EXC_RETURN, Cell

\* r gives back the registers c from the stack s, but for what was not written,
\* and s ends with the frame.
GivesBack(r, s, c) ==
  /\ r.low = c.low \/ c.low.value = "none"
  /\ r.high = c.high \/ c.high.value = "none"
  /\ r.exc = c.fpu
  /\ c.fpu => r.fp = c.fp
  /\ At(s, r.psp) = c.frame
  /\ SubSeq(s, r.psp + 1, Len(s)) = <<>>

\* What a port saves it restores: the registers c of any task, whatever other
\* task was stopped before.
LEMMA SavedIsRestored ==
  ASSUME port \in {"m0", "m3"} \union WithFpu,
         NEW c, Frames(c), NEW e \in BOOLEAN, e => port \in WithFpu,
         NEW s, s = save(c, c.fpu)
  PROVE  GivesBack(restore(s, e), s, c)
<1> DEFINE r == restore(s, e)
<1>1. CASE port \notin WithFpu
  <2>1. s = <<c.low, c.high, c.frame>>
    BY <1>1 DEF save, save_m0, save_m3, WithFpu
  <2>2. r = [low |-> At(s, 1), high |-> At(s, 2), fp |-> live.fp, exc |-> e, psp |-> 3]
    BY <1>1 DEF restore, restore_m0, restore_m3, WithFpu
  <2>3. e = FALSE /\ c.fpu = FALSE
    BY <1>1 DEF Frames
  <2>4. At(s, 1) = c.low /\ At(s, 2) = c.high /\ At(s, 3) = c.frame /\ SubSeq(s, 4, Len(s)) = <<>>
    BY <2>1 DEF At
  <2>5. r = [low |-> c.low, high |-> c.high, fp |-> live.fp, exc |-> FALSE, psp |-> 3]
    BY <2>2, <2>3, <2>4
  <2> HIDE DEF r
  <2>a. r.exc = FALSE
    BY <2>5
  <2>6. r.low = c.low /\ r.high = c.high /\ r.exc = c.fpu
    <3>1. r.exc = c.fpu
      BY <2>3, <2>a
    <3>2. r.low = c.low /\ r.high = c.high
      BY <2>5
    <3> QED BY <3>1, <3>2
  <2>7. r.psp = 3 /\ r.psp + 1 = 4
    BY <2>5
  <2> QED BY <2>3, <2>4, <2>6, <2>7 DEF GivesBack, r
<1>2. CASE port \in WithFpu
  <2>1. s = save_m4(c, c.fpu) /\ r = restore_m4(s, e)
    BY <1>2 DEF save, save_m7, restore, restore_m7, WithFpu
  <2>2. CASE c.fpu
    <3>1. s = <<c.low, c.high, EXC_RETURN(TRUE), c.fp, c.frame>>
      BY <2>1, <2>2 DEF save_m4, Frames
    <3>2. /\ At(s, 1) = c.low /\ At(s, 2) = c.high /\ At(s, 3) = EXC_RETURN(TRUE)
          /\ At(s, 4) = c.fp /\ At(s, 5) = c.frame /\ SubSeq(s, 6, Len(s)) = <<>>
      BY <3>1 DEF At
    <3>3. r = [low |-> c.low, high |-> c.high, fp |-> c.fp, exc |-> TRUE, psp |-> 5]
      BY <2>1, <3>2, Bits DEF restore_m4
    <3>4. c.fpu = TRUE
      BY <2>2 DEF Frames
    <3> HIDE DEF r
    <3>5. r.low = c.low /\ r.high = c.high /\ r.fp = c.fp
      BY <3>3
    <3>6. r.psp = 5 /\ r.psp + 1 = 6
      BY <3>3
    <3>7. r.exc = TRUE
      BY <3>3
    <3>8. r.exc = c.fpu
      BY <3>4, <3>7
    <3> QED BY <3>2, <3>5, <3>6, <3>8 DEF GivesBack, r
  <2>3. CASE ~c.fpu
    <3>1. s = <<c.low, c.high, EXC_RETURN(FALSE), c.frame>>
      BY <2>1, <2>3 DEF save_m4, Frames
    <3>2. /\ At(s, 1) = c.low /\ At(s, 2) = c.high /\ At(s, 3) = EXC_RETURN(FALSE)
          /\ At(s, 4) = c.frame /\ SubSeq(s, 5, Len(s)) = <<>>
      BY <3>1 DEF At
    <3>3. r = [low |-> c.low, high |-> c.high, fp |-> live.fp, exc |-> FALSE, psp |-> 4]
      BY <2>1, <3>2, Bits DEF restore_m4
    <3>4. c.fpu = FALSE
      BY <2>3 DEF Frames
    <3> HIDE DEF r
    <3>5. r.low = c.low /\ r.high = c.high
      BY <3>3
    <3>6. r.psp = 4 /\ r.psp + 1 = 5
      BY <3>3
    <3>7. r.exc = FALSE
      BY <3>3
    <3>8. r.exc = c.fpu
      BY <3>4, <3>7
    <3> QED BY <2>3, <3>2, <3>5, <3>6, <3>8 DEF GivesBack, r
  <2> QED BY <2>2, <2>3 DEF Frames
<1> QED BY <1>1, <1>2

-----------------------------------------------------------------------------

\* A task returns to the registers that are given back.
LEMMA Returned ==
  ASSUME DOMAIN stack = Thread, current \in Thread,
         NEW c, NEW r, Frames(c), ReturnTo(r), GivesBack(r, stack[current], c)
  PROVE  /\ Resumed(live', c) /\ Frames(live')
         /\ stack'[current] = <<>>
         /\ DOMAIN stack' = Thread
         /\ \A t \in Thread \ {current} : stack'[t] = stack[t]
<1>1. live' = [low |-> r.low, high |-> r.high, fp |-> r.fp, frame |-> c.frame, fpu |-> c.fpu]
  BY DEF Frames, unstacked, ReturnTo, GivesBack
<1>2. /\ c.fpu => r.fp = c.fp
      /\ r.low = c.low \/ c.low.value = "none"
      /\ r.high = c.high \/ c.high.value = "none"
  BY DEF GivesBack
<1>3. Resumed(live', c) /\ Frames(live')
  BY <1>1, <1>2 DEF Resumed, Frames
<1>4. stack' = [stack EXCEPT ![current] = <<>>]
  BY DEF ReturnTo, GivesBack
<1> QED BY <1>3, <1>4

-----------------------------------------------------------------------------

\* The functions over the tasks, and what a task that has not run has left.
PortInd ==
  /\ PortInv
  /\ DOMAIN stack = Thread /\ DOMAIN left = Thread
  /\ phase = "boot" => left = [t \in Thread |-> Fresh(t)]

LEMMA FreshFrames ==
  ASSUME NEW t
  PROVE  /\ Frames(Fresh(t)) /\ Fresh(t).fpu = FALSE
         /\ Fresh(t).low = Unwritten("low") /\ Fresh(t).low.value = "none"
         /\ Fresh(t).high = Unwritten("high") /\ Fresh(t).high.value = "none"
<1>1. Fresh(t).fpu = FALSE /\ Fresh(t).frame.fpu = FALSE
  BY DEF Fresh, Cell
<1>2. /\ Fresh(t).low = Unwritten("low") /\ Fresh(t).low.value = "none"
      /\ Fresh(t).high = Unwritten("high") /\ Fresh(t).high.value = "none"
  BY DEF Fresh, Unwritten, Cell
<1> QED BY <1>1, <1>2 DEF Frames

LEMMA Boots == PortInit => PortInd
<1> SUFFICES ASSUME PortInit PROVE PortInd
  OBVIOUS
<1>1. port \in {"m0", "m3"} \union WithFpu /\ phase = "boot" /\ current \in Thread /\ exc = FALSE
  BY DEF PortInit
<1>2. live.fpu = FALSE
  BY DEF PortInit, Context
<1>3. /\ left = [t \in Thread |-> Fresh(t)]
      /\ stack = [t \in Thread |-> port_init_task_stack(t)]
  BY DEF PortInit
<1>4. ASSUME NEW t \in Thread
      PROVE  Frames(left[t]) /\ stack[t] = save(left[t], left[t].fpu)
  <2>1. left[t] = Fresh(t) /\ left[t].fpu = FALSE /\ stack[t] = port_init_task_stack(t)
    BY <1>3, FreshFrames
  <2>2. port_init_task_stack(t) = save(Fresh(t), FALSE)
    BY <1>1, FreshFrames DEF port_init_task_stack, init_m0, init_m3, init_m4, init_m7,
       save, save_m0, save_m3, save_m4, save_m7, WithFpu
  <2> QED BY <2>1, <2>2, FreshFrames
<1>5. StacksComplete
  BY <1>4 DEF StacksComplete
<1> QED BY <1>1, <1>2, <1>3, <1>4, <1>5 DEF PortInd, PortInv

\* What the task that goes on gets, when PendSV or the first start is over.
LEMMA GoesOn ==
  ASSUME PortInd, NEW r, ReturnTo(r), GivesBack(r, stack[current], left[current]),
         phase # "thread", UNCHANGED <<port, current, exc, left>>
  PROVE  PortInd' /\ Resumed(live', left[current]) /\ stack'[current] = <<>>
<1>1. Frames(left[current]) /\ current \in Thread /\ DOMAIN stack = Thread
  BY DEF PortInd, PortInv
<1>2. /\ Resumed(live', left[current]) /\ Frames(live')
      /\ stack'[current] = <<>> /\ DOMAIN stack' = Thread
      /\ \A t \in Thread \ {current} : stack'[t] = stack[t]
  BY <1>1, Returned
<1>3. phase' = "thread"
  BY DEF ReturnTo
<1>4. (Frames(live))' /\ \A t \in Thread : (Frames(left[t]))'
  BY <1>2 DEF PortInd, PortInv, Frames
<1>5. StacksComplete'
  BY <1>2, <1>3 DEF PortInd, PortInv, StacksComplete, save, save_m0, save_m3, save_m4, save_m7
<1> QED BY <1>2, <1>3, <1>4, <1>5 DEF PortInd, PortInv, Frames

\* The first task: its registers are the ones of a task that has not run.
LEMMA Starts ==
  ASSUME PortInd, port_start_first_task
  PROVE  PortInd' /\ Resumed(live', left[current]) /\ stack'[current] = <<>>
<1> DEFINE s == stack[current]
           c == left[current]
<1>1. /\ phase = "boot" /\ UNCHANGED <<port, current, exc, left>>
      /\ current \in Thread /\ port \in {"m0", "m3"} \union WithFpu /\ live.fpu = FALSE
  BY DEF PortInd, PortInv, port_start_first_task
<1>2. c = Fresh(current) /\ Frames(c) /\ s = save(c, c.fpu) /\ c.fpu = FALSE
  BY <1>1, FreshFrames DEF PortInd, PortInv, StacksComplete
<1>3. c.low.value = "none" /\ c.high.value = "none"
  BY <1>2, FreshFrames
<1> HIDE DEF s, c
<1>4. CASE port = "m0"
  <2> DEFINE r == [low |-> live.low, high |-> live.high, fp |-> live.fp, exc |-> FALSE, psp |-> 3]
  <2>1. ReturnTo(r)
    BY <1>4 DEF port_start_first_task, start_m0
  <2>2. s = <<c.low, c.high, c.frame>>
    BY <1>2, <1>4 DEF save, save_m0
  <2>3. At(s, 3) = c.frame /\ SubSeq(s, 4, Len(s)) = <<>>
    BY <2>2 DEF At
  <2>4. r.exc = FALSE
    OBVIOUS
  <2>5. r.psp = 3 /\ r.psp + 1 = 4
    OBVIOUS
  <2> HIDE DEF r
  <2>6. r.exc = c.fpu
    BY <1>2, <2>4
  <2>7. GivesBack(r, s, c)
    BY <1>2, <1>3, <2>3, <2>5, <2>6 DEF GivesBack
  <2> QED BY <1>1, <2>1, <2>7, GoesOn DEF s, c
<1>5. CASE port # "m0"
  <2> DEFINE r == restore(s, live.fpu)
  <2>1. ReturnTo(r)
    BY <1>1, <1>5 DEF port_start_first_task, start_m3, start_m4, start_m7, restore, WithFpu, s
  <2>2. GivesBack(r, s, c)
    BY <1>1, <1>2, SavedIsRestored
  <2> HIDE DEF r
  <2> QED BY <1>1, <2>1, <2>2, GoesOn DEF s, c
<1> QED BY <1>4, <1>5

LEMMA Restores ==
  ASSUME PortInd, PendSVRestore
  PROVE  PortInd' /\ Resumed(live', left[current]) /\ stack'[current] = <<>>
<1> DEFINE s == stack[current]
           c == left[current]
           r == restore(s, exc)
<1>1. /\ phase = "switched" /\ UNCHANGED <<port, current, exc, left>> /\ ReturnTo(r)
  BY DEF PendSVRestore
<1>2. /\ current \in Thread /\ port \in {"m0", "m3"} \union WithFpu
      /\ exc \in BOOLEAN /\ (exc => port \in WithFpu)
  BY DEF PortInd, PortInv
<1>3. Frames(c) /\ s = save(c, c.fpu)
  BY <1>1 DEF PortInd, PortInv, StacksComplete
<1>4. GivesBack(r, s, c)
  BY <1>2, <1>3, SavedIsRestored
<1> HIDE DEF r
<1> QED BY <1>1, <1>4, GoesOn

LEMMA Works == PortInd /\ Work => PortInd'
<1> SUFFICES ASSUME PortInd, Work PROVE PortInd'
  OBVIOUS
<1>1. phase = "thread" /\ UNCHANGED <<port, phase, current, exc, stack, left>>
  BY DEF Work
<1>2. PICK v \in Value, fpu \in BOOLEAN :
        /\ fpu => port \in WithFpu
        /\ live' = [Context(current, v, fpu) EXCEPT !.fp = IF fpu THEN @ ELSE live.fp]
  BY DEF Work
<1>3. live'.fpu = fpu /\ live'.frame.fpu = fpu
  BY <1>2 DEF Context, Cell
<1>4. (Frames(live))'
  BY <1>1, <1>2, <1>3 DEF Frames
<1>5. \A t \in Thread : (Frames(left[t]))'
  BY <1>1 DEF PortInd, PortInv, Frames
<1>6. StacksComplete'
  BY <1>1 DEF PortInd, PortInv, StacksComplete, save, save_m0, save_m3, save_m4, save_m7
<1> QED BY <1>1, <1>4, <1>5, <1>6 DEF PortInd, PortInv, Frames

LEMMA Saves == PortInd /\ PendSVSave => PortInd'
<1> SUFFICES ASSUME PortInd, PendSVSave PROVE PortInd'
  OBVIOUS
<1>1. /\ phase = "thread" /\ phase' = "saved" /\ exc' = live.fpu
      /\ stack' = [stack EXCEPT ![current] = save(live, live.fpu)]
      /\ left' = [left EXCEPT ![current] = live]
      /\ UNCHANGED <<port, current, live>>
  BY DEF PendSVSave
<1>2. current \in Thread /\ Frames(live) /\ DOMAIN stack = Thread /\ DOMAIN left = Thread
  BY <1>1 DEF PortInd, PortInv
<1>3. ASSUME NEW t \in Thread
      PROVE  (Frames(left[t]))' /\ stack'[t] = save(left'[t], left'[t].fpu)
  <2>1. CASE t = current
    <3>1. left'[t] = live /\ stack'[t] = save(live, live.fpu)
      BY <1>1, <1>2, <2>1
    <3> QED BY <1>1, <1>2, <3>1 DEF Frames
  <2>2. CASE t # current
    <3>1. left'[t] = left[t] /\ stack'[t] = stack[t]
      BY <1>1, <1>2, <2>2
    <3>2. Frames(left[t]) /\ stack[t] = save(left[t], left[t].fpu)
      BY <2>2 DEF PortInd, PortInv, StacksComplete
    <3> QED BY <1>1, <3>1, <3>2 DEF Frames
  <2> QED BY <2>1, <2>2
<1>4. StacksComplete'
  BY <1>1, <1>3 DEF StacksComplete, save, save_m0, save_m3, save_m4, save_m7
<1>5. exc' \in BOOLEAN /\ (exc' => port' \in WithFpu)
  BY <1>1, <1>2 DEF Frames
<1> QED BY <1>1, <1>2, <1>3, <1>4, <1>5 DEF PortInd, PortInv

LEMMA Switches == PortInd /\ SwitchNext => PortInd'
<1> SUFFICES ASSUME PortInd, SwitchNext PROVE PortInd'
  OBVIOUS
<1>1. /\ phase = "saved" /\ phase' = "switched" /\ current' \in Thread
      /\ UNCHANGED <<port, live, exc, stack, left>>
  BY DEF SwitchNext
<1>2. \A t \in Thread : (Frames(left[t]))'
  BY <1>1 DEF PortInd, PortInv, Frames
<1>3. StacksComplete'
  BY <1>1 DEF PortInd, PortInv, StacksComplete, save, save_m0, save_m3, save_m4, save_m7
<1> QED BY <1>1, <1>2, <1>3 DEF PortInd, PortInv

-----------------------------------------------------------------------------

Kept == phase # "thread" /\ phase' = "thread" =>
          Resumed(live', left[current]) /\ stack'[current] = <<>>

LEMMA PortStep == PortInd /\ [PortNext]_portVars => PortInd' /\ Kept
<1> SUFFICES ASSUME PortInd, [PortNext]_portVars PROVE PortInd' /\ Kept
  OBVIOUS
<1>1. CASE port_start_first_task
  BY <1>1, Starts DEF Kept
<1>2. CASE Work
  BY <1>2, Works DEF Kept, Work
<1>3. CASE PendSVSave
  BY <1>3, Saves DEF Kept, PendSVSave
<1>4. CASE SwitchNext
  BY <1>4, Switches DEF Kept, SwitchNext
<1>5. CASE PendSVRestore
  BY <1>5, Restores DEF Kept
<1>6. CASE UNCHANGED portVars
  <2>1. UNCHANGED <<port, phase, current, live, exc, stack, left>>
    BY <1>6 DEF portVars
  <2>2. (\A t \in Thread : (Frames(left[t]))') /\ (Frames(live) => (Frames(live))')
    BY <2>1 DEF PortInd, PortInv, Frames
  <2>3. StacksComplete'
    BY <2>1 DEF PortInd, PortInv, StacksComplete, save, save_m0, save_m3, save_m4, save_m7
  <2> QED BY <2>1, <2>2, <2>3 DEF PortInd, PortInv, Kept
<1> QED BY <1>1, <1>2, <1>3, <1>4, <1>5, <1>6 DEF PortNext

\* Whenever PendSV looks for the next task, the stack of every task it may go on
\* with is complete, on each of the four cores.
THEOREM StacksAlwaysComplete == PortSpec => []PortInv
<1>1. PortInd => PortInv
  BY DEF PortInd
<1> QED BY <1>1, Boots, PortStep, PTL DEF PortSpec

\* A task that goes on has every register as it was when the task was stopped, and
\* its stack pointer where it was.
THEOREM ContextAlwaysKept == PortSpec => ContextKept
<1>1. PortInd /\ [PortNext]_portVars => [Kept]_portVars
  BY PortStep
<1>2. [Kept]_portVars <=> [phase # "thread" /\ phase' = "thread" =>
       Resumed(live', left[current]) /\ stack'[current] = <<>>]_portVars
  BY DEF Kept
<1> QED BY <1>1, <1>2, Boots, PortStep, PTL DEF PortSpec, ContextKept

-----------------------------------------------------------------------------
(* Memory *)

Block == [addr : Nat, size : Nat]

\* The blocks lie in the pool one behind the other from its start on, all aligned,
\* each with room for its header.
WellPlaced(list) ==
  /\ list \in Seq(Block)
  /\ list # <<>> => list[1].addr = PoolStart
  /\ \A i \in DOMAIN list :
       /\ list[i].addr % BYTE_ALIGNMENT = 0 /\ End(list[i]) % BYTE_ALIGNMENT = 0
       /\ PoolStart <= list[i].addr /\ End(list[i]) <= memory_pool_end
       /\ STRUCT_SIZE <= list[i].size
  /\ \A i, j \in DOMAIN list : i < j => End(list[i]) <= list[j].addr

Within(h, block) ==
  h.addr = block.addr + STRUCT_SIZE /\ h.addr + h.size <= End(block)

\* What the callers hs have lies in blocks of the list behind the head, and no two
\* have one block.
Owned(hs, list) ==
  /\ hs \subseteq Block
  /\ \A h \in hs : \E i \in 2 .. Len(list) : Within(h, list[i])
  /\ \A g, h \in hs : g.addr = h.addr => g = h

\* u[i] is the sum of the sizes of the blocks 2 .. i.
Sums(u, list) == u = [i \in DOMAIN list |-> IF i = 1 THEN 0 ELSE u[i - 1] + list[i].size]

\* n is what the blocks of the list leave of the pool.
Accounted(list, n) ==
  Sums(used(list), list) /\ n = InitialSize - used(list)[Len(list)]

MemInd ==
  /\ WellPlaced(blocks) /\ Owned(held, blocks)
  /\ IF blocks = <<>> THEN memory_pool_size = MEMORYPOOL_SIZE
                      ELSE Accounted(blocks, memory_pool_size)
  /\ size \in [Client -> Sizes \union {0}] /\ pc \in [Client -> {"out", "test", "place"}]
  /\ \A t \in Client : pc[t] # "out" => blocks # <<>>

\* The limits of the pool, and the sizes of the blocks.
LEMMA PoolFacts ==
  /\ BYTE_ALIGNMENT \in Nat \ {0} /\ STRUCT_SIZE \in Nat \ {0}
  /\ STRUCT_SIZE % BYTE_ALIGNMENT = 0
  /\ PoolAddr \in Nat /\ MEMORYPOOL_SIZE \in Nat /\ PoolStart \in Nat
  /\ PoolStart % BYTE_ALIGNMENT = 0
  /\ PoolAddr <= PoolStart /\ PoolStart < PoolAddr + BYTE_ALIGNMENT
  /\ memory_pool_end \in Int
  /\ memory_pool_end <= PoolAddr + MEMORYPOOL_SIZE - STRUCT_SIZE
  /\ \A x \in Int : x % BYTE_ALIGNMENT = 0 /\ x <= PoolAddr + MEMORYPOOL_SIZE - STRUCT_SIZE
                      => x <= memory_pool_end
<1> DEFINE A == BYTE_ALIGNMENT
           n == PoolAddr + MEMORYPOOL_SIZE - STRUCT_SIZE
<1>1. /\ A \in Nat \ {0} /\ STRUCT_SIZE \in Nat \ {0} /\ PoolAddr \in Nat
      /\ MEMORYPOOL_SIZE \in Nat /\ Align(STRUCT_SIZE) = STRUCT_SIZE
  BY MemoryAssumption
<1> HIDE DEF A
<1>2. ASSUME NEW x \in Nat PROVE (-x) % A \in 0 .. A - 1 /\ (x + ((-x) % A)) % A = 0
  <2>1. x \in Int
    OBVIOUS
  <2> QED BY <1>1, <2>1, AlignedUp
<1>3. STRUCT_SIZE % A = 0
  BY <1>1, <1>2 DEF Align, A
<1>4. PoolStart \in Nat /\ PoolStart % A = 0 /\ PoolAddr <= PoolStart /\ PoolStart < PoolAddr + A
  BY <1>1, <1>2 DEF PoolStart, Align, A
<1>5. PoolStart + InitialSize - STRUCT_SIZE = n /\ n \in Int
  BY <1>1, <1>4 DEF InitialSize
<1> HIDE DEF n
<1>6. memory_pool_end = n - (n % A)
  BY <1>5 DEF memory_pool_end, A
<1>7. n % A \in 0 .. A - 1
  BY <1>1, <1>5, Divided
<1>8. memory_pool_end \in Int /\ memory_pool_end <= n
  BY <1>1, <1>5, <1>6, <1>7
<1>9. ASSUME NEW x \in Int, x % A = 0, x <= n PROVE x <= memory_pool_end
  BY <1>1, <1>5, <1>6, <1>9, AlignedDown
<1> QED BY <1>1, <1>3, <1>4, <1>8, <1>9 DEF A, n

\* A block is aligned and has room for its header and what was asked for.
LEMMA BlockSize ==
  ASSUME NEW n \in Nat
  PROVE  /\ block_size(n) \in Nat /\ block_size(n) % BYTE_ALIGNMENT = 0
         /\ n + STRUCT_SIZE <= block_size(n)
<1>1. BYTE_ALIGNMENT \in Nat \ {0} /\ n + STRUCT_SIZE \in Nat
  BY PoolFacts
<1> DEFINE m == n + STRUCT_SIZE
<1>2. m \in Nat /\ m \in Int
  BY <1>1
<1> HIDE DEF m
<1>3. (-m) % BYTE_ALIGNMENT \in 0 .. BYTE_ALIGNMENT - 1
      /\ (m + ((-m) % BYTE_ALIGNMENT)) % BYTE_ALIGNMENT = 0
  BY <1>1, <1>2, AlignedUp
<1>4. block_size(n) = m + ((-m) % BYTE_ALIGNMENT)
  BY DEF block_size, Align, m
<1> QED BY <1>1, <1>2, <1>3, <1>4 DEF m

\* The pool has room for the head and for what main() allocates.
LEMMA MainFits ==
  PoolStart + STRUCT_SIZE + block_size(MainSize) <= memory_pool_end
<1> DEFINE A == BYTE_ALIGNMENT
           m == MainSize + STRUCT_SIZE
           r == (-MainSize) % A
           s == (-m) % A
<1>1. /\ A \in Nat \ {0} /\ STRUCT_SIZE \in Nat \ {0} /\ MainSize \in Nat
      /\ STRUCT_SIZE % A = 0 /\ PoolStart \in Nat /\ PoolStart % A = 0
      /\ PoolStart < PoolAddr + A /\ PoolAddr \in Nat /\ MEMORYPOOL_SIZE \in Nat
      /\ MEMORYPOOL_SIZE >= A + 3 * STRUCT_SIZE + (MainSize + r)
  BY PoolFacts, MemoryAssumption DEF Align
<1> HIDE DEF A
<1>2. s = r
  <2>0. STRUCT_SIZE \in Int
    BY <1>1
  <2>1. PICK p \in Int : STRUCT_SIZE = p * A
    BY <1>1, <2>0, Divisible
  <2>2. -MainSize \in Int /\ r \in 0 .. A - 1
    BY <1>1, Divided
  <2>3. PICK q \in Int : -MainSize = (q * A) + r
    BY <1>1, <2>2, Divided
  <2> HIDE DEF r
  <2>4. q - p \in Int /\ (q - p) * A = (q * A) - (p * A) /\ q * A \in Int /\ p * A \in Int
    BY <1>1
  <2>5. -m = ((q - p) * A) + r /\ -m \in Int
    BY <1>1, <2>1, <2>2, <2>3, <2>4
  <2> HIDE DEF m
  <2> QED BY <1>1, <2>2, <2>4, <2>5, ModUnique
<1> DEFINE x == PoolStart + STRUCT_SIZE + block_size(MainSize)
<1>3. block_size(MainSize) = m + r
  BY <1>2 DEF block_size, Align, A
<1>4. r \in 0 .. A - 1
  <2>1. -MainSize \in Int
    BY <1>1
  <2> QED BY <1>1, <2>1, Divided
<1>5. block_size(MainSize) \in Nat /\ block_size(MainSize) % A = 0
  BY <1>1, BlockSize DEF A
<1>6. x % A = 0 /\ x \in Int
  <2>1. PoolStart \in Int /\ STRUCT_SIZE \in Int /\ block_size(MainSize) \in Int
        /\ PoolStart + STRUCT_SIZE \in Int
    BY <1>1, <1>5
  <2>2. PICK y \in Int : y = PoolStart + STRUCT_SIZE
    BY <2>1
  <2>3. PICK b \in Int : b = block_size(MainSize)
    BY <2>1
  <2>4. A \in Nat \ {0} /\ y % A = 0 /\ b % A = 0
    BY <1>1, <1>5, <2>1, <2>2, <2>3, DivisibleSum
  <2>5. (y + b) % A = 0
    BY <2>4, DivisibleSum
  <2> QED BY <2>2, <2>3, <2>5
<1>7. x <= PoolAddr + MEMORYPOOL_SIZE - STRUCT_SIZE
  <2> HIDE DEF r
  <2> QED BY <1>1, <1>3, <1>4
<1> HIDE DEF x
<1>8. x <= memory_pool_end
  BY <1>6, <1>7, PoolFacts DEF A
<1> QED BY <1>8 DEF x

\* First fit finds a block with a gap of n bytes behind it, or the last one.
LEMMA PlaceFits ==
  ASSUME NEW list \in Seq(Block), list # <<>>, NEW n
  PROVE  /\ place(list, n) \in DOMAIN list
         /\ place(list, n) = Len(list) \/ fits(list, place(list, n), n)
<1> DEFINE fitting == {i \in DOMAIN list : i = Len(list) \/ fits(list, i, n)}
<1>1. Len(list) \in Nat /\ DOMAIN list = 1 .. Len(list) /\ Len(list) > 0
  OBVIOUS
<1>2. fitting \in SUBSET Nat /\ Len(list) \in fitting
  BY <1>1
<1> HIDE DEF fitting
<1>3. Min(fitting) \in fitting
  BY <1>2, LeastExists
<1>4. place(list, n) = Min(fitting)
  BY DEF place, fitting
<1> QED BY <1>3, <1>4 DEF fitting

\* The numbers in a block.
LEMMA Numbers ==
  ASSUME NEW list \in Seq(Block), NEW i \in 1 .. Len(list)
  PROVE  /\ list[i] \in Block /\ list[i].addr \in Nat /\ list[i].size \in Nat
         /\ End(list[i]) \in Nat /\ list[i].addr <= End(list[i])
<1>1. list[i] \in Block
  OBVIOUS
<1>2. list[i].addr \in Nat /\ list[i].size \in Nat
  BY <1>1 DEF Block
<1> QED BY <1>1, <1>2 DEF End

\* What a caller has has one block, and no two callers have parts of it.
LEMMA InOneBlock ==
  ASSUME NEW list \in Seq(Block), WellPlaced(list),
         NEW i \in 1 .. Len(list), NEW j \in 1 .. Len(list), list[i].addr = list[j].addr
  PROVE  i = j
<1>1. DOMAIN list = 1 .. Len(list)
  OBVIOUS
<1>2. /\ list[i].addr \in Nat /\ list[i].size \in Nat
      /\ list[j].addr \in Nat /\ list[j].size \in Nat
  BY Numbers
<1>3. list[i].size > 0 /\ list[j].size > 0
  BY <1>1, <1>2, PoolFacts DEF WellPlaced
<1>4. /\ i < j => End(list[i]) <= list[j].addr
      /\ j < i => End(list[j]) <= list[i].addr
  BY <1>1 DEF WellPlaced
<1>5. ~(i < j) /\ ~(j < i)
  BY <1>2, <1>3, <1>4 DEF End
<1> QED BY <1>5

\* A block put behind the block p, which the gap there has room for, leaves the
\* list in order.
LEMMA InsertPlaced ==
  ASSUME NEW list \in Seq(Block), WellPlaced(list), NEW block \in Block,
         NEW p \in Nat, p \in 1 .. Len(list),
         block.addr = End(list[p]), End(block) % BYTE_ALIGNMENT = 0,
         STRUCT_SIZE <= block.size, End(block) <= memory_pool_end,
         p < Len(list) => End(block) <= list[p + 1].addr,
         NEW list2 \in Seq(Block), IsInsert(list2, list, p + 1, block)
  PROVE  WellPlaced(list2)
<1>1. DOMAIN list = 1 .. Len(list) /\ DOMAIN list2 = 1 .. Len(list2) /\ Len(list) \in Nat
  OBVIOUS
<1>2. /\ Len(list2) = Len(list) + 1
      /\ \A k \in 1 .. Len(list) + 1 :
           list2[k] = IF k < p + 1 THEN list[k] ELSE IF k = p + 1 THEN block ELSE list[k - 1]
  BY DEF IsInsert
<1>3. block.addr \in Nat /\ block.size \in Nat /\ End(block) \in Nat
  BY DEF Block, End
<1>4. ASSUME NEW i \in 1 .. Len(list) + 1
      PROVE  /\ list2[i].addr % BYTE_ALIGNMENT = 0 /\ End(list2[i]) % BYTE_ALIGNMENT = 0
             /\ PoolStart <= list2[i].addr /\ End(list2[i]) <= memory_pool_end
             /\ STRUCT_SIZE <= list2[i].size
  <2>1. CASE i = p + 1
    <3>1. list2[i] = block
      BY <1>2, <2>1
    <3>2. End(list[p]) % BYTE_ALIGNMENT = 0 /\ PoolStart <= list[p].addr
      BY <1>1 DEF WellPlaced
    <3>3. PoolStart <= End(list[p])
      BY <3>2, Numbers, PoolFacts
    <3> QED BY <3>1, <3>2, <3>3
  <2>2. CASE i < p + 1
    <3>1. list2[i] = list[i] /\ i \in 1 .. Len(list)
      BY <1>1, <1>2, <2>2
    <3> QED BY <1>1, <3>1 DEF WellPlaced
  <2>3. CASE i > p + 1
    <3>1. list2[i] = list[i - 1] /\ i - 1 \in 1 .. Len(list)
      BY <1>1, <1>2, <2>3
    <3> QED BY <1>1, <3>1 DEF WellPlaced
  <2> QED BY <2>1, <2>2, <2>3
<1>5. \A k, l \in 1 .. Len(list) : k < l => End(list[k]) <= list[l].addr
  BY <1>1 DEF WellPlaced
<1>6. ASSUME NEW i \in 1 .. Len(list) + 1, NEW j \in 1 .. Len(list) + 1, i < j
      PROVE  End(list2[i]) <= list2[j].addr
  <2>1. CASE j < p + 1
    <3>1. /\ list2[i] = list[i] /\ i \in 1 .. Len(list)
          /\ list2[j] = list[j] /\ j \in 1 .. Len(list)
      BY <1>1, <1>2, <1>6, <2>1
    <3> QED BY <1>5, <1>6, <3>1
  <2>2. CASE i < p + 1 /\ j > p + 1
    <3>1. /\ list2[i] = list[i] /\ i \in 1 .. Len(list)
          /\ list2[j] = list[j - 1] /\ j - 1 \in 1 .. Len(list) /\ i < j - 1
      BY <1>1, <1>2, <2>2
    <3> QED BY <1>5, <3>1
  <2>3. CASE i > p + 1
    <3>1. /\ list2[i] = list[i - 1] /\ i - 1 \in 1 .. Len(list)
          /\ list2[j] = list[j - 1] /\ j - 1 \in 1 .. Len(list) /\ i - 1 < j - 1
      BY <1>1, <1>2, <1>6, <2>3
    <3> QED BY <1>5, <3>1
  <2>4. CASE j = p + 1
    <3>1. list2[i] = list[i] /\ i \in 1 .. Len(list) /\ i <= p /\ list2[j] = block
      BY <1>1, <1>2, <1>6, <2>4
    <3>2. i < p => End(list[i]) <= list[p].addr
      BY <1>5, <3>1
    <3>3. list[p].addr \in Nat /\ End(list[p]) \in Nat /\ list[p].addr <= End(list[p])
          /\ End(list[i]) \in Nat
      BY <3>1, Numbers
    <3>4. End(list[i]) <= End(list[p])
      <4>1. CASE i = p
        BY <3>3, <4>1
      <4>2. CASE i < p
        BY <3>2, <3>3, <4>2
      <4> QED BY <3>1, <4>1, <4>2
    <3> QED BY <3>1, <3>4
  <2>5. CASE i = p + 1
    <3>1. list2[j] = list[j - 1] /\ j - 1 \in 1 .. Len(list) /\ p < j - 1 /\ list2[i] = block
      BY <1>1, <1>2, <1>6, <2>5
    <3>2. p + 1 \in 1 .. Len(list) /\ End(block) <= list[p + 1].addr
      BY <1>1, <3>1
    <3>3. list[p + 1].addr \in Nat /\ End(list[p + 1]) \in Nat /\ list[j - 1].addr \in Nat
          /\ list[p + 1].addr <= End(list[p + 1])
      BY <3>1, <3>2, Numbers
    <3>4. list[p + 1].addr <= list[j - 1].addr
      <4>1. CASE p + 1 = j - 1
        BY <3>3, <4>1
      <4>2. CASE p + 1 < j - 1
        <5>1. PICK k \in 1 .. Len(list), l \in 1 .. Len(list) : k = p + 1 /\ l = j - 1 /\ k < l
          BY <3>1, <3>2, <4>2
        <5>2. End(list[k]) <= list[l].addr
          BY <1>5, <5>1
        <5>3. PICK a \in Nat, e \in Nat, b \in Nat :
                a = list[k].addr /\ e = End(list[k]) /\ b = list[l].addr /\ a <= e
          BY <3>3, <5>1
        <5> QED BY <5>1, <5>2, <5>3
      <4> QED BY <3>1, <4>1, <4>2
    <3> QED BY <1>3, <3>1, <3>2, <3>3, <3>4
  <2> QED BY <1>6, <2>1, <2>2, <2>3, <2>4, <2>5
<1>7. list2[1].addr = PoolStart
  BY <1>1, <1>2 DEF WellPlaced
<1> QED BY <1>1, <1>2, <1>4, <1>6, <1>7 DEF WellPlaced

\* The memory of the callers stays in its blocks when a block is inserted, and
\* that of the caller who gets it is in the new one.
LEMMA InsertOwned ==
  ASSUME NEW list \in Seq(Block), NEW hs, Owned(hs, list), NEW block \in Block,
         NEW p \in Nat, p \in 1 .. Len(list),
         NEW list2 \in Seq(Block), WellPlaced(list2), IsInsert(list2, list, p + 1, block),
         NEW new \in Block, Within(new, block)
  PROVE  Owned(hs \union {new}, list2) /\ new \notin hs
<1>1. DOMAIN list = 1 .. Len(list) /\ DOMAIN list2 = 1 .. Len(list2) /\ Len(list) \in Nat
  OBVIOUS
<1>2. /\ Len(list2) = Len(list) + 1
      /\ \A k \in 1 .. Len(list) + 1 :
           list2[k] = IF k < p + 1 THEN list[k] ELSE IF k = p + 1 THEN block ELSE list[k - 1]
  BY DEF IsInsert
<1>3. list2[p + 1] = block /\ p + 1 \in 2 .. Len(list2)
  BY <1>1, <1>2
<1>4. ASSUME NEW h \in hs
      PROVE  \E i \in 2 .. Len(list2) : i # p + 1 /\ Within(h, list2[i])
  <2>1. PICK i \in 2 .. Len(list) : Within(h, list[i])
    BY <1>1 DEF Owned
  <2>2. CASE i < p + 1
    <3>1. i \in 2 .. Len(list2) /\ i # p + 1 /\ list2[i] = list[i]
      BY <1>1, <1>2, <2>2
    <3> QED BY <2>1, <3>1
  <2>3. CASE i >= p + 1
    <3>1. i + 1 \in 2 .. Len(list2) /\ i + 1 # p + 1 /\ list2[i + 1] = list[i]
      BY <1>1, <1>2, <2>3
    <3> QED BY <2>1, <3>1
  <2> QED BY <2>2, <2>3
<1>5. ASSUME NEW h \in hs, h.addr = new.addr PROVE FALSE
  <2>1. PICK i \in 2 .. Len(list2) : i # p + 1 /\ Within(h, list2[i])
    BY <1>4
  <2>2. list2[i].addr \in Nat /\ block.addr \in Nat
    <3>1. i \in 1 .. Len(list2)
      BY <1>1
    <3> QED BY <3>1, Numbers DEF Block
  <2>3. list2[i].addr = block.addr
    BY <1>5, <2>1, <2>2, PoolFacts DEF Within
  <2> QED BY <1>1, <1>3, <2>1, <2>3, InOneBlock
<1>6. hs \subseteq Block /\ \A g, h \in hs : g.addr = h.addr => g = h
  BY DEF Owned
<1>7. \A h \in hs \union {new} : \E i \in 2 .. Len(list2) : Within(h, list2[i])
  BY <1>1, <1>3, <1>4
<1>8. \A g, h \in hs \union {new} : g.addr = h.addr => g = h
  BY <1>5, <1>6
<1> QED BY <1>5, <1>6, <1>7, <1>8 DEF Owned

-----------------------------------------------------------------------------
(* The size of the pool *)

\* The function used(list) is the one that Sums describes, when there is one.
LEMMA UsedSums ==
  ASSUME NEW list, NEW u, Sums(u, list)
  PROVE  Sums(used(list), list)
BY DEF Sums, used

LEMMA SumsAre ==
  ASSUME NEW list \in Seq(Block), NEW u, Sums(u, list)
  PROVE  /\ DOMAIN u = 1 .. Len(list)
         /\ 1 \in 1 .. Len(list) => u[1] = 0
         /\ \A i \in 2 .. Len(list) : u[i] = u[i - 1] + list[i].size
<1>1. DOMAIN list = 1 .. Len(list) /\ Len(list) \in Nat
  OBVIOUS
<1>2. u = [i \in 1 .. Len(list) |-> IF i = 1 THEN 0 ELSE u[i - 1] + list[i].size]
  BY <1>1 DEF Sums
<1>3. ASSUME NEW i \in 2 .. Len(list) PROVE u[i] = u[i - 1] + list[i].size
  BY <1>1, <1>2
<1> QED BY <1>1, <1>2, <1>3

\* The sums are natural numbers.
LEMMA SumsNat ==
  ASSUME NEW list \in Seq(Block), NEW u, Sums(u, list)
  PROVE  \A i \in 1 .. Len(list) : u[i] \in Nat
<1> DEFINE bad == {i \in 1 .. Len(list) : u[i] \notin Nat}
<1>1. bad \in SUBSET Nat /\ Len(list) \in Nat
  OBVIOUS
<1>2. ASSUME bad # {} PROVE FALSE
  <2> HIDE DEF bad
  <2>1. Min(bad) \in bad /\ \A j \in bad : Min(bad) <= j
    BY <1>1, <1>2, LeastExists
  <2>2. PICK i \in Nat : i = Min(bad)
    BY <1>1, <2>1
  <2>3. i \in 1 .. Len(list) /\ u[i] \notin Nat
    BY <2>1, <2>2 DEF bad
  <2>4. i # 1
    BY <2>3, SumsAre
  <2>5. i \in 2 .. Len(list) /\ i - 1 \in 1 .. Len(list) /\ ~(i <= i - 1)
    BY <2>3, <2>4
  <2>6. u[i - 1] \in Nat
    BY <2>1, <2>2, <2>5 DEF bad
  <2>7. list[i].size \in Nat
    BY <2>3, Numbers
  <2>8. u[i] = u[i - 1] + list[i].size
    BY <2>5, SumsAre
  <2> QED BY <2>3, <2>6, <2>7, <2>8
<1> QED BY <1>2

\* There is one such function only.
LEMMA SumsUnique ==
  ASSUME NEW list \in Seq(Block), NEW u, Sums(u, list), NEW v, Sums(v, list)
  PROVE  \A i \in 1 .. Len(list) : u[i] = v[i]
<1> DEFINE bad == {i \in 1 .. Len(list) : u[i] # v[i]}
<1>1. bad \in SUBSET Nat /\ Len(list) \in Nat
  OBVIOUS
<1>2. ASSUME bad # {} PROVE FALSE
  <2> HIDE DEF bad
  <2>1. Min(bad) \in bad /\ \A j \in bad : Min(bad) <= j
    BY <1>1, <1>2, LeastExists
  <2>2. PICK i \in Nat : i = Min(bad)
    BY <1>1, <2>1
  <2>3. i \in 1 .. Len(list) /\ u[i] # v[i]
    BY <2>1, <2>2 DEF bad
  <2>4. i # 1
    BY <2>3, SumsAre
  <2>5. i \in 2 .. Len(list) /\ i - 1 \in 1 .. Len(list) /\ ~(i <= i - 1)
    BY <2>3, <2>4
  <2>6. u[i - 1] = v[i - 1]
    BY <2>1, <2>2, <2>5 DEF bad
  <2>7. u[i] = u[i - 1] + list[i].size /\ v[i] = v[i - 1] + list[i].size
    BY <2>5, SumsAre
  <2> QED BY <2>3, <2>6, <2>7
<1> QED BY <1>2

\* The blocks up to the i-th lie between the start of the pool and its end.
LEMMA SumsWithin ==
  ASSUME NEW list \in Seq(Block), WellPlaced(list), NEW u, Sums(u, list)
  PROVE  \A i \in 1 .. Len(list) : PoolStart + STRUCT_SIZE + u[i] <= End(list[i])
<1> DEFINE bad == {i \in 1 .. Len(list) : ~(PoolStart + STRUCT_SIZE + u[i] <= End(list[i]))}
<1>1. bad \in SUBSET Nat /\ Len(list) \in Nat /\ DOMAIN list = 1 .. Len(list)
  OBVIOUS
<1>2. ASSUME bad # {} PROVE FALSE
  <2> HIDE DEF bad
  <2>1. Min(bad) \in bad /\ \A j \in bad : Min(bad) <= j
    BY <1>1, <1>2, LeastExists
  <2>2. PICK i \in Nat : i = Min(bad)
    BY <1>1, <2>1
  <2>3. i \in 1 .. Len(list) /\ ~(PoolStart + STRUCT_SIZE + u[i] <= End(list[i]))
    BY <2>1, <2>2 DEF bad
  <2>4. list[i].addr \in Nat /\ list[i].size \in Nat /\ STRUCT_SIZE <= list[i].size
        /\ End(list[i]) = list[i].addr + list[i].size
    BY <1>1, <2>3, Numbers DEF WellPlaced, End
  <2>5. PoolStart \in Nat /\ STRUCT_SIZE \in Nat
    BY PoolFacts
  <2>6. i # 1
    <3>1. SUFFICES ASSUME i = 1 PROVE FALSE
      OBVIOUS
    <3>2. u[1] = 0 /\ list[1].addr = PoolStart
      BY <1>1, <2>3, <3>1, SumsAre DEF WellPlaced
    <3> QED BY <2>3, <2>4, <2>5, <3>1, <3>2
  <2>7. i \in 2 .. Len(list) /\ i - 1 \in 1 .. Len(list) /\ ~(i <= i - 1)
    BY <2>3, <2>6
  <2>8. PoolStart + STRUCT_SIZE + u[i - 1] <= End(list[i - 1])
    BY <2>1, <2>2, <2>7 DEF bad
  <2>9. u[i - 1] \in Nat /\ u[i] = u[i - 1] + list[i].size
    BY <2>7, SumsAre, SumsNat
  <2>10. End(list[i - 1]) <= list[i].addr /\ End(list[i - 1]) \in Nat
    <3>1. i - 1 < i
      OBVIOUS
    <3> QED BY <1>1, <2>3, <2>7, <3>1, Numbers DEF WellPlaced
  <2> QED BY <2>3, <2>4, <2>5, <2>8, <2>9, <2>10
<1> QED BY <1>2

\* A new block takes its size from the pool.
LEMMA InsertAccounted ==
  ASSUME NEW list \in Seq(Block), NEW p \in 1 .. Len(list), NEW block \in Block,
         NEW list2 \in Seq(Block), IsInsert(list2, list, p + 1, block),
         NEW free, Accounted(list, free)
  PROVE  Accounted(list2, free - block.size)
<1> DEFINE u == used(list)
           n == Len(list)
<1>1. n \in Nat /\ p \in 1 .. n /\ block.size \in Nat /\ Len(list2) = n + 1
      /\ DOMAIN list2 = 1 .. n + 1
  BY DEF IsInsert, Block
<1>2. \A k \in 1 .. n + 1 :
        list2[k] = IF k < p + 1 THEN list[k] ELSE IF k = p + 1 THEN block ELSE list[k - 1]
  BY <1>1 DEF IsInsert
<1>3. Sums(u, list) /\ free = InitialSize - u[n]
  BY DEF Accounted
<1>4. /\ u[1] = 0
      /\ \A i \in 2 .. n : u[i] = u[i - 1] + list[i].size
      /\ \A i \in 1 .. n : u[i] \in Nat
  BY <1>1, <1>3, SumsAre, SumsNat
<1>5. \A i \in 1 .. n : list[i].size \in Nat
  BY Numbers
<1> HIDE DEF u, n
<1> DEFINE v == [k \in 1 .. n + 1 |-> IF k < p + 1 THEN u[k] ELSE u[k - 1] + block.size]
<1>6. ASSUME NEW k \in 1 .. n + 1
      PROVE  v[k] = IF k = 1 THEN 0 ELSE v[k - 1] + list2[k].size
  <2>1. CASE k = 1
    BY <1>1, <1>4, <2>1
  <2>2. CASE k # 1 /\ k < p + 1
    <3>1. v[k] = u[k] /\ v[k - 1] = u[k - 1] /\ list2[k] = list[k] /\ k \in 2 .. n
      BY <1>1, <1>2, <2>2
    <3> QED BY <1>4, <2>2, <3>1
  <2>3. CASE k = p + 1
    <3>1. v[k] = u[p] + block.size /\ v[k - 1] = u[p] /\ list2[k] = block /\ k # 1
      BY <1>1, <1>2, <2>3
    <3> QED BY <3>1
  <2>4. CASE k > p + 1
    <3>1. v[k] = u[k - 1] + block.size /\ list2[k] = list[k - 1]
      BY <1>1, <1>2, <2>4
    <3>2. k - 1 \in 2 .. n /\ (k - 1) - 1 \in 1 .. n /\ ~(k - 1 < p + 1)
          /\ k - 1 \in 1 .. n + 1 /\ k # 1
      BY <1>1, <2>4
    <3>3. v[k - 1] = u[(k - 1) - 1] + block.size
      BY <3>2
    <3>4. u[k - 1] = u[(k - 1) - 1] + list[k - 1].size
      BY <1>4, <3>2
    <3>5. u[(k - 1) - 1] \in Nat /\ list[k - 1].size \in Nat
      <4>1. k - 1 \in 1 .. n
        BY <1>1, <3>2
      <4> QED BY <1>4, <1>5, <3>2, <4>1
    <3>6. v[k - 1] + list2[k].size = v[k]
      <4> HIDE DEF v
      <4> QED BY <1>1, <3>1, <3>3, <3>4, <3>5
    <3> QED BY <3>2, <3>6
  <2>5. k = 1 \/ (k # 1 /\ k < p + 1) \/ k = p + 1 \/ k > p + 1
    BY <1>1
  <2> QED BY <2>1, <2>2, <2>3, <2>4, <2>5
<1>7. Sums(v, list2)
  <2>1. v = [k \in 1 .. n + 1 |-> IF k = 1 THEN 0 ELSE v[k - 1] + list2[k].size]
    BY <1>6
  <2> QED BY <1>1, <2>1 DEF Sums
<1>8. v[n + 1] = u[n] + block.size
  BY <1>1
<1> HIDE DEF v
<1>9. Sums(used(list2), list2)
  BY <1>7, UsedSums
<1>10. used(list2)[n + 1] = v[n + 1]
  <2>1. n + 1 \in 1 .. Len(list2)
    BY <1>1
  <2> QED BY <1>7, <1>9, <2>1, SumsUnique
<1>11. InitialSize \in Int /\ u[n] \in Nat
  BY <1>1, <1>4, PoolFacts DEF InitialSize
<1>12. free - block.size = InitialSize - used(list2)[Len(list2)]
  BY <1>1, <1>3, <1>8, <1>10, <1>11
<1> QED BY <1>9, <1>12 DEF Accounted

\* The size of a block that is freed comes back.
LEMMA RemoveAccounted ==
  ASSUME NEW list \in Seq(Block), NEW i \in 2 .. Len(list),
         NEW list2 \in Seq(Block), Len(list2) = Len(list) - 1,
         \A k \in 1 .. Len(list) - 1 : list2[k] = IF k < i THEN list[k] ELSE list[k + 1],
         NEW free, Accounted(list, free)
  PROVE  Accounted(list2, free + list[i].size)
<1> DEFINE u == used(list)
           n == Len(list)
<1>1. n \in Nat /\ i \in 2 .. n /\ Len(list2) = n - 1 /\ DOMAIN list2 = 1 .. n - 1
  OBVIOUS
<1>2. \A k \in 1 .. n - 1 : list2[k] = IF k < i THEN list[k] ELSE list[k + 1]
  OBVIOUS
<1>3. Sums(u, list) /\ free = InitialSize - u[n]
  BY DEF Accounted
<1>4. /\ u[1] = 0
      /\ \A k \in 2 .. n : u[k] = u[k - 1] + list[k].size
      /\ \A k \in 1 .. n : u[k] \in Nat
  BY <1>1, <1>3, SumsAre, SumsNat
<1>5. \A k \in 1 .. n : list[k].size \in Nat
  BY Numbers
<1> HIDE DEF u, n
<1>0. PICK s \in Nat : s = list[i].size
  BY <1>1, <1>5
<1> DEFINE v == [k \in 1 .. n - 1 |-> IF k < i THEN u[k] ELSE u[k + 1] - s]
<1>6. ASSUME NEW k \in 1 .. n - 1
      PROVE  v[k] = IF k = 1 THEN 0 ELSE v[k - 1] + list2[k].size
  <2>1. CASE k = 1
    BY <1>1, <1>4, <2>1
  <2>2. CASE k # 1 /\ k < i
    <3>1. v[k] = u[k] /\ v[k - 1] = u[k - 1] /\ list2[k] = list[k] /\ k \in 2 .. n
      BY <1>1, <1>2, <2>2
    <3> QED BY <1>4, <2>2, <3>1
  <2>3. CASE k = i
    <3>1. v[k] = u[k + 1] - s /\ v[k - 1] = u[k - 1] /\ list2[k] = list[k + 1] /\ k # 1
      BY <1>1, <1>2, <2>3
    <3>2. k \in 2 .. n /\ k + 1 \in 2 .. n /\ k - 1 \in 1 .. n /\ k + 1 \in 1 .. n
      BY <1>1, <2>3
    <3>3. u[k + 1] = u[(k + 1) - 1] + list[k + 1].size /\ u[k] = u[k - 1] + s /\ (k + 1) - 1 = k
      BY <1>0, <1>4, <2>3, <3>2
    <3>4. u[k - 1] \in Nat /\ list[k + 1].size \in Nat
      BY <1>4, <1>5, <3>2
    <3>5. v[k] = v[k - 1] + list2[k].size
      <4> HIDE DEF v
      <4> QED BY <3>1, <3>3, <3>4
    <3> QED BY <3>1, <3>5
  <2>4. CASE k > i
    <3>1. v[k] = u[k + 1] - s /\ v[k - 1] = u[(k - 1) + 1] - s /\ list2[k] = list[k + 1] /\ k # 1
          /\ (k - 1) + 1 = k
      BY <1>1, <1>2, <2>4
    <3>2. k + 1 \in 2 .. n /\ k \in 1 .. n /\ k + 1 \in 1 .. n /\ (k + 1) - 1 = k
      BY <1>1, <2>4
    <3>3. u[k + 1] = u[k] + list[k + 1].size
      BY <1>4, <3>2
    <3>4. u[k] \in Nat /\ list[k + 1].size \in Nat
      BY <1>4, <1>5, <3>2
    <3>5. v[k] = v[k - 1] + list2[k].size
      <4> HIDE DEF v
      <4> QED BY <3>1, <3>3, <3>4
    <3> QED BY <3>1, <3>5
  <2>5. k = 1 \/ (k # 1 /\ k < i) \/ k = i \/ k > i
    BY <1>1
  <2> QED BY <2>1, <2>2, <2>3, <2>4, <2>5
<1>7. Sums(v, list2)
  <2>1. v = [k \in 1 .. n - 1 |-> IF k = 1 THEN 0 ELSE v[k - 1] + list2[k].size]
    BY <1>6
  <2> QED BY <1>1, <2>1 DEF Sums
<1>8. n - 1 \in 1 .. n - 1
  BY <1>1
<1>9. v[n - 1] = u[n] - s
  <2>1. CASE i = n
    <3>1. v[n - 1] = u[n - 1] /\ n \in 2 .. n
      BY <1>1, <1>8, <2>1
    <3>2. u[n] = u[n - 1] + s
      BY <1>0, <1>4, <2>1, <3>1
    <3>3. u[n - 1] \in Nat
      <4>1. n - 1 \in 1 .. n
        BY <1>1
      <4> QED BY <1>4, <4>1
    <3> HIDE DEF v
    <3> QED BY <3>1, <3>2, <3>3
  <2>2. CASE i < n
    <3>1. ~(n - 1 < i) /\ (n - 1) + 1 = n
      BY <1>1, <2>2
    <3> QED BY <1>8, <3>1
  <2> QED BY <1>1, <2>1, <2>2
<1> HIDE DEF v
<1>10. Sums(used(list2), list2)
  BY <1>7, UsedSums
<1>11. used(list2)[n - 1] = v[n - 1]
  <2>1. n - 1 \in 1 .. Len(list2)
    BY <1>1, <1>8
  <2> QED BY <1>7, <1>10, <2>1, SumsUnique
<1>12. InitialSize \in Int /\ u[n] \in Nat
  BY <1>1, <1>4, PoolFacts DEF InitialSize
<1>13. free + list[i].size = InitialSize - used(list2)[Len(list2)]
  BY <1>0, <1>1, <1>3, <1>9, <1>11, <1>12
<1> QED BY <1>10, <1>13 DEF Accounted

-----------------------------------------------------------------------------

\* memory_alloc keeps the list in order, and gives what nobody has.
LEMMA TakeKeeps ==
  ASSUME NEW list \in Seq(Block), NEW hs, WellPlaced(list), Owned(hs, list), list # <<>>,
         NEW n \in Nat,
         ~exhausted(list, place(list, block_size(n)), block_size(n))
  PROVE  LET block == allocated(list, block_size(n))
             list2 == InsertAt(list, place(list, block.size) + 1, block)
             new == [addr |-> block.addr + STRUCT_SIZE, size |-> n]
         IN  /\ WellPlaced(list2)
             /\ Owned(hs \union {new}, list2) /\ new \notin hs
             /\ list2 # <<>>
             /\ \A free : Accounted(list, free) => Accounted(list2, free - block_size(n))
<1>1. DOMAIN list = 1 .. Len(list) /\ Len(list) \in Nat
  OBVIOUS
<1>2. PICK m \in Nat : m = block_size(n) /\ m % BYTE_ALIGNMENT = 0 /\ n + STRUCT_SIZE <= m
  BY BlockSize
<1>3. PICK p \in Nat : /\ p = place(list, m) /\ p \in 1 .. Len(list)
                       /\ p = Len(list) \/ fits(list, p, m)
  <2>1. place(list, m) \in DOMAIN list
        /\ (place(list, m) = Len(list) \/ fits(list, place(list, m), m))
    BY PlaceFits
  <2>2. place(list, m) \in Nat /\ place(list, m) \in 1 .. Len(list)
    BY <1>1, <2>1
  <2> QED BY <2>1, <2>2
<1>4. PICK e \in Nat : e = End(list[p])
  BY <1>3, Numbers
<1>5. PICK block \in Block : block = [addr |-> e, size |-> m]
  BY DEF Block
<1>6. allocated(list, block_size(n)) = block /\ block.addr = e /\ block.size = m
      /\ End(block) = e + m
  BY <1>2, <1>3, <1>4, <1>5 DEF allocated, End
<1>7. (e + m) % BYTE_ALIGNMENT = 0
  <2>1. e \in Int /\ m \in Int /\ e % BYTE_ALIGNMENT = 0
    BY <1>1, <1>3, <1>4 DEF WellPlaced
  <2> QED BY <1>2, <2>1, PoolFacts, DivisibleSum
<1>8. STRUCT_SIZE <= m
  BY <1>2, PoolFacts
<1>9. p < Len(list) => e + m <= list[p + 1].addr
  <2>1. SUFFICES ASSUME p < Len(list) PROVE e + m <= list[p + 1].addr
    OBVIOUS
  <2>2. list[p + 1].addr \in Nat
    BY <1>3, <2>1, Numbers
  <2> QED BY <1>3, <1>4, <2>1, <2>2 DEF fits
<1>10. e + m <= memory_pool_end
  <2>1. CASE p = Len(list)
    BY <1>2, <1>3, <1>4, <2>1, PoolFacts DEF exhausted
  <2>2. CASE p < Len(list)
    <3>1. p + 1 \in 1 .. Len(list)
      BY <1>3, <2>2
    <3>2. /\ list[p + 1].addr \in Nat /\ End(list[p + 1]) \in Nat
          /\ list[p + 1].addr <= End(list[p + 1])
      BY <3>1, Numbers
    <3>3. End(list[p + 1]) <= memory_pool_end
      BY <1>1, <3>1 DEF WellPlaced
    <3> QED BY <1>9, <2>2, <3>2, <3>3, PoolFacts
  <2> QED BY <1>3, <2>1, <2>2
<1>11. PICK list2 \in Seq(Block) :
         list2 = InsertAt(list, p + 1, block) /\ IsInsert(list2, list, p + 1, block)
  <2>1. p + 1 \in 1 .. Len(list) + 1
    BY <1>3
  <2>2. /\ InsertAt(list, p + 1, block) \in Seq(Block)
        /\ IsInsert(InsertAt(list, p + 1, block), list, p + 1, block)
    BY <2>1, InsertAtInserts
  <2> QED BY <2>2
<1>12. PICK new \in Block : new = [addr |-> e + STRUCT_SIZE, size |-> n]
  <2>1. e + STRUCT_SIZE \in Nat
    BY PoolFacts
  <2>2. [addr |-> e + STRUCT_SIZE, size |-> n] \in Block
    BY <2>1 DEF Block
  <2> QED BY <2>2
<1>13. Within(new, block)
  BY <1>2, <1>6, <1>12, PoolFacts DEF Within
<1>14. WellPlaced(list2)
  BY <1>3, <1>4, <1>6, <1>7, <1>8, <1>9, <1>10, <1>11, InsertPlaced
<1>15. Owned(hs \union {new}, list2) /\ new \notin hs
  BY <1>3, <1>11, <1>13, <1>14, InsertOwned
<1>16. list2 # <<>>
  BY <1>1, <1>11 DEF IsInsert
<1>17. ASSUME NEW free, Accounted(list, free) PROVE Accounted(list2, free - m)
  BY <1>3, <1>6, <1>11, <1>17, InsertAccounted
<1> QED BY <1>2, <1>3, <1>6, <1>11, <1>12, <1>14, <1>15, <1>16, <1>17

\* memory_free keeps the list in order, and the memory of the others in it.
LEMMA FreeKeeps ==
  ASSUME NEW list \in Seq(Block), NEW hs, WellPlaced(list), Owned(hs, list), NEW h \in hs,
         NEW i \in 2 .. Len(list), list[i].addr = h.addr - STRUCT_SIZE
  PROVE  /\ RemoveAt(list, i) # <<>>
         /\ WellPlaced(RemoveAt(list, i)) /\ Owned(hs \ {h}, RemoveAt(list, i))
         /\ \A free : Accounted(list, free) => Accounted(RemoveAt(list, i), free + list[i].size)
<1>1. DOMAIN list = 1 .. Len(list) /\ Len(list) \in Nat
  OBVIOUS
<1>2. PICK list2 \in Seq(Block) :
        /\ list2 = RemoveAt(list, i) /\ Len(list2) = Len(list) - 1
        /\ \A k \in 1 .. Len(list) - 1 : list2[k] = IF k < i THEN list[k] ELSE list[k + 1]
  <2>1. i \in 1 .. Len(list)
    BY <1>1
  <2> QED BY <2>1, RemoveAtRemoves
<1>3. DOMAIN list2 = 1 .. Len(list) - 1 /\ list2 # <<>>
  BY <1>1, <1>2
<1> DEFINE old(k) == IF k < i THEN k ELSE k + 1
<1>4. ASSUME NEW k \in DOMAIN list2
      PROVE  old(k) \in DOMAIN list /\ old(k) # i /\ list2[k] = list[old(k)]
  BY <1>1, <1>2, <1>3
<1>5. WellPlaced(list2)
  <2>1. ASSUME NEW k \in DOMAIN list2, NEW l \in DOMAIN list2, k < l PROVE old(k) < old(l)
    BY <1>1, <1>3, <2>1
  <2> HIDE DEF old
  <2>2. /\ \A k \in DOMAIN list2 : old(k) \in DOMAIN list /\ list2[k] = list[old(k)]
        /\ \A k, l \in DOMAIN list2 : k < l => old(k) < old(l)
    BY <1>4, <2>1
  <2>3. ASSUME NEW k \in DOMAIN list2, NEW l \in DOMAIN list2, k < l
        PROVE  End(list2[k]) <= list2[l].addr
    BY <2>2, <2>3 DEF WellPlaced
  <2>4. ASSUME NEW k \in DOMAIN list2
        PROVE  /\ list2[k].addr % BYTE_ALIGNMENT = 0 /\ End(list2[k]) % BYTE_ALIGNMENT = 0
               /\ PoolStart <= list2[k].addr /\ End(list2[k]) <= memory_pool_end
               /\ STRUCT_SIZE <= list2[k].size
    BY <2>2 DEF WellPlaced
  <2>5. list2[1].addr = PoolStart
    BY <1>1, <1>2, <1>3 DEF WellPlaced
  <2> QED BY <2>3, <2>4, <2>5 DEF WellPlaced
<1>6. ASSUME NEW g \in hs \ {h} PROVE \E k \in 2 .. Len(list2) : Within(g, list2[k])
  <2>1. PICK j \in 2 .. Len(list) : Within(g, list[j])
    BY <1>1 DEF Owned
  <2>2. j # i
    <3>1. g \in Block /\ h \in Block /\ g.addr # h.addr
      BY DEF Owned
    <3>2. g.addr \in Nat /\ h.addr \in Nat
      BY <3>1 DEF Block
    <3>3. i \in 1 .. Len(list) /\ j \in 1 .. Len(list)
      BY <1>1
    <3>4. list[j].addr \in Nat /\ list[i].addr \in Nat
      BY <3>3, Numbers
    <3> QED BY <2>1, <3>1, <3>2, <3>4, PoolFacts DEF Within
  <2>3. CASE j < i
    <3>1. j \in 2 .. Len(list2) /\ list2[j] = list[j]
      BY <1>1, <1>2, <1>3, <2>3
    <3> QED BY <2>1, <3>1
  <2>4. CASE j > i
    <3>1. j - 1 \in 2 .. Len(list2) /\ list2[j - 1] = list[j]
      BY <1>1, <1>2, <1>3, <2>4
    <3> QED BY <2>1, <3>1
  <2> QED BY <2>2, <2>3, <2>4
<1>7. ASSUME NEW free, Accounted(list, free) PROVE Accounted(list2, free + list[i].size)
  BY <1>2, <1>7, RemoveAccounted
<1> QED BY <1>2, <1>3, <1>5, <1>6, <1>7 DEF Owned

\* main() makes the pool and its own block with it.
LEMMA MainKeeps ==
  ASSUME MemInd, MainAlloc
  PROVE  /\ WellPlaced(blocks') /\ Owned(held', blocks') /\ blocks' # <<>>
         /\ Accounted(blocks', memory_pool_size')
<1> DEFINE head == [addr |-> PoolStart, size |-> STRUCT_SIZE]
           list == <<head>>
<1>1. head \in Block /\ End(head) = PoolStart + STRUCT_SIZE
  BY PoolFacts DEF Block, End
<1>2. list \in Seq(Block) /\ list # <<>> /\ Len(list) = 1 /\ DOMAIN list = {1} /\ list[1] = head
  BY <1>1
<1>3. MainSize \in Nat /\ block_size(MainSize) \in Nat
  BY MemoryAssumption, BlockSize
<1>4. End(head) <= memory_pool_end
  BY <1>1, <1>3, MainFits, PoolFacts
<1>5. (PoolStart + STRUCT_SIZE) % BYTE_ALIGNMENT = 0
  <2>1. PoolStart \in Int /\ STRUCT_SIZE \in Int
    BY PoolFacts
  <2> QED BY <2>1, PoolFacts, DivisibleSum
<1>6. STRUCT_SIZE <= head.size /\ head.addr = PoolStart
  BY PoolFacts
<1> HIDE DEF head
<1>7. WellPlaced(list)
  BY <1>1, <1>2, <1>4, <1>5, <1>6, PoolFacts DEF WellPlaced
<1>12. Accounted(list, InitialSize)
  <2> DEFINE u == [i \in {1} |-> 0]
  <2>1. u = [i \in DOMAIN list |-> IF i = 1 THEN 0 ELSE u[i - 1] + list[i].size]
    BY <1>2
  <2>2. Sums(used(list), list)
    BY <2>1, UsedSums DEF Sums
  <2>3. used(list)[1] = 0
    <3> HIDE DEF list
    <3>1. list \in Seq(Block) /\ 1 \in 1 .. Len(list)
      BY <1>2
    <3> QED BY <2>2, <3>1, SumsAre
  <2>4. InitialSize \in Int
    BY PoolFacts DEF InitialSize
  <2> QED BY <1>2, <2>2, <2>3, <2>4 DEF Accounted
<1>8. held = {}
  <2>1. Len(blocks) = 0
    BY DEF MainAlloc
  <2> QED BY <2>1 DEF MemInd, Owned
<1>9. Owned({}, list)
  BY DEF Owned
<1>10. ~exhausted(list, place(list, block_size(MainSize)), block_size(MainSize))
  <2>1. place(list, block_size(MainSize)) = 1
    BY <1>2, PlaceFits
  <2> QED BY <1>1, <1>2, <1>3, <2>1, MainFits, PoolFacts DEF exhausted
<1> HIDE DEF list
<1>11. /\ blocks' = InsertAt(list, place(list, allocated(list, block_size(MainSize)).size) + 1,
                             allocated(list, block_size(MainSize)))
       /\ held' = {} \union
            {[addr |-> allocated(list, block_size(MainSize)).addr + STRUCT_SIZE, size |-> MainSize]}
  BY <1>8 DEF MainAlloc, take, list, head
<1>13. memory_pool_size' = InitialSize - block_size(MainSize)
  BY DEF MainAlloc
<1> QED BY <1>2, <1>3, <1>7, <1>9, <1>10, <1>11, <1>12, <1>13, TakeKeeps

LEMMA Zeroed ==
  ASSUME NEW S \in SUBSET Nat, NEW x \in S \union {0}
  PROVE  x \in Nat
OBVIOUS

\* What a task does in the atomic block of memory_alloc.
LEMMA PlaceKeeps ==
  ASSUME MemInd, NEW t \in Client, Place(t)
  PROVE  /\ MemInd'
         /\ ~exhausted(blocks, place(blocks, block_size(size[t])), block_size(size[t]))
              => held' # held
<1> USE DEF MemInd
<1> DEFINE n == block_size(size[t])
<1>1. Sizes \subseteq Nat
  BY MemoryAssumption
<1>2. size' \in [Client -> Sizes \union {0}] /\ size[t] \in Nat /\ blocks # <<>>
  <2>1. size' = [size EXCEPT ![t] = 0] /\ pc[t] = "place"
    BY DEF Place, Return
  <2>2. size[t] \in Sizes \union {0}
    OBVIOUS
  <2>3. size' \in [Client -> Sizes \union {0}]
    BY <2>1
  <2>4. size[t] \in Nat
    BY <1>1, <2>2, Zeroed
  <2>5. blocks # <<>>
    BY <2>1
  <2> QED BY <2>3, <2>4, <2>5
<1>3. pc' \in [Client -> {"out", "test", "place"}] /\ \A u \in Client : pc'[u] # "out" => pc[u] # "out"
  BY DEF Place, Return
<1>4. CASE exhausted(blocks, place(blocks, n), n)
  BY <1>2, <1>3, <1>4 DEF Place
<1>5. CASE ~exhausted(blocks, place(blocks, n), n)
  <2>1. take(blocks, size[t]) /\ memory_pool_size' = memory_pool_size - n
    BY <1>5 DEF Place
  <2> DEFINE new == [addr |-> allocated(blocks, n).addr + STRUCT_SIZE, size |-> size[t]]
  <2>2. /\ WellPlaced(blocks') /\ Owned(held', blocks') /\ blocks' # <<>>
        /\ Accounted(blocks', memory_pool_size')
        /\ new \notin held /\ held' = held \union {new}
    <3>1. blocks \in Seq(Block)
      BY DEF WellPlaced
    <3>2. PICK x \in Nat : x = size[t]
      BY <1>2
    <3>3. /\ WellPlaced(blocks) /\ Owned(held, blocks) /\ blocks # <<>>
          /\ ~exhausted(blocks, place(blocks, block_size(x)), block_size(x))
          /\ Accounted(blocks, memory_pool_size)
      BY <1>2, <1>5, <3>2
    <3> DEFINE block == allocated(blocks, block_size(x))
               list2 == InsertAt(blocks, place(blocks, block.size) + 1, block)
               own == [addr |-> block.addr + STRUCT_SIZE, size |-> x]
    <3>4. /\ WellPlaced(list2) /\ Owned(held \union {own}, list2) /\ own \notin held
          /\ list2 # <<>> /\ Accounted(list2, memory_pool_size - block_size(x))
      BY <3>1, <3>3, TakeKeeps
    <3>5. blocks' = list2 /\ held' = held \union {own} /\ own = new
      BY <2>1, <3>2 DEF take
    <3>6. memory_pool_size' = memory_pool_size - block_size(x)
      BY <2>1, <3>2
    <3> HIDE DEF block, list2, own, new
    <3> QED BY <3>4, <3>5, <3>6
  <2> HIDE DEF new
  <2>3. held' # held
    BY <2>2
  <2> QED BY <1>2, <1>3, <2>2, <2>3
<1> QED BY <1>4, <1>5

\* The invariant is inductive.
LEMMA MemStep == MemInd /\ [MemoryNext]_memoryVars => MemInd'
<1> SUFFICES ASSUME MemInd, [MemoryNext]_memoryVars PROVE MemInd'
  OBVIOUS
<1> USE DEF MemInd
<1>1. ASSUME MainAlloc PROVE MemInd'
  BY <1>1, MainKeeps DEF MainAlloc
<1>2. ASSUME NEW t \in Client, memory_alloc(t) PROVE MemInd'
  BY <1>2 DEF memory_alloc
<1>3. ASSUME NEW t \in Client, TestSize(t) PROVE MemInd'
  BY <1>3 DEF TestSize, Return
<1>4. ASSUME NEW t \in Client, Place(t) PROVE MemInd'
  BY <1>4, PlaceKeeps
<1>5. ASSUME NEW t \in Client, memory_free(t) PROVE MemInd'
  <2>1. PICK h \in held : /\ blocks' = RemoveAt(blocks, block_of(h))
                          /\ memory_pool_size' = memory_pool_size + blocks[block_of(h)].size
                          /\ held' = held \ {h} /\ UNCHANGED <<pc, size>>
    BY <1>5 DEF memory_free
  <2>2. blocks \in Seq(Block) /\ DOMAIN blocks = 1 .. Len(blocks)
    BY DEF WellPlaced
  <2>3. block_of(h) \in 2 .. Len(blocks) /\ blocks[block_of(h)].addr = h.addr - STRUCT_SIZE
    <3>1. PICK i \in 2 .. Len(blocks) : Within(h, blocks[i])
      BY DEF Owned
    <3>2. i \in 1 .. Len(blocks) /\ blocks[i].addr \in Nat
      BY <2>2, Numbers
    <3>3. blocks[i].addr = h.addr - STRUCT_SIZE
      BY <3>1, <3>2, PoolFacts DEF Within
    <3>4. block_of(h) \in 1 .. Len(blocks) /\ blocks[block_of(h)].addr = h.addr - STRUCT_SIZE
      BY <2>2, <3>2, <3>3 DEF block_of
    <3>5. block_of(h) = i
      BY <2>2, <3>2, <3>3, <3>4, InOneBlock
    <3> QED BY <3>4, <3>5
  <2>4. blocks # <<>>
    BY <2>2, <2>3
  <2>5. /\ blocks' # <<>> /\ WellPlaced(blocks') /\ Owned(held', blocks')
        /\ Accounted(blocks', memory_pool_size')
    BY <2>1, <2>2, <2>3, <2>4, FreeKeeps
  <2> QED BY <2>1, <2>5
<1>6. CASE UNCHANGED memoryVars
  BY <1>6 DEF memoryVars
<1> QED BY <1>1, <1>2, <1>3, <1>4, <1>5, <1>6 DEF MemoryNext

\* The bytes of a caller lie in its block, behind the header.
LEMMA HeldApart ==
  ASSUME MemInd
  PROVE  HeldDisjoint
<1>1. blocks \in Seq(Block) /\ DOMAIN blocks = 1 .. Len(blocks)
  BY DEF MemInd, WellPlaced
<1>2. ASSUME NEW h \in held
      PROVE  /\ h.addr \in Nat /\ h.size \in Nat
             /\ \E i \in 1 .. Len(blocks) : Within(h, blocks[i])
  BY <1>1 DEF MemInd, Owned, Block
<1>3. ASSUME NEW i \in 1 .. Len(blocks)
      PROVE  /\ blocks[i].addr \in Nat /\ blocks[i].size \in Nat /\ End(blocks[i]) \in Nat
             /\ blocks[i].addr % BYTE_ALIGNMENT = 0 /\ STRUCT_SIZE <= blocks[i].size
             /\ PoolStart <= blocks[i].addr /\ End(blocks[i]) <= memory_pool_end
  BY <1>1, Numbers DEF MemInd, WellPlaced
<1>4. ASSUME NEW i \in 1 .. Len(blocks), NEW j \in 1 .. Len(blocks)
      PROVE  i < j => End(blocks[i]) <= blocks[j].addr
  BY <1>1 DEF MemInd, WellPlaced
<1>5. ASSUME NEW h \in held PROVE h.addr % BYTE_ALIGNMENT = 0
  <2>1. PICK i \in 1 .. Len(blocks) : Within(h, blocks[i])
    BY <1>2
  <2>2. blocks[i].addr \in Int /\ STRUCT_SIZE \in Int /\ blocks[i].addr % BYTE_ALIGNMENT = 0
    BY <1>3, PoolFacts
  <2>3. (blocks[i].addr + STRUCT_SIZE) % BYTE_ALIGNMENT = 0
    BY <2>2, PoolFacts, DivisibleSum
  <2> QED BY <2>1, <2>3 DEF Within
<1>6. ASSUME NEW h \in held
      PROVE  Bytes(h) \subseteq PoolAddr .. PoolAddr + MEMORYPOOL_SIZE - 1
  <2>1. PICK i \in 1 .. Len(blocks) : Within(h, blocks[i])
    BY <1>2
  <2>2. /\ blocks[i].addr \in Nat /\ End(blocks[i]) \in Nat
        /\ PoolStart <= blocks[i].addr /\ End(blocks[i]) <= memory_pool_end
    BY <1>3
  <2>3. h.addr = blocks[i].addr + STRUCT_SIZE /\ h.addr + h.size <= End(blocks[i])
    BY <2>1 DEF Within
  <2>4. h.addr \in Nat /\ h.size \in Nat
    BY <1>2
  <2>5. PoolAddr <= h.addr
    BY <2>2, <2>3, PoolFacts
  <2>6. h.addr + h.size <= PoolAddr + MEMORYPOOL_SIZE
    BY <2>2, <2>3, <2>4, PoolFacts
  <2> QED BY <2>4, <2>5, <2>6, PoolFacts DEF Bytes
<1>7. ASSUME NEW h \in held, NEW g \in held \ {h} PROVE Bytes(g) \intersect Bytes(h) = {}
  <2>1. PICK i \in 1 .. Len(blocks) : Within(h, blocks[i])
    BY <1>2
  <2>2. PICK j \in 1 .. Len(blocks) : Within(g, blocks[j])
    BY <1>2
  <2>3. g.addr # h.addr
    BY DEF MemInd, Owned
  <2>4. i # j
    BY <2>1, <2>2, <2>3 DEF Within
  <2>5. End(blocks[i]) <= blocks[j].addr \/ End(blocks[j]) <= blocks[i].addr
    BY <1>4, <2>4
  <2>6. g.addr \in Nat /\ g.size \in Nat /\ h.addr \in Nat /\ h.size \in Nat
    BY <1>2
  <2>7. h.addr + h.size <= g.addr \/ g.addr + g.size <= h.addr
    <3>1. /\ blocks[i].addr \in Nat /\ End(blocks[i]) \in Nat
          /\ blocks[j].addr \in Nat /\ End(blocks[j]) \in Nat
      BY <1>3
    <3>2. /\ h.addr = blocks[i].addr + STRUCT_SIZE /\ h.addr + h.size <= End(blocks[i])
          /\ g.addr = blocks[j].addr + STRUCT_SIZE /\ g.addr + g.size <= End(blocks[j])
      BY <2>1, <2>2 DEF Within
    <3>3. STRUCT_SIZE \in Nat
      BY PoolFacts
    <3>4. CASE End(blocks[i]) <= blocks[j].addr
      <4>1. h.addr + h.size <= End(blocks[i]) /\ h.addr + h.size \in Nat
        BY <2>6, <3>2
      <4>2. blocks[j].addr <= g.addr
        BY <3>1, <3>2, <3>3
      <4> QED BY <2>6, <3>1, <3>4, <4>1, <4>2
    <3>5. CASE End(blocks[j]) <= blocks[i].addr
      <4>1. g.addr + g.size <= End(blocks[j]) /\ g.addr + g.size \in Nat
        BY <2>6, <3>2
      <4>2. blocks[i].addr <= h.addr
        BY <3>1, <3>2, <3>3
      <4> QED BY <2>6, <3>1, <3>5, <4>1, <4>2
    <3> QED BY <2>5, <3>4, <3>5
  <2> QED BY <2>6, <2>7 DEF Bytes
<1>8. ASSUME NEW h \in held, NEW j \in DOMAIN blocks
      PROVE  Bytes([addr |-> blocks[j].addr, size |-> STRUCT_SIZE]) \intersect Bytes(h) = {}
  <2>1. PICK i \in 1 .. Len(blocks) : Within(h, blocks[i])
    BY <1>2
  <2>2. h.addr \in Nat /\ h.size \in Nat /\ j \in 1 .. Len(blocks) /\ blocks[j].addr \in Nat
    BY <1>1, <1>2, <1>3
  <2>3. i < j \/ i = j \/ j < i
    BY <2>2
  <2>4. blocks[j].addr + STRUCT_SIZE <= End(blocks[j])
    BY <1>3, <2>2, PoolFacts DEF End
  <2>5. h.addr + h.size <= blocks[j].addr \/ blocks[j].addr + STRUCT_SIZE <= h.addr
    <3>1. blocks[i].addr \in Nat /\ End(blocks[i]) \in Nat /\ End(blocks[j]) \in Nat
      BY <1>3, <2>2
    <3>2. h.addr = blocks[i].addr + STRUCT_SIZE /\ h.addr + h.size <= End(blocks[i])
      BY <2>1 DEF Within
    <3>3. STRUCT_SIZE \in Nat
      BY PoolFacts
    <3>4. h.addr + h.size \in Nat /\ blocks[i].addr <= h.addr
      BY <2>2, <3>1, <3>2, <3>3
    <3>5. CASE i < j
      <4>1. End(blocks[i]) <= blocks[j].addr
        BY <1>4, <2>2, <3>5
      <4> QED BY <2>2, <3>1, <3>2, <3>4, <4>1
    <3>6. CASE i = j
      BY <2>2, <3>2, <3>3, <3>6
    <3>7. CASE j < i
      <4>1. End(blocks[j]) <= blocks[i].addr
        BY <1>4, <2>2, <3>7
      <4>2. blocks[j].addr + STRUCT_SIZE \in Nat
        BY <2>2, <3>3
      <4> QED BY <2>2, <2>4, <3>1, <3>4, <4>1, <4>2
    <3> QED BY <2>3, <3>5, <3>6, <3>7
  <2> QED BY <2>2, <2>5, PoolFacts DEF Bytes
<1> QED BY <1>5, <1>6, <1>7, <1>8 DEF HeldDisjoint

\* The size of the pool is never below 0, and every block inside of it.
LEMMA MemoryTypes ==
  ASSUME MemInd
  PROVE  MemoryTypeOK
<1>1. blocks \in Seq(Block) /\ DOMAIN blocks = 1 .. Len(blocks) /\ Len(blocks) \in Nat
  BY DEF MemInd, WellPlaced
<1>2. ASSUME NEW i \in 1 .. Len(blocks)
      PROVE  /\ blocks[i].addr \in Nat /\ blocks[i].size \in Nat
             /\ End(blocks[i]) = blocks[i].addr + blocks[i].size
             /\ PoolStart <= blocks[i].addr /\ End(blocks[i]) <= memory_pool_end
             /\ blocks[i] \in Block
  BY <1>1, Numbers DEF MemInd, WellPlaced, End
<1>3. /\ PoolStart \in Nat /\ PoolAddr \in Nat /\ PoolAddr <= PoolStart /\ STRUCT_SIZE \in Nat
      /\ MEMORYPOOL_SIZE \in Nat /\ memory_pool_end \in Int
      /\ memory_pool_end <= PoolAddr + MEMORYPOOL_SIZE - STRUCT_SIZE
  BY PoolFacts
<1>4. ASSUME NEW i \in 1 .. Len(blocks) PROVE blocks[i] \in Extent
  <2>1. blocks[i].addr \in PoolStart .. memory_pool_end /\ blocks[i].size \in 0 .. MEMORYPOOL_SIZE
    <3>1. PICK a \in Nat, z \in Nat : a = blocks[i].addr /\ z = blocks[i].size
      BY <1>2
    <3>2. PoolStart <= a /\ a + z <= memory_pool_end
      BY <1>2, <3>1
    <3>3. a \in PoolStart .. memory_pool_end /\ z \in 0 .. MEMORYPOOL_SIZE
      BY <1>3, <3>2
    <3> QED BY <3>1, <3>3
  <2>2. blocks[i] = [addr |-> blocks[i].addr, size |-> blocks[i].size]
    BY <1>2 DEF Block
  <2> QED BY <2>1, <2>2 DEF Extent
<1>5. blocks \in Seq(Extent)
  <2>1. blocks \in [1 .. Len(blocks) -> Extent]
    <3>1. blocks = [i \in 1 .. Len(blocks) |-> blocks[i]]
      BY <1>1
    <3> QED BY <1>4, <3>1
  <2> QED BY <1>1, <2>1, IsASeq
<1>6. ASSUME NEW h \in held PROVE h \in Extent
  <2>1. PICK i \in 2 .. Len(blocks) : Within(h, blocks[i])
    BY DEF MemInd, Owned
  <2>2. i \in 1 .. Len(blocks)
    BY <1>1
  <2>3. h \in Block /\ h.addr \in Nat /\ h.size \in Nat
    BY DEF MemInd, Owned, Block
  <2>4. h.addr = blocks[i].addr + STRUCT_SIZE /\ h.addr + h.size <= End(blocks[i])
    BY <2>1 DEF Within
  <2>5. h.addr \in PoolStart .. memory_pool_end /\ h.size \in 0 .. MEMORYPOOL_SIZE
    <3>1. PICK a \in Nat : a = blocks[i].addr /\ PoolStart <= a
      BY <1>2, <2>2
    <3>2. PICK e \in Nat : e = End(blocks[i]) /\ e <= memory_pool_end
      <4>1. End(blocks[i]) \in Nat
        BY <1>1, <2>2, Numbers
      <4> QED BY <1>2, <2>2, <4>1
    <3>3. PICK x \in Nat, y \in Nat : x = h.addr /\ y = h.size
      BY <2>3
    <3>4. x = a + STRUCT_SIZE /\ x + y <= e
      BY <2>4, <3>1, <3>2, <3>3
    <3>5. x \in PoolStart .. memory_pool_end /\ y \in 0 .. MEMORYPOOL_SIZE
      BY <1>3, <3>1, <3>2, <3>4
    <3> QED BY <3>3, <3>5
  <2>6. h = [addr |-> h.addr, size |-> h.size]
    BY <2>3 DEF Block
  <2> QED BY <2>5, <2>6 DEF Extent
<1>7. memory_pool_size \in 0 .. MEMORYPOOL_SIZE
  <2>1. CASE blocks = <<>>
    BY <1>3, <2>1 DEF MemInd
  <2>2. CASE blocks # <<>>
    <3>1. PICK n \in Nat : n = Len(blocks) /\ n \in 1 .. Len(blocks)
      <4>1. Len(blocks) # 0 /\ Len(blocks) \in Nat
        BY <1>1, <2>2
      <4>2. Len(blocks) \in 1 .. Len(blocks)
        BY <4>1
      <4> QED BY <4>1, <4>2
    <3>2. Sums(used(blocks), blocks) /\ memory_pool_size = InitialSize - used(blocks)[n]
      BY <2>2, <3>1 DEF MemInd, Accounted
    <3>3. used(blocks)[n] \in Nat /\ PoolStart + STRUCT_SIZE + used(blocks)[n] <= End(blocks[n])
      BY <1>1, <3>1, <3>2, SumsNat, SumsWithin DEF MemInd
    <3>4. End(blocks[n]) <= memory_pool_end /\ End(blocks[n]) \in Nat
      BY <1>2, <3>1
    <3>5. InitialSize = MEMORYPOOL_SIZE - (PoolStart - PoolAddr)
      BY DEF InitialSize
    <3> QED BY <1>3, <3>2, <3>3, <3>4, <3>5
  <2> QED BY <2>1, <2>2
<1> QED BY <1>5, <1>6, <1>7 DEF MemoryTypeOK, MemInd

\* Behind the block i, which is the last one at or below the address a, n free bytes
\* at a are a gap that first fit takes.
LEMMA FreeIsFound ==
  ASSUME MemInd, blocks # <<>>, NEW n \in Nat \ {0}, exhausted(blocks, place(blocks, n), n),
         NEW a \in PoolStart .. memory_pool_end
  PROVE  ~FreeAt(a, n)
<1> SUFFICES ASSUME FreeAt(a, n) PROVE FALSE
  OBVIOUS
<1>1. blocks \in Seq(Block) /\ DOMAIN blocks = 1 .. Len(blocks) /\ Len(blocks) \in Nat
      /\ Len(blocks) > 0
  BY DEF MemInd, WellPlaced
<1>2. a \in Int /\ a + n <= memory_pool_end /\ PoolStart <= a
      /\ \A i \in 1 .. Len(blocks) : Bytes(blocks[i]) \intersect (a .. a + n - 1) = {}
  BY <1>1, PoolFacts DEF FreeAt
<1>3. ASSUME NEW i \in 1 .. Len(blocks)
      PROVE  /\ blocks[i].addr \in Nat /\ blocks[i].size \in Nat /\ blocks[i].size > 0
             /\ End(blocks[i]) = blocks[i].addr + blocks[i].size
  <2>1. blocks[i].addr \in Nat /\ blocks[i].size \in Nat
    BY <1>1, Numbers
  <2>2. STRUCT_SIZE <= blocks[i].size
    BY <1>1 DEF MemInd, WellPlaced
  <2> QED BY <2>1, <2>2, PoolFacts DEF End
<1>4. ASSUME NEW i \in 1 .. Len(blocks), i < Len(blocks) PROVE ~fits(blocks, i, n)
  <2>1. place(blocks, n) = Len(blocks)
    BY DEF exhausted
  <2> DEFINE S == {j \in DOMAIN blocks : j = Len(blocks) \/ fits(blocks, j, n)}
  <2>2. S \in SUBSET Nat /\ Len(blocks) \in S
    BY <1>1
  <2>3. Min(S) = Len(blocks)
    BY <2>1 DEF place
  <2> HIDE DEF S
  <2>4. \A j \in S : Len(blocks) <= j
    BY <2>2, <2>3, LeastExists
  <2>5. i \notin S
    BY <1>1, <1>4, <2>4
  <2> QED BY <1>1, <2>5 DEF S
<1>5. ASSUME NEW i \in 1 .. Len(blocks), blocks[i].addr <= a PROVE End(blocks[i]) <= a
  <2>1. SUFFICES ASSUME ~(End(blocks[i]) <= a) PROVE FALSE
    OBVIOUS
  <2>2. a \in Bytes(blocks[i]) /\ a \in a .. a + n - 1
    BY <1>2, <1>3, <1>5, <2>1 DEF Bytes
  <2> QED BY <1>2, <2>2
<1>6. ASSUME NEW i \in 1 .. Len(blocks), blocks[i].addr > a PROVE a + n <= blocks[i].addr
  <2>1. SUFFICES ASSUME ~(a + n <= blocks[i].addr) PROVE FALSE
    OBVIOUS
  <2>2. blocks[i].addr \in Bytes(blocks[i]) /\ blocks[i].addr \in a .. a + n - 1
    BY <1>2, <1>3, <1>6, <2>1 DEF Bytes
  <2> QED BY <1>2, <2>2
<1> DEFINE above == {i \in 1 .. Len(blocks) : blocks[i].addr > a}
<1>7. CASE above = {}
  <2>1. PICK l \in Nat : l = Len(blocks) /\ l \in 1 .. Len(blocks)
    <3>1. Len(blocks) \in Nat /\ Len(blocks) \in 1 .. Len(blocks)
      BY <1>1
    <3> QED BY <3>1
  <2>2. blocks[l].addr \in Nat /\ ~(blocks[l].addr > a)
    BY <1>3, <1>7, <2>1
  <2>3. End(blocks[l]) <= a
    BY <1>2, <1>5, <2>1, <2>2
  <2>4. End(blocks[l]) + n > memory_pool_end
    BY <2>1 DEF exhausted
  <2>5. PICK e \in Int : e = End(blocks[l])
    <3>1. End(blocks[l]) \in Int
      BY <1>1, <2>1, Numbers
    <3> QED BY <3>1
  <2>6. memory_pool_end \in Int
    BY PoolFacts
  <2> QED BY <1>2, <2>3, <2>4, <2>5, <2>6
<1>8. CASE above # {}
  <2>1. above \in SUBSET Nat
    BY <1>1
  <2>2. Min(above) \in above /\ \A j \in above : Min(above) <= j
    BY <1>8, <2>1, LeastExists
  <2>3. PICK m \in Nat : m = Min(above)
    BY <2>1, <2>2
  <2>4. m \in 1 .. Len(blocks) /\ blocks[m].addr > a
    BY <2>2, <2>3
  <2>5. m # 1
    <3>1. blocks[1].addr = PoolStart
      BY DEF MemInd, WellPlaced
    <3> QED BY <1>2, <2>4, <3>1, PoolFacts
  <2>6. m - 1 \in 1 .. Len(blocks) /\ m - 1 < Len(blocks) /\ ~(m <= m - 1) /\ (m - 1) + 1 = m
    BY <2>4, <2>5
  <2>7. blocks[m - 1].addr \in Nat /\ ~(blocks[m - 1].addr > a)
    BY <1>3, <2>2, <2>3, <2>6
  <2>8. End(blocks[m - 1]) <= a
    BY <1>2, <1>5, <2>6, <2>7
  <2>9. a + n <= blocks[m].addr
    BY <1>6, <2>4
  <2>10. fits(blocks, m - 1, n)
    <3>1. PICK e \in Int : e = End(blocks[m - 1])
      <4>1. End(blocks[m - 1]) \in Int
        <5>1. PICK k \in 1 .. Len(blocks) : k = m - 1
          BY <2>6
        <5>2. End(blocks[k]) \in Nat
          BY <1>1, Numbers
        <5> QED BY <5>1, <5>2
      <4> QED BY <4>1
    <3>2. PICK b \in Int : b = blocks[m].addr
      BY <1>3, <2>4
    <3>3. b - e >= n
      BY <1>2, <2>8, <2>9, <3>1, <3>2
    <3> QED BY <2>6, <3>1, <3>2, <3>3 DEF fits
  <2> QED BY <1>4, <2>6, <2>10
<1> QED BY <1>7, <1>8

\* What FailsOnlyWhenFull says of a step.
FullWhenFails ==
  \A t \in Client :
    pc[t] = "place" /\ pc'[t] = "out" /\ held' = held
      => \A a \in PoolStart .. memory_pool_end :
           a % BYTE_ALIGNMENT = 0 => ~FreeAt(a, block_size(size[t]))

LEMMA FailsFull == MemInd /\ [MemoryNext]_memoryVars => [FullWhenFails]_memoryVars
<1> SUFFICES ASSUME MemInd, MemoryNext,
                    NEW t \in Client, pc[t] = "place", pc'[t] = "out", held' = held,
                    NEW a \in PoolStart .. memory_pool_end
             PROVE  ~FreeAt(a, block_size(size[t]))
  BY DEF FullWhenFails
<1>1. pc \in [Client -> {"out", "test", "place"}] /\ size[t] \in Nat /\ blocks # <<>>
  <2>1. Sizes \subseteq Nat
    BY MemoryAssumption
  <2>2. size[t] \in Sizes \union {0} /\ pc \in [Client -> {"out", "test", "place"}]
    BY DEF MemInd
  <2>3. blocks # <<>>
    BY DEF MemInd
  <2>4. size[t] \in Nat
    BY <2>1, <2>2, Zeroed
  <2> QED BY <2>2, <2>3, <2>4
<1>2. Place(t)
  <2>1. CASE MainAlloc
    BY <2>1 DEF MainAlloc
  <2>2. ASSUME NEW u \in Client, memory_alloc(u) PROVE FALSE
    BY <1>1, <2>2 DEF memory_alloc
  <2>3. ASSUME NEW u \in Client, TestSize(u) PROVE FALSE
    BY <1>1, <2>3 DEF TestSize, Return
  <2>4. ASSUME NEW u \in Client, memory_free(u) PROVE FALSE
    BY <1>1, <2>4 DEF memory_free
  <2>5. ASSUME NEW u \in Client, Place(u) PROVE u = t
    BY <1>1, <2>5 DEF Place, Return
  <2> QED BY <2>1, <2>2, <2>3, <2>4, <2>5 DEF MemoryNext
<1> DEFINE n == block_size(size[t])
<1>3. exhausted(blocks, place(blocks, n), n)
  BY <1>2, PlaceKeeps
<1>4. n \in Nat \ {0}
  <2>1. PICK x \in Nat : x = size[t]
    BY <1>1
  <2>2. block_size(x) \in Nat /\ x + STRUCT_SIZE <= block_size(x)
    BY BlockSize
  <2>3. STRUCT_SIZE \in Nat \ {0}
    BY PoolFacts
  <2>4. block_size(x) # 0
    BY <2>2, <2>3
  <2> QED BY <2>1, <2>2, <2>4
<1> HIDE DEF n
<1>5. ~FreeAt(a, n)
  BY <1>1, <1>3, <1>4, FreeIsFound
<1> QED BY <1>5 DEF n

LEMMA PoolIsEmpty == MemoryInit => MemInd
<1> SUFFICES ASSUME MemoryInit PROVE MemInd
  OBVIOUS
<1>1. blocks = <<>> /\ DOMAIN blocks = {} /\ held = {}
  BY DEF MemoryInit
<1>2. WellPlaced(blocks) /\ Owned(held, blocks)
  BY <1>1 DEF WellPlaced, Owned
<1> QED BY <1>1, <1>2 DEF MemoryInit, MemInd

\* Whatever the size of the pool, the alignment and what the tasks ask for, and in
\* whatever order they allocate and free: memory that is given out is aligned and
\* in the pool, and nobody else's; no byte of the pool is lost; and its size does
\* not wrap below 0.
THEOREM MemorySound == MemorySpec => []MemoryInv
<1>1. MemInd => NothingLeaks
  BY DEF MemInd, NothingLeaks, Accounted
<1>2. MemInd => MemoryInv
  BY <1>1, HeldApart, MemoryTypes DEF MemoryInv
<1> QED BY <1>2, MemStep, PoolIsEmpty, PTL DEF MemorySpec

\* A request that gets past the test of the size fails only if there is no room
\* for it at any address.
THEOREM FailsWhenFull == MemorySpec => FailsOnlyWhenFull
<1>1. [FullWhenFails]_memoryVars <=>
        [\A t \in Client :
           pc[t] = "place" /\ pc'[t] = "out" /\ held' = held
             => \A a \in PoolStart .. memory_pool_end :
                  a % BYTE_ALIGNMENT = 0 => ~FreeAt(a, block_size(size[t]))]_memoryVars
  BY DEF FullWhenFails
<1> QED BY <1>1, FailsFull, MemStep, PoolIsEmpty, PTL DEF MemorySpec, FailsOnlyWhenFull

-----------------------------------------------------------------------------
(* Induction, with sets for the predicates *)

\* A set with 0 and the successors of its elements has every natural number: it
\* would else leave out a least one.
LEMMA SetInduction ==
  ASSUME NEW S, 0 \in S, \A n \in Nat : n \in S => n + 1 \in S
  PROVE  \A n \in Nat : n \in S
<1> DEFINE U == {n \in Nat : n \notin S}
<1> SUFFICES ASSUME U # {} PROVE FALSE
  OBVIOUS
<1>1. Min(U) \in U /\ \A j \in U : Min(U) <= j
  <2>1. U \in SUBSET Nat
    OBVIOUS
  <2> HIDE DEF U
  <2> QED BY <2>1, LeastExists
<1> DEFINE m == Min(U)
<1>2. m \in Nat /\ m \notin S /\ m # 0 /\ m - 1 \in Nat
  BY <1>1
<1>3. m - 1 \in S
  <2>1. m - 1 \notin U
    BY <1>1, <1>2
  <2> QED BY <2>1, <1>2
<1> HIDE DEF m
<1>4. (m - 1) + 1 = m
  BY <1>2
<1> QED BY <1>2, <1>3, <1>4

\* The greatest element of a set of numbers up to m.
LEMMA GreatestExists ==
  ASSUME NEW m \in Nat, NEW S \in SUBSET (1 .. m), S # {}
  PROVE  Max(S) \in S /\ \A j \in S : j <= Max(S)
<1> DEFINE T == {m - n : n \in S}
<1>1. T \in SUBSET Nat /\ T # {}
  <2>1. ASSUME NEW n \in S PROVE m - n \in Nat
    OBVIOUS
  <2> QED BY <2>1
<1>2. Min(T) \in T /\ \A k \in T : Min(T) <= k
  <2> HIDE DEF T
  <2> QED BY <1>1, LeastExists
<1>3. PICK g \in S : Min(T) = m - g
  BY <1>2
<1>4. \A k \in S : g >= k
  <2> SUFFICES ASSUME NEW k \in S PROVE g >= k
    OBVIOUS
  <2>1. m - k \in T
    OBVIOUS
  <2>2. m - g <= m - k
    BY <1>2, <1>3, <2>1
  <2> QED BY <2>2
<1>5. Max(S) \in S /\ \A k \in S : Max(S) >= k
  BY <1>4 DEF Max
<1> QED BY <1>5

\* What is the greatest is Max.
LEMMA GreatestIs ==
  ASSUME NEW S \in SUBSET Int, NEW g \in S, \A j \in S : j <= g
  PROVE  Max(S) = g
<1>1. Max(S) \in S /\ \A k \in S : Max(S) >= k
  BY DEF Max
<1>2. Max(S) \in Int /\ g \in Int /\ Max(S) >= g /\ g >= Max(S)
  BY <1>1
<1> QED BY <1>2

-----------------------------------------------------------------------------
(* strtok: what FoldLeft is after each character *)

Char == Letter \union {"space"}

NoToken == [list |-> <<>>, open |-> FALSE]

\* The recursive function of FoldLeft, on the sets of the first n positions.
IsIter(l, n, g) ==
  g = [s \in SUBSET (1 .. n) |->
        IF s = {} THEN NoToken ELSE strtok(g[s \ {Max(s)}], l[Max(s)])]

LEMMA IterExists ==
  ASSUME NEW l
  PROVE  \A n \in Nat : \E g : IsIter(l, n, g)
<1> DEFINE S == {n \in Nat : \E g : IsIter(l, n, g)}
<1>1. 0 \in S
  <2> DEFINE g == [s \in SUBSET (1 .. 0) |-> NoToken]
  <2>1. 1 .. 0 = {}
    OBVIOUS
  <2>2. IsIter(l, 0, g)
    BY <2>1 DEF IsIter
  <2> QED BY <2>2
<1>2. ASSUME NEW n \in Nat, n \in S PROVE n + 1 \in S
  <2>1. PICK g : IsIter(l, n, g)
    BY <1>2
  <2> DEFINE h == [s \in SUBSET (1 .. n + 1) |->
                    IF n + 1 \in s THEN strtok(g[s \ {n + 1}], l[n + 1]) ELSE g[s]]
  <2>2. ASSUME NEW s \in SUBSET (1 .. n + 1)
        PROVE  h[s] = IF s = {} THEN NoToken ELSE strtok(h[s \ {Max(s)}], l[Max(s)])
    <3>1. CASE n + 1 \in s
      <4>1. Max(s) = n + 1
        BY <3>1, GreatestIs
      <4>2. s \ {n + 1} \in SUBSET (1 .. n + 1) /\ n + 1 \notin s \ {n + 1}
        OBVIOUS
      <4>3. h[s \ {n + 1}] = g[s \ {n + 1}]
        BY <4>2
      <4>4. h[s] = strtok(g[s \ {n + 1}], l[n + 1])
        BY <3>1
      <4> QED BY <3>1, <4>1, <4>3, <4>4
    <3>2. CASE n + 1 \notin s
      <4>1. s \in SUBSET (1 .. n)
        BY <3>2
      <4>2. h[s] = g[s]
        BY <3>2
      <4>3. g[s] = IF s = {} THEN NoToken ELSE strtok(g[s \ {Max(s)}], l[Max(s)])
        BY <2>1, <4>1 DEF IsIter
      <4>4. h[s \ {Max(s)}] = g[s \ {Max(s)}]
        BY <3>2
      <4> QED BY <4>2, <4>3, <4>4
    <3> QED BY <3>1, <3>2
  <2>3. IsIter(l, n + 1, h)
    <3> DEFINE k == [s \in SUBSET (1 .. n + 1) |->
                      IF s = {} THEN NoToken ELSE strtok(h[s \ {Max(s)}], l[Max(s)])]
    <3>1. h = k
      <4>1. \A s \in SUBSET (1 .. n + 1) : h[s] = k[s]
        BY <2>2
      <4>2. /\ h = [s \in SUBSET (1 .. n + 1) |-> h[s]]
            /\ k = [s \in SUBSET (1 .. n + 1) |-> k[s]]
        OBVIOUS
      <4> HIDE DEF h, k
      <4> QED BY <4>1, <4>2
    <3> HIDE DEF h
    <3> QED BY <3>1 DEF IsIter
  <2> QED BY <2>3
<1> HIDE DEF S
<1>3. \A n \in Nat : n \in S
  BY <1>1, <1>2, SetInduction
<1> QED BY <1>3 DEF S

\* One more position is one more strtok.
LEMMA IterStep ==
  ASSUME NEW l, NEW n \in Nat, NEW g, IsIter(l, n, g)
  PROVE  /\ g[1 .. 0] = NoToken
         /\ \A k \in 0 .. n - 1 : g[1 .. k + 1] = strtok(g[1 .. k], l[k + 1])
<1>1. g[1 .. 0] = NoToken
  <2>1. 1 .. 0 = {} /\ {} \in SUBSET (1 .. n)
    OBVIOUS
  <2> QED BY <2>1 DEF IsIter
<1>2. ASSUME NEW k \in 0 .. n - 1 PROVE g[1 .. k + 1] = strtok(g[1 .. k], l[k + 1])
  <2> DEFINE s == 1 .. k + 1
  <2>1. /\ s \in SUBSET (1 .. n) /\ s # {} /\ s \in SUBSET Int /\ k + 1 \in s
        /\ \A j \in s : j <= k + 1
    OBVIOUS
  <2>2. Max(s) = k + 1
    <3> HIDE DEF s
    <3> QED BY <2>1, GreatestIs
  <2>3. s \ {k + 1} = 1 .. k
    OBVIOUS
  <2>4. g[s] = strtok(g[s \ {Max(s)}], l[Max(s)])
    <3> HIDE DEF s
    <3> QED BY <2>1 DEF IsIter
  <2> QED BY <2>2, <2>3, <2>4
<1> QED BY <1>1, <1>2

LEMMA FoldIs ==
  ASSUME NEW l \in Seq(Char)
  PROVE  \E g : IsIter(l, Len(l), g) /\ FoldLeft(strtok, NoToken, l) = g[1 .. Len(l)]
<1>1. Len(l) \in Nat /\ DOMAIN l = 1 .. Len(l)
  BY LenProperties
<1> DEFINE iter == CHOOSE g : IsIter(l, Len(l), g)
<1>2. IsIter(l, Len(l), iter)
  BY <1>1, IterExists
<1>3. FoldLeft(strtok, NoToken, l) = iter[DOMAIN l]
  BY <1>1 DEF FoldLeft, MapThenFoldSet, IsIter
<1> HIDE DEF iter
<1> QED BY <1>1, <1>2, <1>3

-----------------------------------------------------------------------------
(* The n-th element of a finite set of numbers *)

\* The numbers from 1 to m have finitely many subsets.
LEMMA FiniteSegment ==
  ASSUME NEW m \in Nat, NEW S \in SUBSET (1 .. m)
  PROVE  IsFiniteSet(S) /\ Cardinality(S) \in Nat
<1>1. IsFiniteSet(1 .. m)
  BY FS_Interval, m \in Int, 1 \in Int
<1>2. IsFiniteSet(S)
  BY <1>1, FS_Subset
<1> QED BY <1>2, FS_CardinalityType

\* An element above all the others is the next one.
LEMMA UpToAdded ==
  ASSUME NEW m \in Nat, NEW S \in SUBSET (1 .. m)
  PROVE  LET T == S \union {m + 1} IN
         /\ Cardinality(T) = Cardinality(S) + 1
         /\ UpTo(T, m + 1) = T
         /\ \A i \in S : UpTo(T, i) = UpTo(S, i)
         /\ S = T \ {m + 1}
<1>1. m + 1 \notin S /\ \A i \in S : i \in Int /\ i <= m + 1 /\ ~(m + 1 <= i)
  OBVIOUS
<1> DEFINE T == S \union {m + 1}
<1>2. Cardinality(T) = Cardinality(S) + 1
  BY <1>1, FiniteSegment, FS_AddElement
<1>3. UpTo(T, m + 1) = T
  <2>1. \A j \in T : j <= m + 1
    BY <1>1
  <2> HIDE DEF T
  <2> QED BY <2>1 DEF UpTo
<1>4. ASSUME NEW i \in S PROVE UpTo(T, i) = UpTo(S, i)
  <2>1. ~(m + 1 <= i)
    BY <1>1
  <2> DEFINE g == m + 1
  <2> HIDE DEF g
  <2>2. {j \in S \union {g} : j <= i} = {j \in S : j <= i}
    BY <2>1 DEF g
  <2> QED BY <2>2 DEF UpTo, g
<1>5. S = T \ {m + 1}
  BY <1>1
<1> QED BY <1>2, <1>3, <1>4, <1>5

\* Every number up to the cardinality is that of an element.
LEMMA NthExists ==
  \A m \in Nat : \A S \in SUBSET (1 .. m) : \A n \in 1 .. Cardinality(S) :
    \E i \in S : Cardinality(UpTo(S, i)) = n
<1> DEFINE All(S) == \A n \in 1 .. Cardinality(S) : \E i \in S : Cardinality(UpTo(S, i)) = n
           G == {m \in Nat : \A S \in SUBSET (1 .. m) : All(S)}
<1>1. 0 \in G
  <2>1. \A S \in SUBSET (1 .. 0) : S = {}
    OBVIOUS
  <2>2. All({})
    BY FS_EmptySet
  <2> HIDE DEF All
  <2> QED BY <2>1, <2>2
<1>2. ASSUME NEW m \in Nat, m \in G PROVE m + 1 \in G
  <2> SUFFICES ASSUME NEW T \in SUBSET (1 .. m + 1) PROVE All(T)
    OBVIOUS
  <2>1. CASE m + 1 \notin T
    <3>1. T \in SUBSET (1 .. m)
      BY <2>1
    <3> HIDE DEF All
    <3> QED BY <1>2, <3>1
  <2>2. CASE m + 1 \in T
    <3> DEFINE S == T \ {m + 1}
    <3>1. S \in SUBSET (1 .. m) /\ T = S \union {m + 1}
      BY <2>2
    <3> HIDE DEF S
    <3>2. /\ Cardinality(T) = Cardinality(S) + 1
          /\ UpTo(T, m + 1) = T
          /\ \A i \in S : UpTo(T, i) = UpTo(S, i)
      BY <3>1, UpToAdded
    <3>3. All(S)
      <4> HIDE DEF All
      <4> QED BY <1>2, <3>1
    <3>4. Cardinality(S) \in Nat
      BY <3>1, FiniteSegment
    <3> SUFFICES ASSUME NEW n \in 1 .. Cardinality(T)
                 PROVE  \E i \in T : Cardinality(UpTo(T, i)) = n
      OBVIOUS
    <3>5. n = Cardinality(S) + 1 \/ n \in 1 .. Cardinality(S)
      BY <3>2, <3>4
    <3>6. CASE n = Cardinality(S) + 1
      BY <3>1, <3>2, <3>6
    <3>7. CASE n \in 1 .. Cardinality(S)
      <4>1. PICK i \in S : Cardinality(UpTo(S, i)) = n
        BY <3>3, <3>7
      <4> QED BY <4>1, <3>1, <3>2
    <3> QED BY <3>5, <3>6, <3>7
  <2> QED BY <2>1, <2>2
<1> HIDE DEF G
<1>3. \A m \in Nat : m \in G
  BY <1>1, <1>2, SetInduction
<1> QED BY <1>3 DEF G

\* And no two elements have the same.
LEMMA RankInjective ==
  ASSUME NEW m \in Nat, NEW S \in SUBSET (1 .. m), NEW e \in S, NEW f \in S,
         Cardinality(UpTo(S, e)) = Cardinality(UpTo(S, f))
  PROVE  e = f
<1>1. ASSUME NEW a \in S, NEW b \in S, a < b PROVE Cardinality(UpTo(S, a)) # Cardinality(UpTo(S, b))
  <2>0. \A j \in S : j \in Int
    OBVIOUS
  <2>1. UpTo(S, a) \in SUBSET UpTo(S, b) /\ b \in UpTo(S, b) /\ b \notin UpTo(S, a)
    <3>1. a \in Int /\ b \in Int /\ b <= b /\ ~(b <= a)
      BY <2>0, <1>1
    <3>2. \A j \in S : j <= a => j <= b
      BY <2>0, <3>1, <1>1
    <3> QED BY <3>1, <3>2 DEF UpTo
  <2>2. IsFiniteSet(UpTo(S, b))
    <3>1. UpTo(S, b) \in SUBSET (1 .. m)
      BY DEF UpTo
    <3> QED BY <3>1, FiniteSegment
  <2> QED BY <2>1, <2>2, FS_Subset
<1>2. e \in Int /\ f \in Int
  OBVIOUS
<1>3. e < f \/ f < e \/ e = f
  BY <1>2
<1> QED BY <1>1, <1>3

LEMMA NthFacts ==
  ASSUME NEW m \in Nat, NEW S \in SUBSET (1 .. m)
  PROVE  /\ \A n \in 1 .. Cardinality(S) :
              Nth(S, n) \in S /\ Cardinality(UpTo(S, Nth(S, n))) = n
         /\ \A i \in S : \A n : Cardinality(UpTo(S, i)) = n => Nth(S, n) = i
         /\ \A i \in S : Cardinality(UpTo(S, i)) \in 1 .. Cardinality(S)
<1>1. ASSUME NEW n, NEW i \in S, Cardinality(UpTo(S, i)) = n
      PROVE  Nth(S, n) = i
  <2>1. Nth(S, n) \in S /\ Cardinality(UpTo(S, Nth(S, n))) = n
    BY <1>1 DEF Nth
  <2> QED BY <2>1, <1>1, RankInjective
<1>2. ASSUME NEW n \in 1 .. Cardinality(S)
      PROVE  Nth(S, n) \in S /\ Cardinality(UpTo(S, Nth(S, n))) = n
  <2>1. \E i \in S : Cardinality(UpTo(S, i)) = n
    BY NthExists
  <2> QED BY <2>1 DEF Nth
<1>3. ASSUME NEW i \in S PROVE Cardinality(UpTo(S, i)) \in 1 .. Cardinality(S)
  <2>1. UpTo(S, i) \in SUBSET S /\ i \in UpTo(S, i)
    BY DEF UpTo
  <2>2. IsFiniteSet(S) /\ Cardinality(S) \in Nat
    BY FiniteSegment
  <2>3. IsFiniteSet(UpTo(S, i)) /\ Cardinality(UpTo(S, i)) <= Cardinality(S)
    BY <2>1, <2>2, FS_Subset
  <2>4. Cardinality(UpTo(S, i)) \in Nat /\ Cardinality(UpTo(S, i)) # 0
    BY <2>1, <2>3, FS_CardinalityType, FS_EmptySet
  <2> QED BY <2>2, <2>3, <2>4
<1> QED BY <1>1, <1>2, <1>3

\* Adding an element above the others keeps the numbers of these.
LEMMA NthAdded ==
  ASSUME NEW m \in Nat, NEW S \in SUBSET (1 .. m)
  PROVE  LET T == S \union {m + 1} IN
         /\ Cardinality(T) = Cardinality(S) + 1
         /\ Nth(T, Cardinality(T)) = m + 1
         /\ \A n \in 1 .. Cardinality(S) : Nth(T, n) = Nth(S, n)
<1> DEFINE T == S \union {m + 1}
<1>1. /\ Cardinality(T) = Cardinality(S) + 1
      /\ UpTo(T, m + 1) = T
      /\ \A i \in S : UpTo(T, i) = UpTo(S, i)
  BY UpToAdded
<1>2. T \in SUBSET (1 .. m + 1) /\ m + 1 \in T /\ S \subseteq T
  OBVIOUS
<1> HIDE DEF T
<1>3. \A i \in T : \A n : Cardinality(UpTo(T, i)) = n => Nth(T, n) = i
  <2>1. m + 1 \in Nat
    OBVIOUS
  <2> QED BY <2>1, <1>2, NthFacts
<1>4. Nth(T, Cardinality(T)) = m + 1
  BY <1>1, <1>2, <1>3
<1>5. ASSUME NEW n \in 1 .. Cardinality(S) PROVE Nth(T, n) = Nth(S, n)
  <2>1. Nth(S, n) \in S /\ Cardinality(UpTo(S, Nth(S, n))) = n
    BY NthFacts
  <2> QED BY <2>1, <1>1, <1>2, <1>3
<1> QED BY <1>1, <1>4, <1>5 DEF T

\* The last element is the greatest.
LEMMA NthLast ==
  ASSUME NEW m \in Nat, NEW S \in SUBSET (1 .. m), NEW g \in S, \A j \in S : j <= g
  PROVE  /\ Cardinality(S) \in Nat \ {0} /\ Nth(S, Cardinality(S)) = g
         /\ \A n \in 1 .. Cardinality(S) - 1 : Nth(S, n) < g
<1>1. UpTo(S, g) = S
  BY DEF UpTo
<1>2. Cardinality(S) \in Nat \ {0} /\ Nth(S, Cardinality(S)) = g
  <2>1. Nth(S, Cardinality(S)) = g
    BY <1>1, NthFacts
  <2>2. Cardinality(S) \in 1 .. Cardinality(S) /\ Cardinality(S) \in Nat
    BY <1>1, NthFacts, FiniteSegment
  <2> QED BY <2>1, <2>2
<1>3. ASSUME NEW n \in 1 .. Cardinality(S) - 1 PROVE Nth(S, n) < g
  <2>1. n \in 1 .. Cardinality(S) /\ n # Cardinality(S)
    BY <1>2
  <2>2. Nth(S, n) \in S /\ Cardinality(UpTo(S, Nth(S, n))) = n
    BY <2>1, NthFacts
  <2>3. Nth(S, n) # g
    BY <2>1, <2>2, <1>1
  <2>0. \A j \in S : j \in Int
    OBVIOUS
  <2>4. Nth(S, n) \in Int /\ g \in Int /\ Nth(S, n) <= g
    BY <2>0, <2>2
  <2> QED BY <2>3, <2>4
<1> QED BY <1>2, <1>3

-----------------------------------------------------------------------------
(* The words of a line, and how a character more changes them *)

LEMMA WordsAre ==
  ASSUME NEW l \in Seq(Char)
  PROVE  /\ Words(l) = [n \in 1 .. Cardinality(StartsOf(l)) |-> WordAt(l, Nth(StartsOf(l), n))]
         /\ StartsOf(l) \in SUBSET (1 .. Len(l)) /\ Len(l) \in Nat
BY LenProperties DEF Words, WordAt, EndOf, NoSpace, StartsOf, Nth, UpTo

\* A word goes to the end of the line or to a space.
LEMMA EndFacts ==
  ASSUME NEW l \in Seq(Char), NEW i \in StartsOf(l)
  PROVE  /\ i \in 1 .. Len(l) /\ EndOf(l, i) \in i .. Len(l) /\ NoSpace(l, i, EndOf(l, i))
         /\ EndOf(l, i) # Len(l) => l[EndOf(l, i) + 1] = "space"
<1> DEFINE J == {j \in i .. Len(l) : NoSpace(l, i, j)}
<1>1. i \in 1 .. Len(l) /\ Len(l) \in Nat /\ l[i] # "space"
  BY LenProperties DEF StartsOf
<1>2. i \in J
  BY <1>1 DEF NoSpace
<1>3. J \in SUBSET (1 .. Len(l))
  BY <1>1
<1>4. EndOf(l, i) = Max(J)
  BY DEF EndOf
<1>5. Max(J) \in J /\ \A j \in J : j <= Max(J)
  <2> HIDE DEF J
  <2> QED BY <1>1, <1>2, <1>3, GreatestExists
<1> DEFINE e == Max(J)
<1>6. e \in i .. Len(l) /\ NoSpace(l, i, e)
  BY <1>5
<1>7. ASSUME e # Len(l) PROVE l[e + 1] = "space"
  <2>1. e + 1 \in i .. Len(l) /\ e + 1 \notin J
    <3>1. e \in Int /\ ~(e + 1 <= e)
      BY <1>6
    <3>2. e + 1 \notin J
      BY <3>1, <1>5
    <3> HIDE DEF e, J
    <3> QED BY <3>2, <1>1, <1>6, <1>7
  <2> HIDE DEF e
  <2>2. \E k \in i .. e + 1 : l[k] = "space"
    BY <2>1 DEF NoSpace
  <2> QED BY <2>2, <1>6, <1>1 DEF NoSpace
<1> HIDE DEF e
<1> QED BY <1>1, <1>4, <1>6, <1>7 DEF e

\* And this tells where it ends.
LEMMA EndIs ==
  ASSUME NEW l \in Seq(Char), NEW i \in 1 .. Len(l), NEW e \in i .. Len(l),
         NoSpace(l, i, e), e # Len(l) => l[e + 1] = "space"
  PROVE  EndOf(l, i) = e
<1> DEFINE J == {j \in i .. Len(l) : NoSpace(l, i, j)}
<1>1. Len(l) \in Nat
  BY LenProperties
<1>2. ASSUME NEW j \in J PROVE j <= e
  <2> SUFFICES ASSUME ~(j <= e) PROVE FALSE
    OBVIOUS
  <2>1. e # Len(l) /\ e + 1 \in i .. j
    BY <1>1
  <2> QED BY <2>1 DEF NoSpace
<1>3. J \in SUBSET Int /\ e \in J
  BY <1>1
<1>4. Max(J) = e
  <2> HIDE DEF J
  <2> QED BY <1>2, <1>3, GreatestIs
<1> QED BY <1>4 DEF EndOf

\* A line and the line with one character more.
LEMMA OneMore ==
  ASSUME NEW l \in Seq(Char), NEW ch \in Char
  PROVE  /\ Append(l, ch) \in Seq(Char) /\ Len(Append(l, ch)) = Len(l) + 1
         /\ \A k \in 1 .. Len(l) : Append(l, ch)[k] = l[k]
         /\ Append(l, ch)[Len(l) + 1] = ch
         /\ DOMAIN l = 1 .. Len(l) /\ DOMAIN Append(l, ch) = 1 .. Len(l) + 1
         /\ Len(l) \in Nat
<1>1. Append(l, ch) \in Seq(Char) /\ Len(Append(l, ch)) = Len(l) + 1
  BY AppendProperties
<1> QED BY <1>1, AppendProperties, LenProperties

\* A word that the new character does not continue is the same.
LEMMA WordKept ==
  ASSUME NEW l \in Seq(Char), NEW ch \in Char, NEW i \in StartsOf(l),
         EndOf(l, i) # Len(l) \/ ch = "space"
  PROVE  WordAt(Append(l, ch), i) = WordAt(l, i)
<1> DEFINE m == Append(l, ch)
           e == EndOf(l, i)
<1>1. /\ i \in 1 .. Len(l) /\ e \in i .. Len(l) /\ NoSpace(l, i, e)
      /\ e # Len(l) => l[e + 1] = "space"
  BY EndFacts
<1>2. /\ m \in Seq(Char) /\ Len(m) = Len(l) + 1 /\ Len(l) \in Nat
      /\ \A k \in 1 .. Len(l) : m[k] = l[k]
      /\ m[Len(l) + 1] = ch
  BY OneMore
<1> HIDE DEF m, e
<1>3. i \in 1 .. Len(m) /\ e \in i .. Len(m) /\ e # Len(m)
  BY <1>1, <1>2
<1>4. NoSpace(m, i, e)
  BY <1>1, <1>2 DEF NoSpace
<1>5. m[e + 1] = "space"
  <2>1. CASE e = Len(l)
    BY <2>1, <1>2 DEF e
  <2>2. CASE e # Len(l)
    BY <2>2, <1>1, <1>2
  <2> QED BY <2>1, <2>2
<1>6. EndOf(m, i) = e
  BY <1>2, <1>3, <1>4, <1>5, EndIs
<1>7. SubSeq(m, i, e) = SubSeq(l, i, e)
  <2>1. \A k \in i .. e : m[k] = l[k] /\ l[k] \in Char
    BY <1>1, <1>2, ElementOfSeq
  <2>2. i \in Int /\ e \in Int
    BY <1>1
  <2>3. /\ SubSeq(m, i, e) \in Seq(Char) /\ Len(SubSeq(m, i, e)) = IF i <= e THEN e - i + 1 ELSE 0
        /\ \A k \in 1 .. e - i + 1 : SubSeq(m, i, e)[k] = m[i + k - 1]
    BY <2>1, <2>2, SubSeqProperties
  <2>4. /\ SubSeq(l, i, e) \in Seq(Char) /\ Len(SubSeq(l, i, e)) = IF i <= e THEN e - i + 1 ELSE 0
        /\ \A k \in 1 .. e - i + 1 : SubSeq(l, i, e)[k] = l[i + k - 1]
    BY <2>1, <2>2, SubSeqProperties
  <2>5. \A k \in 1 .. e - i + 1 : SubSeq(m, i, e)[k] = SubSeq(l, i, e)[k]
    <3> SUFFICES ASSUME NEW k \in 1 .. e - i + 1 PROVE SubSeq(m, i, e)[k] = SubSeq(l, i, e)[k]
      OBVIOUS
    <3>1. i + k - 1 \in i .. e
      BY <2>2
    <3> QED BY <3>1, <2>1, <2>3, <2>4
  <2>6. Len(SubSeq(m, i, e)) = e - i + 1 /\ Len(SubSeq(l, i, e)) = e - i + 1
    BY <2>3, <2>4, <1>1
  <2> HIDE DEF m
  <2> QED BY <2>3, <2>4, <2>5, <2>6, SeqEqual
<1> QED BY <1>6, <1>7 DEF WordAt, m, e

\* The last word of a line that does not end with a space.
LEMMA LastWord ==
  ASSUME NEW l \in Seq(Char), l # <<>>, l[Len(l)] # "space"
  PROVE  \E g \in StartsOf(l) :
           /\ NoSpace(l, g, Len(l)) /\ EndOf(l, g) = Len(l)
           /\ \A i \in StartsOf(l) : i <= g /\ (i # g => EndOf(l, i) # Len(l))
<1> DEFINE G == {i \in 1 .. Len(l) : NoSpace(l, i, Len(l))}
<1>1. Len(l) \in Nat \ {0} /\ DOMAIN l = 1 .. Len(l)
  BY EmptySeq, LenProperties
<1>2. G \in SUBSET Nat /\ Len(l) \in G
  BY <1>1 DEF NoSpace
<1> DEFINE g == Min(G)
<1>3. g \in G /\ \A j \in G : g <= j
  <2> HIDE DEF G
  <2> QED BY <1>2, LeastExists
<1> HIDE DEF g
<1>4. g \in 1 .. Len(l) /\ NoSpace(l, g, Len(l)) /\ l[g] # "space"
  BY <1>1, <1>3 DEF NoSpace
<1>5. g = 1 \/ l[g - 1] = "space"
  <2> SUFFICES ASSUME g # 1, l[g - 1] # "space" PROVE FALSE
    OBVIOUS
  <2>1. g - 1 \in 1 .. Len(l)
    BY <1>4
  <2>2. NoSpace(l, g - 1, Len(l))
    <3> SUFFICES ASSUME NEW k \in g - 1 .. Len(l) PROVE l[k] # "space"
      BY DEF NoSpace
    <3>1. k = g - 1 \/ k \in g .. Len(l)
      BY <1>4
    <3> QED BY <3>1, <1>4 DEF NoSpace
  <2>3. g - 1 \in G /\ ~(g <= g - 1)
    BY <2>1, <2>2, <1>4
  <2> QED BY <2>3, <1>3
<1>6. g \in StartsOf(l)
  BY <1>1, <1>4, <1>5 DEF StartsOf
<1>7. EndOf(l, g) = Len(l)
  <2>1. Len(l) \in g .. Len(l)
    BY <1>1, <1>4
  <2> QED BY <1>4, <2>1, EndIs
<1>8. ASSUME NEW i \in StartsOf(l) PROVE i <= g /\ (i # g => EndOf(l, i) # Len(l))
  <2>1. i \in 1 .. Len(l) /\ (i = 1 \/ l[i - 1] = "space")
    BY <1>1 DEF StartsOf
  <2>2. i <= g
    <3> SUFFICES ASSUME ~(i <= g) PROVE FALSE
      OBVIOUS
    <3>1. i - 1 \in g .. Len(l) /\ i # 1
      BY <1>4, <2>1
    <3> QED BY <3>1, <2>1, <1>4 DEF NoSpace
  <2>3. ASSUME i # g, EndOf(l, i) = Len(l) PROVE FALSE
    <3>1. NoSpace(l, i, Len(l))
      BY <2>3, EndFacts
    <3>2. i \in G
      BY <3>1, <2>1
    <3>3. g <= i
      BY <3>2, <1>3
    <3> QED BY <3>3, <2>2, <2>3, <2>1, <1>4
  <2> QED BY <2>2, <2>3
<1> QED BY <1>4, <1>6, <1>7, <1>8

IsOpen(l) == l # <<>> /\ l[Len(l)] # "space"

Tokens(l) == [list |-> Words(l), open |-> IsOpen(l)]

\* Words of a line are sequences of characters.
LEMMA WordsType ==
  ASSUME NEW l \in Seq(Char)
  PROVE  /\ Words(l) \in Seq(Seq(Char)) /\ Len(Words(l)) = Cardinality(StartsOf(l))
         /\ DOMAIN Words(l) = 1 .. Len(Words(l)) /\ Len(Words(l)) \in Nat
         /\ \A n \in 1 .. Len(Words(l)) : Words(l)[n] = WordAt(l, Nth(StartsOf(l), n))
<1> DEFINE S == StartsOf(l)
<1>1. /\ Words(l) = [n \in 1 .. Cardinality(S) |-> WordAt(l, Nth(S, n))]
      /\ S \in SUBSET (1 .. Len(l)) /\ Len(l) \in Nat
  BY WordsAre
<1>2. Cardinality(S) \in Nat
  BY <1>1, FiniteSegment
<1>3. ASSUME NEW n \in 1 .. Cardinality(S) PROVE WordAt(l, Nth(S, n)) \in Seq(Char)
  <2>1. Nth(S, n) \in S
    BY <1>1, NthFacts
  <2> DEFINE i == Nth(S, n)
             e == EndOf(l, i)
  <2>2. i \in 1 .. Len(l) /\ e \in i .. Len(l)
    BY <2>1, EndFacts
  <2> HIDE DEF i, e
  <2>3. i \in Int /\ e \in Int /\ \A k \in i .. e : l[k] \in Char
    BY <2>2, <1>1, ElementOfSeq
  <2>4. SubSeq(l, i, e) \in Seq(Char)
    BY <2>3, SubSeqProperties
  <2> QED BY <2>4 DEF WordAt, i, e
<1> HIDE DEF S
<1>4. Words(l) \in [1 .. Cardinality(S) -> Seq(Char)]
  BY <1>1, <1>3
<1>5. Words(l) \in Seq(Seq(Char)) /\ Len(Words(l)) = Cardinality(S)
  BY <1>2, <1>4
<1> QED BY <1>1, <1>2, <1>4, <1>5 DEF S

\* Two sequences of words are equal when they are so word by word.
LEMMA SameWords ==
  ASSUME NEW s \in Seq(Seq(Char)), NEW t \in Seq(Seq(Char)), Len(s) = Len(t),
         \A n \in 1 .. Len(s) : s[n] = t[n]
  PROVE  s = t
BY SeqEqual

\* A space ends a word, or nothing.
LEMMA SpaceAdded ==
  ASSUME NEW l \in Seq(Char)
  PROVE  strtok(Tokens(l), "space") = Tokens(Append(l, "space"))
<1> DEFINE m == Append(l, "space")
<1>1. /\ m \in Seq(Char) /\ Len(m) = Len(l) + 1 /\ Len(l) \in Nat
      /\ \A k \in 1 .. Len(l) : m[k] = l[k]
      /\ m[Len(l) + 1] = "space"
      /\ DOMAIN l = 1 .. Len(l) /\ DOMAIN m = 1 .. Len(l) + 1
  <2>1. "space" \in Char
    BY DEF Char
  <2> QED BY <2>1, OneMore
<1>2. \A i \in StartsOf(l) : WordAt(m, i) = WordAt(l, i)
  <2>1. "space" \in Char
    BY DEF Char
  <2> QED BY <2>1, WordKept
<1> HIDE DEF m
<1>3. StartsOf(m) = StartsOf(l)
  <2>1. ASSUME NEW i PROVE i \in StartsOf(m) <=> i \in StartsOf(l)
    <3>1. CASE i = Len(l) + 1
      BY <3>1, <1>1 DEF StartsOf
    <3>2. CASE i \in 1 .. Len(l)
      <4>1. m[i] = l[i] /\ (i # 1 => i - 1 \in 1 .. Len(l))
        BY <3>2, <1>1
      <4>2. i # 1 => m[i - 1] = l[i - 1]
        BY <4>1, <1>1
      <4> QED BY <3>2, <4>1, <4>2, <1>1 DEF StartsOf
    <3>3. CASE i \notin 1 .. Len(l) + 1
      BY <3>3, <1>1 DEF StartsOf
    <3> QED BY <3>1, <3>2, <3>3, <1>1
  <2> QED BY <2>1
<1>4. Words(m) = Words(l)
  <2>1. Len(Words(m)) = Len(Words(l))
    BY <1>1, <1>3, WordsType
  <2>2. ASSUME NEW n \in 1 .. Len(Words(m)) PROVE Words(m)[n] = Words(l)[n]
    <3>1. StartsOf(l) \in SUBSET (1 .. Len(l)) /\ n \in 1 .. Cardinality(StartsOf(l))
      BY <2>1, <1>1, WordsAre, WordsType
    <3>2. Nth(StartsOf(l), n) \in StartsOf(l)
      BY <3>1, <1>1, NthFacts
    <3>3. Words(m)[n] = WordAt(m, Nth(StartsOf(m), n))
      BY <1>1, WordsType
    <3>4. Words(l)[n] = WordAt(l, Nth(StartsOf(l), n))
      BY <2>1, WordsType
    <3> QED BY <3>2, <3>3, <3>4, <1>2, <1>3
  <2> QED BY <2>1, <2>2, <1>1, WordsType, SameWords
<1>5. ~IsOpen(m)
  BY <1>1 DEF IsOpen
<1>6. Tokens(m) = [list |-> Words(m), open |-> FALSE]
  <2>1. IsOpen(m) = FALSE
    BY <1>5 DEF IsOpen
  <2> QED BY <2>1 DEF Tokens
<1>7. strtok(Tokens(l), "space") = [list |-> Words(l), open |-> FALSE]
  <2>1. strtok(Tokens(l), "space") = [Tokens(l) EXCEPT !.open = FALSE]
    BY DEF strtok
  <2> QED BY <2>1 DEF Tokens
<1> QED BY <1>4, <1>6, <1>7 DEF m

\* Another character begins a word.
LEMMA WordBegins ==
  ASSUME NEW l \in Seq(Char), NEW ch \in Char, ch # "space", ~IsOpen(l)
  PROVE  strtok(Tokens(l), ch) = Tokens(Append(l, ch))
<1> DEFINE m == Append(l, ch)
           g == Len(l) + 1
<1>1. /\ m \in Seq(Char) /\ Len(m) = Len(l) + 1 /\ Len(l) \in Nat
      /\ \A k \in 1 .. Len(l) : m[k] = l[k]
      /\ m[Len(l) + 1] = ch
      /\ DOMAIN l = 1 .. Len(l) /\ DOMAIN m = 1 .. Len(l) + 1
  BY OneMore
<1>2. Len(l) = 0 \/ l[Len(l)] = "space"
  BY EmptySeq DEF IsOpen
<1>3. \A i \in StartsOf(l) : WordAt(m, i) = WordAt(l, i)
  <2> SUFFICES ASSUME NEW i \in StartsOf(l) PROVE EndOf(l, i) # Len(l)
    BY WordKept
  <2>1. i \in 1 .. Len(l) /\ EndOf(l, i) \in i .. Len(l) /\ NoSpace(l, i, EndOf(l, i))
    BY EndFacts
  <2> QED BY <2>1, <1>1, <1>2 DEF NoSpace
<1> HIDE DEF m
<1>4. StartsOf(m) = StartsOf(l) \union {g}
  <2>1. ASSUME NEW i PROVE i \in StartsOf(m) <=> i \in StartsOf(l) \/ i = g
    <3>1. CASE i = g
      <4>1. i # 1 => i - 1 = Len(l) /\ Len(l) \in 1 .. Len(l)
        BY <3>1, <1>1
      <4>2. i # 1 => m[i - 1] = "space"
        BY <4>1, <1>1, <1>2
      <4> QED BY <3>1, <4>2, <1>1 DEF StartsOf
    <3>2. CASE i \in 1 .. Len(l)
      <4>1. m[i] = l[i] /\ (i # 1 => i - 1 \in 1 .. Len(l)) /\ i # g
        BY <3>2, <1>1
      <4>2. i # 1 => m[i - 1] = l[i - 1]
        BY <4>1, <1>1
      <4> QED BY <3>2, <4>1, <4>2, <1>1 DEF StartsOf
    <3>3. CASE i \notin 1 .. Len(l) + 1
      BY <3>3, <1>1 DEF StartsOf
    <3> QED BY <3>1, <3>2, <3>3, <1>1
  <2> HIDE DEF g
  <2> QED BY <2>1
<1>5. WordAt(m, g) = <<ch>>
  <2>1. g \in 1 .. Len(m) /\ g \in g .. Len(m) /\ NoSpace(m, g, g)
    BY <1>1 DEF NoSpace
  <2>2. EndOf(m, g) = g
    BY <1>1, <2>1, EndIs
  <2>3. SubSeq(m, g, g) = <<ch>>
    <3>1. g \in Int /\ m[g] \in Char /\ \A k \in g .. g : k = g
      BY <1>1
    <3>2. /\ SubSeq(m, g, g) \in Seq(Char) /\ Len(SubSeq(m, g, g)) = IF g <= g THEN g - g + 1 ELSE 0
          /\ \A k \in 1 .. g - g + 1 : SubSeq(m, g, g)[k] = m[g + k - 1]
      <4> HIDE DEF g
      <4> QED BY <3>1, SubSeqProperties
    <3>3. Len(SubSeq(m, g, g)) = 1 /\ SubSeq(m, g, g)[1] = ch
      BY <3>1, <3>2, <1>1
    <3>4. <<ch>> \in Seq(Char) /\ Len(<<ch>>) = 1 /\ <<ch>>[1] = ch
      OBVIOUS
    <3>5. \A k \in 1 .. 1 : SubSeq(m, g, g)[k] = <<ch>>[k]
      BY <3>3, <3>4
    <3> HIDE DEF g
    <3> QED BY <3>2, <3>3, <3>4, <3>5, SeqEqual
  <2> QED BY <2>2, <2>3 DEF WordAt
<1>6. Words(m) = Append(Words(l), <<ch>>)
  <2> DEFINE S == StartsOf(l)
             W == Words(l)
  <2>1. S \in SUBSET (1 .. Len(l)) /\ Len(W) = Cardinality(S) /\ W \in Seq(Seq(Char))
        /\ Len(W) \in Nat /\ \A n \in 1 .. Len(W) : W[n] = WordAt(l, Nth(S, n))
    BY WordsAre, WordsType
  <2>2. /\ Cardinality(StartsOf(m)) = Cardinality(S) + 1
        /\ Nth(StartsOf(m), Cardinality(StartsOf(m))) = g
        /\ \A n \in 1 .. Cardinality(S) : Nth(StartsOf(m), n) = Nth(S, n)
    <3> DEFINE T == S \union {Len(l) + 1}
    <3>1. /\ Cardinality(T) = Cardinality(S) + 1
          /\ Nth(T, Cardinality(T)) = Len(l) + 1
          /\ \A n \in 1 .. Cardinality(S) : Nth(T, n) = Nth(S, n)
      <4> HIDE DEF S
      <4> QED BY <2>1, <1>1, NthAdded
    <3> HIDE DEF T
    <3>2. T = StartsOf(m)
      BY <1>4 DEF T
    <3> QED BY <3>1, <3>2
  <2>3. /\ Words(m) \in Seq(Seq(Char)) /\ Len(Words(m)) = Len(W) + 1
        /\ \A n \in 1 .. Len(Words(m)) : Words(m)[n] = WordAt(m, Nth(StartsOf(m), n))
    BY <1>1, <2>1, <2>2, WordsType
  <2>4. /\ Append(W, <<ch>>) \in Seq(Seq(Char)) /\ Len(Append(W, <<ch>>)) = Len(W) + 1
        /\ \A n \in 1 .. Len(W) : Append(W, <<ch>>)[n] = W[n]
        /\ Append(W, <<ch>>)[Len(W) + 1] = <<ch>>
    <3>1. <<ch>> \in Seq(Char)
      OBVIOUS
    <3> HIDE DEF W
    <3> QED BY <2>1, <3>1, AppendProperties
  <2>5. ASSUME NEW n \in 1 .. Len(W) + 1 PROVE Words(m)[n] = Append(W, <<ch>>)[n]
    <3>1. CASE n = Len(W) + 1
      BY <3>1, <2>1, <2>2, <2>3, <2>4, <1>5
    <3>2. CASE n \in 1 .. Len(W)
      <4>1. Nth(S, n) \in S
        BY <3>2, <2>1, <1>1, NthFacts
      <4> QED BY <3>2, <4>1, <2>1, <2>2, <2>3, <2>4, <1>3
    <3> QED BY <3>1, <3>2, <2>1
  <2> HIDE DEF W
  <2>6. Words(m) = Append(W, <<ch>>)
    BY <2>1, <2>3, <2>4, <2>5, SameWords
  <2> QED BY <2>6 DEF W
<1>7. IsOpen(m)
  BY <1>1 DEF IsOpen
<1> QED BY <1>6, <1>7 DEF Tokens, strtok, m

\* Or it continues the last one.
LEMMA WordContinued ==
  ASSUME NEW l \in Seq(Char), NEW ch \in Char, ch # "space", IsOpen(l)
  PROVE  strtok(Tokens(l), ch) = Tokens(Append(l, ch))
<1> DEFINE m == Append(l, ch)
           N == Len(l)
<1>1. /\ m \in Seq(Char) /\ Len(m) = N + 1 /\ N \in Nat
      /\ \A k \in 1 .. N : m[k] = l[k]
      /\ m[N + 1] = ch
      /\ DOMAIN l = 1 .. N /\ DOMAIN m = 1 .. N + 1
  BY OneMore
<1>2. PICK g \in StartsOf(l) :
        /\ NoSpace(l, g, N) /\ EndOf(l, g) = N
        /\ \A i \in StartsOf(l) : i <= g /\ (i # g => EndOf(l, i) # N)
  BY LastWord DEF IsOpen
<1>3. \A i \in StartsOf(l) : i # g => WordAt(m, i) = WordAt(l, i)
  BY <1>2, WordKept
<1>4. g \in 1 .. N /\ l[N] # "space"
  BY <1>1 DEF StartsOf, IsOpen
<1> HIDE DEF m, N
<1>5. StartsOf(m) = StartsOf(l)
  <2>1. ASSUME NEW i PROVE i \in StartsOf(m) <=> i \in StartsOf(l)
    <3>1. CASE i = N + 1
      <4>1. i # 1 /\ i - 1 = N /\ N \in 1 .. N
        BY <3>1, <1>1, <1>4
      <4> QED BY <3>1, <4>1, <1>1, <1>4 DEF StartsOf
    <3>2. CASE i \in 1 .. N
      <4>1. m[i] = l[i] /\ (i # 1 => i - 1 \in 1 .. N)
        BY <3>2, <1>1
      <4>2. i # 1 => m[i - 1] = l[i - 1]
        BY <4>1, <1>1
      <4> QED BY <3>2, <4>1, <4>2, <1>1 DEF StartsOf
    <3>3. CASE i \notin 1 .. N + 1
      BY <3>3, <1>1 DEF StartsOf
    <3> QED BY <3>1, <3>2, <3>3, <1>1
  <2> QED BY <2>1
<1>6. WordAt(m, g) = Append(WordAt(l, g), ch) /\ WordAt(l, g) \in Seq(Char)
  <2>1. g \in 1 .. Len(m) /\ N + 1 \in g .. Len(m) /\ N + 1 = Len(m)
    BY <1>1, <1>4
  <2>2. NoSpace(m, g, N + 1)
    <3> SUFFICES ASSUME NEW k \in g .. N + 1 PROVE m[k] # "space"
      BY DEF NoSpace
    <3>1. k = N + 1 \/ k \in g .. N
      BY <1>1, <1>4
    <3> QED BY <3>1, <1>1, <1>2, <1>4 DEF NoSpace
  <2>3. EndOf(m, g) = N + 1
    BY <1>1, <2>1, <2>2, EndIs
  <2>4. \A k \in g .. N : l[k] \in Char /\ m[k] = l[k]
    BY <1>1, <1>4, ElementOfSeq DEF N
  <2>5. \A k \in g .. N + 1 : m[k] \in Char
    BY <1>1, <2>1, ElementOfSeq
  <2> DEFINE a == SubSeq(m, g, N + 1)
             b == SubSeq(l, g, N)
  <2>6. a \in Seq(Char) /\ Len(a) = N + 1 - g + 1
        /\ \A k \in 1 .. (N + 1) - g + 1 : a[k] = m[g + k - 1]
    <3> DEFINE e == N + 1
    <3>1. g \in Int /\ e \in Int /\ g <= e
      BY <1>1, <1>4
    <3>2. \A k \in g .. e : m[k] \in Char
      BY <2>5
    <3> HIDE DEF e
    <3>3. /\ SubSeq(m, g, e) \in Seq(Char) /\ Len(SubSeq(m, g, e)) = e - g + 1
          /\ \A k \in 1 .. e - g + 1 : SubSeq(m, g, e)[k] = m[g + k - 1]
      BY <3>1, <3>2, SubSeqProperties
    <3>4. a = SubSeq(m, g, e) /\ e = N + 1
      BY DEF e
    <3> HIDE DEF a
    <3>5. a \in Seq(Char) /\ Len(a) = e - g + 1 /\ \A k \in 1 .. e - g + 1 : a[k] = m[g + k - 1]
      BY <3>3, <3>4
    <3>6. e - g + 1 = N + 1 - g + 1
      BY <3>4, <1>1, <1>4
    <3>7. ASSUME NEW k \in 1 .. (N + 1) - g + 1 PROVE a[k] = m[g + k - 1]
      <4>1. k \in 1 .. e - g + 1
        BY <3>4
      <4> QED BY <4>1, <3>5
    <3> QED BY <3>5, <3>6, <3>7
  <2>7. b \in Seq(Char) /\ Len(b) = N - g + 1
        /\ \A k \in 1 .. N - g + 1 : b[k] = l[g + k - 1]
    <3>1. g \in Int /\ N \in Int /\ g <= N
      BY <1>1, <1>4
    <3> QED BY <3>1, <2>4, SubSeqProperties
  <2> HIDE DEF a, b
  <2>8. /\ Append(b, ch) \in Seq(Char) /\ Len(Append(b, ch)) = Len(b) + 1
        /\ \A k \in 1 .. Len(b) : Append(b, ch)[k] = b[k]
        /\ Append(b, ch)[Len(b) + 1] = ch
    BY <2>7, AppendProperties
  <2>9. Len(a) = Len(Append(b, ch))
    BY <2>6, <2>7, <2>8, <1>1, <1>4
  <2>10. ASSUME NEW k \in 1 .. Len(a) PROVE a[k] = Append(b, ch)[k]
    <3>1. k \in 1 .. (N + 1) - g + 1
      BY <2>6, <1>1, <1>4
    <3>2. a[k] = m[g + k - 1]
      BY <2>6, <3>1
    <3>3. CASE k = N - g + 2
      <4>1. g + k - 1 = N + 1 /\ k = Len(b) + 1
        BY <3>3, <2>7, <1>1, <1>4
      <4> QED BY <4>1, <3>2, <2>8, <1>1
    <3>4. CASE k \in 1 .. N - g + 1
      <4>1. g + k - 1 \in g .. N /\ k \in 1 .. Len(b)
        BY <3>4, <2>7, <1>1, <1>4
      <4> QED BY <4>1, <3>2, <3>4, <2>4, <2>7, <2>8
    <3>5. k = N - g + 2 \/ k \in 1 .. N - g + 1
      BY <3>1, <1>1, <1>4
    <3> QED BY <3>3, <3>4, <3>5
  <2>11. a = Append(b, ch)
    BY <2>6, <2>8, <2>9, <2>10, SeqEqual
  <2> QED BY <2>3, <2>7, <2>11, <1>2 DEF WordAt, a, b
<1> DEFINE S == StartsOf(l)
           W == Words(l)
           K == Len(W)
           V == Front(W) \o <<Append(Last(W), ch)>>
<1>7. S \in SUBSET (1 .. N) /\ K = Cardinality(S) /\ W \in Seq(Seq(Char))
      /\ K \in Nat /\ \A n \in 1 .. K : W[n] = WordAt(l, Nth(S, n))
  BY WordsAre, WordsType DEF N
<1>8. /\ K > 0 /\ Nth(S, K) = g
      /\ \A n \in 1 .. K - 1 : Nth(S, n) \in S /\ Nth(S, n) # g
  <2>1. Cardinality(S) \in Nat \ {0} /\ Nth(S, Cardinality(S)) = g
        /\ \A n \in 1 .. Cardinality(S) - 1 : Nth(S, n) < g
    BY <1>1, <1>2, <1>7, NthLast
  <2>2. \A n \in 1 .. Cardinality(S) : Nth(S, n) \in S
    BY <1>1, <1>7, NthFacts
  <2>3. \A n \in 1 .. Cardinality(S) - 1 : n \in 1 .. Cardinality(S)
    BY <2>1
  <2>4. \A n \in 1 .. Cardinality(S) - 1 : Nth(S, n) # g
    BY <2>1, <1>4
  <2> QED BY <2>1, <2>2, <2>3, <2>4, <1>7
<1>9. /\ Words(m) \in Seq(Seq(Char)) /\ Len(Words(m)) = K
      /\ \A n \in 1 .. K : Words(m)[n] = WordAt(m, Nth(S, n))
  BY <1>1, <1>5, <1>7, WordsType
<1> HIDE DEF W, S
<1>10. V \in Seq(Seq(Char)) /\ Len(V) = K
       /\ (\A n \in 1 .. K - 1 : V[n] = W[n]) /\ V[K] = Append(W[K], ch)
  <2>1. /\ Front(W) \in Seq(Seq(Char)) /\ Len(Front(W)) = K - 1
        /\ \A n \in 1 .. K - 1 : Front(W)[n] = W[n]
    <3>1. 1 \in Int /\ K - 1 \in Int /\ \A k \in 1 .. K - 1 : W[k] \in Seq(Char)
      BY <1>7, ElementOfSeq
    <3>2. /\ SubSeq(W, 1, K - 1) \in Seq(Seq(Char))
          /\ Len(SubSeq(W, 1, K - 1)) = IF 1 <= K - 1 THEN K - 1 - 1 + 1 ELSE 0
          /\ \A i \in 1 .. K - 1 - 1 + 1 : SubSeq(W, 1, K - 1)[i] = W[1 + i - 1]
      BY <3>1, SubSeqProperties
    <3> DEFINE F == SubSeq(W, 1, K - 1)
    <3>3. Front(W) = F
      BY DEF Front
    <3> HIDE DEF F
    <3>4. F \in Seq(Seq(Char)) /\ Len(F) = K - 1
      BY <3>2, <1>7, <1>8 DEF F
    <3>5. ASSUME NEW n \in 1 .. K - 1 PROVE F[n] = W[n]
      <4>1. n \in 1 .. K - 1 - 1 + 1 /\ 1 + n - 1 = n
        BY <1>7
      <4> QED BY <4>1, <3>2 DEF F
    <3> QED BY <3>3, <3>4, <3>5
  <2> DEFINE F == Front(W)
             x == Append(W[K], ch)
  <2>2. Last(W) = W[K] /\ x \in Seq(Char)
    <3>1. W[K] \in Seq(Char)
      BY <1>7, <1>8, ElementOfSeq
    <3> QED BY <3>1, AppendProperties DEF Last
  <2> HIDE DEF F, x
  <2>3. F \o <<x>> \in Seq(Seq(Char)) /\ Len(F \o <<x>>) = K
        /\ (\A n \in 1 .. K - 1 : (F \o <<x>>)[n] = F[n]) /\ (F \o <<x>>)[K] = x
    <3> HIDE DEF K
    <3>1. F \in Seq(Seq(Char)) /\ Len(F) = K - 1 /\ K \in Nat /\ K > 0
      BY <2>1, <1>7, <1>8 DEF F
    <3>2. <<x>> \in Seq(Seq(Char)) /\ Len(<<x>>) = 1 /\ <<x>>[1] = x
      BY <2>2
    <3>3. /\ F \o <<x>> \in Seq(Seq(Char))
          /\ Len(F \o <<x>>) = Len(F) + Len(<<x>>)
          /\ \A i \in 1 .. Len(F) + Len(<<x>>) :
               (F \o <<x>>)[i] = IF i <= Len(F) THEN F[i] ELSE <<x>>[i - Len(F)]
      BY <3>1, <3>2, ConcatProperties
    <3>4. Len(F) + Len(<<x>>) = K /\ K - Len(F) = 1 /\ ~(K <= Len(F)) /\ K \in 1 .. K
      BY <3>1, <3>2
    <3>5. (F \o <<x>>)[K] = x
      BY <3>2, <3>3, <3>4
    <3>6. \A n \in 1 .. K - 1 : n \in 1 .. K /\ n <= Len(F)
      BY <3>1
    <3> QED BY <3>3, <3>4, <3>5, <3>6
  <2> QED BY <2>1, <2>2, <2>3 DEF F, x
<1> HIDE DEF V
<1>11. Words(m) = V
  <2>1. ASSUME NEW n \in 1 .. K PROVE Words(m)[n] = V[n]
    <3>1. CASE n = K
      BY <3>1, <1>6, <1>7, <1>8, <1>9, <1>10
    <3>2. CASE n \in 1 .. K - 1
      BY <3>2, <1>3, <1>7, <1>8, <1>9, <1>10 DEF S
    <3> QED BY <3>1, <3>2, <1>7
  <2> QED BY <2>1, <1>9, <1>10, SameWords
<1>12. IsOpen(m)
  <2>1. m # <<>>
    BY <1>1
  <2> QED BY <2>1, <1>1 DEF IsOpen
<1> QED BY <1>11, <1>12 DEF Tokens, strtok, m, V, W

\* strtok finds the words of every line.
LEMMA ParsesWords ==
  ASSUME NEW l \in Seq(Char)
  PROVE  FoldLeft(strtok, NoToken, l).list = Words(l)
<1> DEFINE N == Len(l)
           pre(k) == SubSeq(l, 1, k)
<1>1. N \in Nat
  BY LenProperties
<1>2. PICK g : IsIter(l, N, g) /\ FoldLeft(strtok, NoToken, l) = g[1 .. N]
  BY FoldIs
<1>3. g[1 .. 0] = NoToken /\ \A k \in 0 .. N - 1 : g[1 .. k + 1] = strtok(g[1 .. k], l[k + 1])
  BY <1>1, <1>2, IterStep
<1> HIDE DEF N
<1> DEFINE S == {k \in Nat : k <= N => g[1 .. k] = Tokens(pre(k))}
<1>4. 0 \in S
  <2>1. pre(0) = <<>> /\ <<>> \in Seq(Char)
    BY SubSeqEmpty
  <2>2. StartsOf(<<>>) = {}
    BY DEF StartsOf
  <2>3. Cardinality({}) = 0
    BY FS_EmptySet
  <2>4. Len(Words(<<>>)) = 0 /\ Words(<<>>) \in Seq(Seq(Char))
    BY <2>1, <2>2, <2>3, WordsType
  <2>5. Words(<<>>) = <<>>
    BY <2>4, EmptySeq
  <2>6. IsOpen(<<>>) = FALSE
    BY DEF IsOpen
  <2>7. Tokens(<<>>) = NoToken
    BY <2>5, <2>6 DEF Tokens, NoToken
  <2> QED BY <2>1, <2>7, <1>3
<1>5. ASSUME NEW k \in Nat, k \in S PROVE k + 1 \in S
  <2> SUFFICES ASSUME k + 1 <= N PROVE g[1 .. k + 1] = Tokens(pre(k + 1))
    OBVIOUS
  <2> DEFINE p == pre(k)
             ch == l[k + 1]
  <2>1. k \in 0 .. N - 1 /\ k <= N /\ k + 1 \in 1 .. N
    BY <1>1
  <2>2. g[1 .. k + 1] = strtok(g[1 .. k], l[k + 1]) /\ g[1 .. k] = Tokens(p)
    BY <2>1, <1>3, <1>5
  <2>3. ch \in Char /\ p \in Seq(Char)
    <3>1. ch \in Char
      BY <2>1, ElementOfSeq DEF N
    <3>2. \A i \in 1 .. k : l[i] \in Char
      BY <2>1, <1>1, ElementOfSeq DEF N
    <3>3. 1 \in Int /\ k \in Int
      OBVIOUS
    <3>4. SubSeq(l, 1, k) \in Seq(Char)
      BY <3>2, <3>3, SubSeqProperties
    <3> QED BY <3>1, <3>4
  <2>4. pre(k + 1) = Append(p, ch)
    <3>1. SubSeq(l, 1, k + 1) = SubSeq(l, 1, (k + 1) - 1) \o <<l[k + 1]>>
      <4>1. 1 \in 1 .. Len(l) /\ k + 1 \in 1 .. Len(l)
        BY <2>1, <1>1 DEF N
      <4> QED BY <4>1, SubSeqRecursiveSecond
    <3>2. (k + 1) - 1 = k
      OBVIOUS
    <3> HIDE DEF p, ch
    <3>3. Append(p, ch) = p \o <<ch>>
      BY <2>3, AppendIsConcat
    <3> QED BY <3>1, <3>2, <3>3 DEF p, ch
  <2> HIDE DEF p, ch
  <2>5. strtok(Tokens(p), ch) = Tokens(Append(p, ch))
    <3>1. CASE ch = "space"
      BY <2>3, <3>1, SpaceAdded
    <3>2. CASE ch # "space" /\ IsOpen(p)
      BY <2>3, <3>2, WordContinued
    <3>3. CASE ch # "space" /\ ~IsOpen(p)
      BY <2>3, <3>3, WordBegins
    <3> QED BY <3>1, <3>2, <3>3
  <2> QED BY <2>2, <2>4, <2>5 DEF ch
<1> HIDE DEF S
<1>6. N \in S
  BY <1>1, <1>4, <1>5, SetInduction
<1>7. g[1 .. N] = Tokens(SubSeq(l, 1, N))
  BY <1>1, <1>6 DEF S
<1>8. SubSeq(l, 1, N) = l
  BY SubSeqFull DEF N
<1>9. g[1 .. N].list = Words(l)
  <2>1. g[1 .. N] = Tokens(l)
    BY <1>7, <1>8
  <2>2. Tokens(l).list = Words(l)
    BY DEF Tokens
  <2> QED BY <2>1, <2>2
<1> QED BY <1>2, <1>9

-----------------------------------------------------------------------------
(* The console *)

\* What the buffer has is what the user sees, unless a backspace was stored.
SameLine ==
  /\ line \in Seq(Char) /\ Len(line) < INPUT_BUFFER_SIZE
  /\ ~strayed => /\ input_len = Len(line)
                 /\ \A i \in 1 .. Len(line) : input_buffer[i - 1] = line[i]

CommandList == commands \in Seq(Seq(Letter)) /\ Len(commands) <= COMMAND_LIST_SIZE

ConsoleInd ==
  CommandList /\ Terminated /\ SameLine /\ strayed \in BOOLEAN /\ RunsWhatIsTyped

LEMMA ConsoleFacts ==
  /\ INPUT_BUFFER_SIZE \in Nat \ {0} /\ COMMAND_LIST_SIZE \in Nat \ {0}
  /\ COMMAND_MAX_ARGS \in Nat \ {0}
  /\ Names \subseteq Seq(Letter)
  /\ "nul" \notin Typed /\ Char \subseteq Typed /\ "bs" \notin Char
  /\ \A ch \in Typed : ch # "bs" => ch \in Char
BY ConsoleAssumption DEF Typed, Char

\* Nothing has been typed: no words.
LEMMA NothingTyped == FirstArgs(Words(<<>>)) = <<>>
<1>1. <<>> \in Seq(Char) /\ StartsOf(<<>>) = {} /\ Cardinality({}) = 0
  BY FS_EmptySet DEF StartsOf
<1>2. Words(<<>>) = <<>>
  <2>1. Len(Words(<<>>)) = 0 /\ Words(<<>>) \in Seq(Seq(Char))
    BY <1>1, WordsType
  <2> QED BY <2>1, EmptySeq
<1>3. FirstArgs(<<>>) = <<>>
  <2>1. Min({0, COMMAND_MAX_ARGS}) = 0
    <3>1. {0, COMMAND_MAX_ARGS} \in SUBSET Nat /\ 0 \in {0, COMMAND_MAX_ARGS}
      BY ConsoleFacts
    <3>2. /\ Min({0, COMMAND_MAX_ARGS}) \in {0, COMMAND_MAX_ARGS}
          /\ \A j \in {0, COMMAND_MAX_ARGS} : Min({0, COMMAND_MAX_ARGS}) <= j
      BY <3>1, LeastExists
    <3>3. Min({0, COMMAND_MAX_ARGS}) <= 0 /\ Min({0, COMMAND_MAX_ARGS}) \in Nat
      BY <3>1, <3>2
    <3> QED BY <3>3
  <2>2. SubSeq(<<>>, 1, 0) = <<>>
    BY SubSeqEmpty
  <2>3. Len(<<>>) = 0
    OBVIOUS
  <2> QED BY <2>1, <2>2, <2>3 DEF FirstArgs
<1> QED BY <1>2, <1>3

\* The string in a buffer that ends with what is typed is the line.
LEMMA TextIs ==
  ASSUME Terminated, SameLine, ~strayed
  PROVE  Text([input_buffer EXCEPT ![input_len] = "nul"]) = line
<1> DEFINE b == [input_buffer EXCEPT ![input_len] = "nul"]
           Z == {i \in DOMAIN b : b[i] = "nul"}
<1>1. /\ input_len \in 0 .. INPUT_BUFFER_SIZE - 1 /\ INPUT_BUFFER_SIZE \in Nat
      /\ DOMAIN b = 0 .. INPUT_BUFFER_SIZE - 1
      /\ \A i \in DOMAIN b : b[i] = "nul" <=> i >= input_len
      /\ \A i \in DOMAIN b : i # input_len => b[i] = input_buffer[i]
  BY ConsoleFacts DEF Terminated
<1> HIDE DEF b
<1>2. Z \in SUBSET Nat /\ input_len \in Z /\ \A i \in Z : input_len <= i
  BY <1>1
<1>3. Min(Z) = input_len
  <2>1. Min(Z) \in Z /\ \A j \in Z : Min(Z) <= j
    <3> HIDE DEF Z
    <3> QED BY <1>2, LeastExists
  <2>2. Min(Z) <= input_len /\ input_len <= Min(Z) /\ Min(Z) \in Nat /\ input_len \in Nat
    BY <1>2, <2>1
  <2> HIDE DEF Z
  <2> QED BY <2>2
<1>4. line \in Seq(Char) /\ input_len = Len(line)
      /\ \A i \in 1 .. Len(line) : input_buffer[i - 1] = line[i]
  BY DEF SameLine
<1>5. Text(b) = [i \in 1 .. input_len |-> b[i - 1]]
  BY <1>3 DEF Text
<1>6. ASSUME NEW i \in 1 .. input_len PROVE b[i - 1] = line[i]
  <2>1. i - 1 \in DOMAIN b /\ i - 1 # input_len
    BY <1>1
  <2> QED BY <2>1, <1>1, <1>4
<1>7. line = [i \in 1 .. input_len |-> line[i]]
  BY <1>4, LenProperties
<1> QED BY <1>5, <1>6, <1>7 DEF b

\* What the carriage return hands over is what has been typed, and it runs the
\* first command of that name.
LEMMA RunsTyped ==
  ASSUME Terminated, SameLine, CommandList, CarriageReturn, commands' = commands,
         strayed \in BOOLEAN
  PROVE  RunsWhatIsTyped'
<1> DEFINE b == [input_buffer EXCEPT ![input_len] = "nul"]
           args == argv_of(b)
<1>1. ran' = [command |-> found(args), argv |-> args, line |-> line, strayed |-> strayed]
  BY DEF CarriageReturn, handle_input_buffer
<1> HIDE DEF args
<1> SUFFICES ASSUME ~strayed
             PROVE  /\ args = FirstArgs(Words(line))
                    /\ LET same == {i \in DOMAIN commands : args # <<>> /\ commands[i] = args[1]}
                       IN  found(args) = IF same = {} THEN 0 ELSE Min(same)
  <2>1. /\ ran'.strayed = strayed /\ ran'.line = line /\ ran'.argv = args
        /\ ran'.command = found(args)
    BY <1>1
  <2> QED BY <2>1 DEF RunsWhatIsTyped
<1>2. Text(b) = line /\ line \in Seq(Char)
  <2>1. Text(b) = line
    BY TextIs
  <2> QED BY <2>1 DEF SameLine
<1>3. args = FirstArgs(Words(line))
  <2>1. args = FirstArgs(FoldLeft(strtok, [list |-> <<>>, open |-> FALSE], Text(b)).list)
    BY DEF argv_of, args
  <2> HIDE DEF b
  <2>2. args = FirstArgs(FoldLeft(strtok, NoToken, line).list)
    BY <2>1, <1>2 DEF NoToken
  <2>3. FoldLeft(strtok, NoToken, line).list = Words(line)
    BY <1>2, ParsesWords
  <2> QED BY <2>2, <2>3
<1>4. LET same == {i \in DOMAIN commands : args # <<>> /\ commands[i] = args[1]}
      IN  found(args) = IF same = {} THEN 0 ELSE Min(same)
  <2>1. DOMAIN commands = 1 .. Len(commands)
    BY LenProperties DEF CommandList
  <2>2. args # <<>> => Head(args) = args[1]
    <3>1. Words(line) \in Seq(Seq(Char)) /\ Len(Words(line)) \in Nat
      BY <1>2, WordsType
    <3> DEFINE W == Words(line)
               k == Min({Len(W), COMMAND_MAX_ARGS})
    <3>2. k \in Int /\ k <= Len(W)
      <4>1. {Len(W), COMMAND_MAX_ARGS} \in SUBSET Nat /\ Len(W) \in {Len(W), COMMAND_MAX_ARGS}
        BY <3>1, ConsoleFacts
      <4>2. k \in {Len(W), COMMAND_MAX_ARGS} /\ \A j \in {Len(W), COMMAND_MAX_ARGS} : k <= j
        BY <4>1, LeastExists
      <4> QED BY <4>1, <4>2
    <3> HIDE DEF W, k
    <3>3. \A i \in 1 .. k : W[i] \in Seq(Char)
      <4>1. \A i \in 1 .. k : i \in 1 .. Len(W)
        BY <3>1, <3>2 DEF W
      <4> QED BY <4>1, <3>1, ElementOfSeq DEF W
    <3>4. SubSeq(W, 1, k) \in Seq(Seq(Char))
      BY <3>2, <3>3, SubSeqProperties, 1 \in Int
    <3>5. args \in Seq(Seq(Char))
      BY <3>4, <1>3 DEF FirstArgs, W, k
    <3> QED BY <3>5
  <2>3. {i \in 1 .. Len(commands) : args # <<>> /\ commands[i] = Head(args)}
          = {i \in DOMAIN commands : args # <<>> /\ commands[i] = args[1]}
    BY <2>1, <2>2
  <2>4. found(args) = LET I == {i \in 1 .. Len(commands) : args # <<>> /\ commands[i] = Head(args)}
                      IN  IF I # {} THEN Min(I) ELSE 0
    BY DEF found, SelectInSeq
  <2> QED BY <2>3, <2>4
<1> QED BY <1>3, <1>4

\* A step that runs no command.
LEMMA NothingRuns ==
  /\ ran = Nothing => RunsWhatIsTyped
  /\ ran' = Nothing => RunsWhatIsTyped'
<1>1. Nothing.line = <<>> /\ Nothing.argv = <<>> /\ Nothing.command = 0
  BY DEF Nothing
<1>2. \A c : {i \in DOMAIN c : <<>> # <<>> /\ c[i] = <<>>[1]} = {}
  OBVIOUS
<1>3. ran = Nothing => RunsWhatIsTyped
  BY <1>1, <1>2, NothingTyped DEF RunsWhatIsTyped
<1>4. ran' = Nothing => RunsWhatIsTyped'
  BY <1>1, <1>2, NothingTyped DEF RunsWhatIsTyped
<1> QED BY <1>3, <1>4

LEMMA ConsoleStarts == ConsoleInit => ConsoleInd
<1> SUFFICES ASSUME ConsoleInit PROVE ConsoleInd
  OBVIOUS
<1>1. CommandList
  BY ConsoleAssumption DEF ConsoleInit, CommandList
<1>2. Terminated
  BY ConsoleFacts DEF ConsoleInit, Terminated, Cleared
<1>3. SameLine
  <2>1. <<>> \in Seq(Char) /\ Len(<<>>) = 0
    OBVIOUS
  <2> QED BY <2>1, ConsoleFacts DEF ConsoleInit, SameLine
<1>4. RunsWhatIsTyped
  BY NothingRuns DEF ConsoleInit
<1> QED BY <1>1, <1>2, <1>3, <1>4 DEF ConsoleInd, ConsoleInit

LEMMA CarriageReturnKeeps ==
  ASSUME ConsoleInd, CarriageReturn, commands' = commands
  PROVE  ConsoleInd'
<1>1. CommandList' /\ strayed' \in BOOLEAN
  BY DEF ConsoleInd, CommandList, CarriageReturn
<1>2. Terminated'
  BY ConsoleFacts DEF CarriageReturn, Terminated, Cleared
<1>3. SameLine'
  <2>1. <<>> \in Seq(Char) /\ Len(<<>>) = 0
    OBVIOUS
  <2> QED BY <2>1, ConsoleFacts DEF CarriageReturn, SameLine
<1>4. RunsWhatIsTyped'
  BY RunsTyped DEF ConsoleInd
<1> QED BY <1>1, <1>2, <1>3, <1>4 DEF ConsoleInd

LEMMA BackspaceKeeps ==
  ASSUME ConsoleInd, Backspace, commands' = commands, ran' = Nothing,
         line' = (IF line # <<>> THEN Front(line) ELSE line),
         strayed' = (strayed \/ line = <<>>)
  PROVE  ConsoleInd'
<1>1. CommandList' /\ strayed' \in BOOLEAN
  BY DEF ConsoleInd, CommandList
<1>2. RunsWhatIsTyped'
  BY NothingRuns
<1>3. /\ input_len \in 1 .. INPUT_BUFFER_SIZE - 1 /\ INPUT_BUFFER_SIZE \in Nat
      /\ input_buffer \in [0 .. INPUT_BUFFER_SIZE - 1 -> Typed \union {"nul"}]
      /\ \A i \in 0 .. INPUT_BUFFER_SIZE - 1 : input_buffer[i] = "nul" <=> i >= input_len
      /\ input_buffer' = [input_buffer EXCEPT ![input_len - 1] = "nul"]
      /\ input_len' = input_len - 1
  BY ConsoleFacts DEF ConsoleInd, Terminated, Backspace, after_backspace
<1>4. Terminated'
  <2>1. /\ input_buffer' \in [0 .. INPUT_BUFFER_SIZE - 1 -> Typed \union {"nul"}]
        /\ DOMAIN input_buffer' = 0 .. INPUT_BUFFER_SIZE - 1
    BY <1>3
  <2>2. ASSUME NEW i \in 0 .. INPUT_BUFFER_SIZE - 1
        PROVE  input_buffer'[i] = "nul" <=> i >= input_len'
    BY <1>3
  <2> QED BY <1>3, <2>1, <2>2 DEF Terminated
<1>5. SameLine'
  <2>1. line \in Seq(Char) /\ Len(line) < INPUT_BUFFER_SIZE
    BY DEF ConsoleInd, SameLine
  <2>2. CASE line = <<>>
    BY <2>1, <2>2 DEF SameLine
  <2>3. CASE line # <<>>
    <3>1. Len(line) \in Nat \ {0} /\ \A k \in 1 .. Len(line) - 1 : line[k] \in Char
      BY <2>1, <2>3, EmptySeq, ElementOfSeq
    <3> DEFINE N == Len(line) - 1
    <3>2. N \in Nat /\ 1 \in Int
      BY <3>1
    <3>3. /\ SubSeq(line, 1, N) \in Seq(Char)
          /\ Len(SubSeq(line, 1, N)) = IF 1 <= N THEN N - 1 + 1 ELSE 0
          /\ \A k \in 1 .. N - 1 + 1 : SubSeq(line, 1, N)[k] = line[1 + k - 1]
      <4> HIDE DEF N
      <4>1. \A k \in 1 .. N : line[k] \in Char
        BY <3>1 DEF N
      <4> QED BY <4>1, <3>2, SubSeqProperties
    <3> DEFINE f == SubSeq(line, 1, N)
    <3>4. line' = f
      BY <2>3 DEF Front
    <3> HIDE DEF f
    <3>5. f \in Seq(Char) /\ Len(f) = N /\ \A k \in 1 .. N : f[k] = line[k]
      <4>1. Len(f) = N
        <5>1. Len(f) = IF 1 <= N THEN N - 1 + 1 ELSE 0
          BY <3>3 DEF f
        <5> HIDE DEF N
        <5> QED BY <5>1, <3>2
      <4>2. ASSUME NEW k \in 1 .. N PROVE f[k] = line[k]
        <5>1. k \in 1 .. N - 1 + 1 /\ 1 + k - 1 = k
          BY <3>2
        <5> QED BY <5>1, <3>3 DEF f
      <4> QED BY <3>3, <4>1, <4>2 DEF f
    <3>6. ASSUME ~strayed'
          PROVE  input_len' = N /\ \A k \in 1 .. N : input_buffer'[k - 1] = f[k]
      <4>1. input_len = Len(line) /\ \A k \in 1 .. Len(line) : input_buffer[k - 1] = line[k]
        BY <3>6 DEF ConsoleInd, SameLine
      <4>2. ASSUME NEW k \in 1 .. N PROVE input_buffer'[k - 1] = f[k]
        <5>1. k \in 1 .. Len(line) /\ k - 1 # input_len - 1
          BY <3>1, <4>1
        <5>2. k - 1 \in 0 .. INPUT_BUFFER_SIZE - 1
          BY <5>1, <4>1, <1>3
        <5>3. input_buffer'[k - 1] = input_buffer[k - 1]
          BY <5>1, <5>2, <1>3
        <5> QED BY <5>1, <5>3, <4>1, <3>5
      <4> QED BY <4>1, <4>2, <1>3
    <3>7. N < INPUT_BUFFER_SIZE
      BY <2>1, <3>1, ConsoleFacts
    <3> HIDE DEF N
    <3> QED BY <3>4, <3>5, <3>6, <3>7 DEF SameLine
  <2> QED BY <2>2, <2>3
<1> QED BY <1>1, <1>2, <1>4, <1>5 DEF ConsoleInd

LEMMA StoreKeeps ==
  ASSUME ConsoleInd, NEW ch \in Typed, Store(ch), commands' = commands, ran' = Nothing,
         ch = "bs" => line' = (IF line # <<>> THEN Front(line) ELSE line),
         ch # "bs" => line' = (IF Len(line) < INPUT_BUFFER_SIZE - 1 THEN Append(line, ch) ELSE line),
         strayed' = (strayed \/ (ch = "bs" /\ line = <<>>))
  PROVE  ConsoleInd'
<1>1. CommandList' /\ strayed' \in BOOLEAN
  BY DEF ConsoleInd, CommandList
<1>2. RunsWhatIsTyped'
  BY NothingRuns
<1>3. /\ input_len \in 0 .. INPUT_BUFFER_SIZE - 1 /\ INPUT_BUFFER_SIZE \in Nat
      /\ input_buffer \in [0 .. INPUT_BUFFER_SIZE - 1 -> Typed \union {"nul"}]
      /\ \A i \in 0 .. INPUT_BUFFER_SIZE - 1 : input_buffer[i] = "nul" <=> i >= input_len
      /\ ch # "nul"
      /\ IF input_len < INPUT_BUFFER_SIZE - 1
           THEN input_buffer' = [input_buffer EXCEPT ![input_len] = ch] /\ input_len' = input_len + 1
           ELSE input_buffer' = input_buffer /\ input_len' = input_len
      /\ ~(ch = "bs" /\ input_len > 0)
  BY ConsoleFacts DEF ConsoleInd, Terminated, Store, has_room
<1>4. Terminated'
  <2>1. CASE input_len < INPUT_BUFFER_SIZE - 1
    <3>1. /\ input_buffer' \in [0 .. INPUT_BUFFER_SIZE - 1 -> Typed \union {"nul"}]
          /\ DOMAIN input_buffer' = 0 .. INPUT_BUFFER_SIZE - 1
          /\ input_len' \in 0 .. INPUT_BUFFER_SIZE - 1
      BY <1>3, <2>1
    <3>2. ASSUME NEW i \in 0 .. INPUT_BUFFER_SIZE - 1
          PROVE  input_buffer'[i] = "nul" <=> i >= input_len'
      BY <1>3, <2>1
    <3> QED BY <3>1, <3>2 DEF Terminated
  <2>2. CASE ~(input_len < INPUT_BUFFER_SIZE - 1)
    BY <1>3, <2>2 DEF ConsoleInd, Terminated
  <2> QED BY <2>1, <2>2
<1>5. SameLine'
  <2>1. line \in Seq(Char) /\ Len(line) < INPUT_BUFFER_SIZE /\ Len(line) \in Nat
        /\ (line # <<>> => Len(line) # 0)
    BY EmptySeq, LenProperties DEF ConsoleInd, SameLine
  <2>2. CASE ch = "bs"
    <3>1. ASSUME line # <<>> PROVE Front(line) \in Seq(Char) /\ Len(Front(line)) < INPUT_BUFFER_SIZE
      <4> DEFINE N == Len(line) - 1
      <4>1. N \in Nat /\ 1 \in Int /\ \A k \in 1 .. N : line[k] \in Char
        BY <2>1, <3>1, ElementOfSeq
      <4> HIDE DEF N
      <4>2. SubSeq(line, 1, N) \in Seq(Char) /\ Len(SubSeq(line, 1, N)) = IF 1 <= N THEN N - 1 + 1 ELSE 0
        BY <4>1, SubSeqProperties
      <4>3. Len(SubSeq(line, 1, N)) = N
        BY <4>1, <4>2
      <4>4. N < INPUT_BUFFER_SIZE
        BY <2>1, <1>3 DEF N
      <4> QED BY <4>2, <4>3, <4>4 DEF Front, N
    <3>2. line' \in Seq(Char) /\ Len(line') < INPUT_BUFFER_SIZE
      BY <2>1, <2>2, <3>1
    <3>3. strayed'
      <4>1. strayed \/ input_len = Len(line)
        BY DEF ConsoleInd, SameLine
      <4>2. CASE strayed
        BY <4>2
      <4>3. CASE input_len = Len(line)
        <5>1. line = <<>>
          BY <4>3, <2>1, <2>2, <1>3
        <5> QED BY <5>1, <2>2
      <4> QED BY <4>1, <4>2, <4>3
    <3> QED BY <3>2, <3>3 DEF SameLine
  <2>3. CASE ch # "bs"
    <3>1. ch \in Char
      BY <2>3, ConsoleFacts
    <3> DEFINE m == Append(line, ch)
    <3>2. /\ m \in Seq(Char) /\ Len(m) = Len(line) + 1
          /\ \A k \in 1 .. Len(line) : m[k] = line[k]
          /\ m[Len(line) + 1] = ch
      BY <2>1, <3>1, OneMore
    <3> HIDE DEF m
    <3>3. CASE Len(line) < INPUT_BUFFER_SIZE - 1
      <4>1. line' = m
        BY <2>3, <3>3 DEF m
      <4>2. Len(m) < INPUT_BUFFER_SIZE
        BY <2>1, <3>2, <3>3, <1>3
      <4>3. ASSUME ~strayed'
            PROVE  input_len' = Len(m) /\ \A k \in 1 .. Len(m) : input_buffer'[k - 1] = m[k]
        <5>1. input_len = Len(line) /\ \A k \in 1 .. Len(line) : input_buffer[k - 1] = line[k]
          BY <4>3 DEF ConsoleInd, SameLine
        <5>2. input_buffer' = [input_buffer EXCEPT ![input_len] = ch] /\ input_len' = input_len + 1
          BY <5>1, <3>3, <1>3
        <5>3. ASSUME NEW k \in 1 .. Len(m) PROVE input_buffer'[k - 1] = m[k]
          <6>1. k - 1 \in 0 .. INPUT_BUFFER_SIZE - 1
            BY <1>3, <3>2, <3>3, <2>1
          <6>2. CASE k = Len(line) + 1
            <7>1. k - 1 = input_len
              BY <6>2, <5>1, <2>1
            <7> QED BY <7>1, <6>1, <6>2, <5>2, <3>2, <1>3
          <6>3. CASE k \in 1 .. Len(line)
            <7>1. k - 1 # input_len
              BY <6>3, <5>1, <2>1
            <7> QED BY <7>1, <6>1, <6>3, <5>1, <5>2, <3>2, <1>3
          <6> QED BY <6>2, <6>3, <3>2, <2>1
        <5> QED BY <5>1, <5>2, <5>3, <3>2
      <4> QED BY <4>1, <4>2, <4>3, <3>2 DEF SameLine
    <3>4. CASE ~(Len(line) < INPUT_BUFFER_SIZE - 1)
      <4>1. line' = line /\ strayed' = strayed
        BY <2>3, <3>4 DEF ConsoleInd
      <4>2. ~strayed => input_buffer' = input_buffer /\ input_len' = input_len
        BY <3>4, <1>3 DEF ConsoleInd, SameLine
      <4> QED BY <4>1, <4>2 DEF ConsoleInd, SameLine
    <3> QED BY <3>3, <3>4
  <2> QED BY <2>2, <2>3
<1> QED BY <1>1, <1>2, <1>4, <1>5 DEF ConsoleInd

LEMMA RegisterKeeps ==
  ASSUME ConsoleInd, console_register_cmd
  PROVE  ConsoleInd'
<1>1. PICK name \in Names :
        commands' = IF Len(commands) < COMMAND_LIST_SIZE THEN Append(commands, name) ELSE commands
  BY DEF console_register_cmd
<1>2. commands \in Seq(Seq(Letter)) /\ Len(commands) <= COMMAND_LIST_SIZE /\ name \in Seq(Letter)
      /\ Len(commands) \in Nat /\ COMMAND_LIST_SIZE \in Nat
  BY ConsoleFacts, LenProperties DEF ConsoleInd, CommandList
<1>3. Append(commands, name) \in Seq(Seq(Letter))
      /\ Len(Append(commands, name)) = Len(commands) + 1
  BY <1>2, AppendProperties
<1>4. CommandList'
  BY <1>1, <1>2, <1>3 DEF CommandList
<1>5. RunsWhatIsTyped'
  BY NothingRuns DEF console_register_cmd
<1>6. Terminated' /\ SameLine' /\ strayed' \in BOOLEAN
  BY DEF console_register_cmd, ConsoleInd, Terminated, SameLine
<1> QED BY <1>4, <1>5, <1>6 DEF ConsoleInd

LEMMA ConsoleInductive == ConsoleInd /\ [ConsoleNext]_consoleVars => ConsoleInd'
<1> SUFFICES ASSUME ConsoleInd, [ConsoleNext]_consoleVars PROVE ConsoleInd'
  OBVIOUS
<1>1. CASE UNCHANGED consoleVars
  BY <1>1 DEF consoleVars, ConsoleInd, CommandList, Terminated, SameLine, RunsWhatIsTyped
<1>2. CASE console_register_cmd
  BY <1>2, RegisterKeeps
<1>3. CASE console_input_char
  <2>1. commands' = commands
    BY <1>3 DEF console_input_char
  <2>2. CASE CarriageReturn
    BY <2>1, <2>2, CarriageReturnKeeps
  <2>3. ASSUME NEW ch \in Typed, (ch = "bs" /\ Backspace) \/ Store(ch),
               line' = CASE ch = "bs" /\ line # <<>> -> Front(line)
                         [] ch # "bs" /\ Len(line) < INPUT_BUFFER_SIZE - 1 -> Append(line, ch)
                         [] OTHER -> line,
               strayed' = (strayed \/ (ch = "bs" /\ line = <<>>)),
               ran' = Nothing
        PROVE  ConsoleInd'
    <3>1. /\ ch = "bs" => line' = (IF line # <<>> THEN Front(line) ELSE line)
          /\ ch # "bs" => line' = (IF Len(line) < INPUT_BUFFER_SIZE - 1 THEN Append(line, ch) ELSE line)
      BY <2>3
    <3>2. CASE ch = "bs" /\ Backspace
      <4>1. strayed' = (strayed \/ line = <<>>)
        BY <2>3, <3>2
      <4> QED BY <4>1, <2>1, <2>3, <3>1, <3>2, BackspaceKeeps
    <3>3. CASE Store(ch)
      BY <2>1, <2>3, <3>1, <3>3, StoreKeeps
    <3> QED BY <2>3, <3>2, <3>3
  <2> QED BY <1>3, <2>2, <2>3 DEF console_input_char
<1> QED BY <1>1, <1>2, <1>3 DEF ConsoleNext

\* The line that is typed is the line that is run, for any size of the buffer, any
\* commands, and every sequence of characters, backspaces and registrations.
THEOREM RunsTheLine == ConsoleSpec => []ConsoleInv
<1>1. ConsoleInd => ConsoleInv
  BY DEF ConsoleInd, ConsoleInv, CommandList
<1> QED BY <1>1, ConsoleStarts, ConsoleInductive, PTL DEF ConsoleSpec

-----------------------------------------------------------------------------
(* I2C: where a transfer is.  Its operations are those of the start, of the   *)
(* bytes with their answers, and of the stop; todo is what is left of them.   *)

Op == {SDA(0), SDA(1), SCL(0), SCL(1), READ_SDA, WAIT_SDA}

Octet == [1 .. ByteBits -> Bit]

\* A write has one part, a read has two; the bytes the master sends in part p.
BytesOf(c, p) ==
  IF p = 2 THEN <<ToRead(c)>>
  ELSE IF c.op = "write" THEN <<ToWrite(c)>> \o c.reg \o c.data
  ELSE <<ToWrite(c)>> \o c.reg

BitOps(v) == <<SDA(v), SCL(1), SCL(0)>>
ReadOps == <<SCL(1), READ_SDA, SCL(0)>>
AckOps(byte) == i2c_software_send_byte(byte) \o i2c_software_wait_ack
AnswerOps(c, i) == i2c_software_read_byte \o answer_byte(c, i)

\* What is left of a sequence of groups of operations after the first k groups:
\* of a byte after k bits, of a list of bytes or of the bytes to read after k bytes.
Left(groups, k) == FlattenSeq(SubSeq(groups, k + 1, Len(groups)))

BitsLeft(byte, k) == Left([i \in 1 .. ByteBits |-> BitOps(byte[i])], k)
ReadsLeft(k) == Left([i \in 1 .. ByteBits |-> ReadOps], k)
BytesLeft(list, k) == Left([i \in DOMAIN list |-> AckOps(list[i])], k)
AnswersLeft(c, k) == Left([i \in 1 .. c.len |-> AnswerOps(c, i)], k)

\* What comes after the bytes of part p.
After(c, p) ==
  IF p = 2 THEN AnswersLeft(c, 0) \o i2c_software_stop
  ELSE IF c.op = "write" THEN i2c_software_stop
  ELSE i2c_software_start \o (BytesLeft(BytesOf(c, 2), 0) \o (AnswersLeft(c, 0) \o i2c_software_stop))

GotBefore(c, p) == IF p = 2 THEN BytesOf(c, 1) ELSE <<>>

Parts(c) == IF c.op = "read" THEN {1, 2} ELSE {1}

-----------------------------------------------------------------------------
(* The positions *)

IsDevice(mode, first, b, level) ==
  device = [mode |-> mode, first |-> first, bits |-> b, sda |-> level]

Untouched == acked = TRUE /\ bits = <<>> /\ sent = <<>>

Transferred ==
  /\ got = BytesOf(call, 1) \o IF call.op = "write" THEN <<>> ELSE BytesOf(call, 2)
  /\ bits = FlattenSeq(sent)
  /\ call.op = "read" => Len(sent) = call.len

AtRest ==
  todo = <<>> /\ sda = 1 /\ scl = 1 /\ device.mode = "idle" /\ device.sda = 1 /\ (acked => Transferred)

AtStart(p, i) ==
  /\ Untouched /\ got = GotBefore(call, p)
  /\ todo = SubSeq(i2c_software_start, i + 1, 4) \o (BytesLeft(BytesOf(call, p), 0) \o After(call, p))
  /\ device.mode \in {"idle", "listen"} /\ device.sda = 1
  /\ i \in {0, 1} => \/ sda = 1 /\ scl = 1
                     \/ scl = 0 /\ device.mode = "listen" /\ device.bits = <<>>
  /\ i = 1 => sda = 1
  /\ i = 2 => sda = 1 /\ scl = 1
  /\ i = 3 => sda = 0 /\ scl = 1 /\ IsDevice("listen", TRUE, <<>>, 1)

\* In byte j of part p.
AtByte(p, j) ==
  /\ Untouched /\ j \in 1 .. Len(BytesOf(call, p))
  /\ got = GotBefore(call, p) \o SubSeq(BytesOf(call, p), 1, j - 1)

AfterByte(p, j) == BytesLeft(BytesOf(call, p), j) \o After(call, p)

\* i operations of the bit after the first k have been done.
AtBit(p, j, k, i) ==
  LET byte == BytesOf(call, p)[j]
      rest == i2c_software_wait_ack \o AfterByte(p, j)
  IN  /\ AtByte(p, j) /\ k \in 0 .. ByteBits - 1
      /\ todo = SubSeq(BitOps(byte[k + 1]), i + 1, 3) \o (BitsLeft(byte, k + 1) \o rest)
      /\ scl = IF i = 2 THEN 1 ELSE 0
      /\ i > 0 => sda = byte[k + 1]
      /\ IsDevice("listen", j = 1, SubSeq(byte, 1, IF i = 2 THEN k + 1 ELSE k), 1)

AtAck(p, j, i) ==
  LET byte == BytesOf(call, p)[j]
  IN  /\ AtByte(p, j)
      /\ todo = SubSeq(i2c_software_wait_ack, i + 1, 4) \o AfterByte(p, j)
      /\ scl = IF i < 2 THEN 0 ELSE 1
      /\ i > 0 => sda = 1
      /\ \/ IsDevice("answer", j = 1, byte, 0)
         \/ i < 3 /\ IsDevice("late", j = 1, byte, 1) /\ call.wait_ack_us > 0
         \/ i < 3 /\ IsDevice("deaf", j = 1, <<>>, 1)

\* The two stops after a missing answer.
AtFailure(i) ==
  /\ acked = FALSE
  /\ todo = SubSeq(i2c_software_stop \o i2c_software_stop, i + 1, 6)
  /\ scl = 1 /\ device.sda = 1
  /\ sda = IF i \in {0, 3} THEN 1 ELSE 0
  /\ i = 0 => device.mode = "deaf"
  /\ i = 3 => device.mode = "idle"
  /\ i \notin {0, 3} => device.mode = "listen"

AtStop(i) ==
  /\ acked = TRUE /\ Transferred
  /\ todo = SubSeq(i2c_software_stop, i + 1, 3)
  /\ scl = (IF i = 2 THEN 1 ELSE 0) /\ (i > 0 => sda = 0)
  /\ device.sda = 1
  /\ \/ device.mode = "listen" /\ device.bits = IF i = 2 THEN <<0>> ELSE <<>>
     \/ device.mode = "idle"

\* The master has read the bytes of list and is at byte b.
Reading(j, list, b) ==
  /\ acked = TRUE /\ call.op = "read" /\ got = BytesOf(call, 1) \o BytesOf(call, 2)
  /\ j \in 1 .. call.len /\ list \in Seq(Byte) /\ Len(list) = j - 1 /\ b \in Byte
  /\ sent = Append(list, b)

AfterRead(j) == answer_byte(call, j) \o (AnswersLeft(call, j) \o i2c_software_stop)

AtRead(j, list, b) ==
  /\ Reading(j, list, b) /\ bits = FlattenSeq(list)
  /\ todo = <<SDA(1)>> \o (ReadsLeft(0) \o AfterRead(j))
  /\ scl = 0 /\ IsDevice("send", FALSE, b, b[1])

AtReadBit(j, list, b, k, i) ==
  /\ Reading(j, list, b) /\ k \in 0 .. ByteBits - 1
  /\ bits = FlattenSeq(list) \o SubSeq(b, 1, IF i = 2 THEN k + 1 ELSE k)
  /\ todo = SubSeq(ReadOps, i + 1, 3) \o (ReadsLeft(k + 1) \o AfterRead(j))
  /\ sda = 1 /\ scl = IF i = 0 THEN 0 ELSE 1
  /\ IsDevice("send", FALSE, SubSeq(b, k + 1, ByteBits), b[k + 1])

AtAnswer(j, list, b, i) ==
  LET v == IF j = call.len THEN 1 ELSE 0
  IN  /\ Reading(j, list, b) /\ bits = FlattenSeq(sent)
      /\ todo = SubSeq(answer_byte(call, j), i + 1, 3) \o (AnswersLeft(call, j) \o i2c_software_stop)
      /\ scl = (IF i = 2 THEN 1 ELSE 0) /\ (i > 0 => sda = v)
      /\ IsDevice("answered", FALSE, IF i = 2 THEN <<v>> ELSE <<>>, 1)

AtPlace ==
  \/ AtRest
  \/ \E i \in 0 .. 5 : AtFailure(i)
  \/ \E i \in 0 .. 2 : AtStop(i)
  \/ \E p \in Parts(call) :
       \/ \E i \in 0 .. 3 : AtStart(p, i)
       \/ \E j \in Nat :
            \/ \E k \in Nat, i \in 0 .. 2 : AtBit(p, j, k, i)
            \/ \E i \in 0 .. 3 : AtAck(p, j, i)
  \/ \E j \in Nat, list \in Seq(Byte), b \in Byte :
       \/ AtRead(j, list, b)
       \/ \E k \in Nat, i \in 0 .. 2 : AtReadBit(j, list, b, k, i)
       \/ \E i \in 0 .. 2 : AtAnswer(j, list, b, i)

I2cTypes ==
  /\ call \in Transfers /\ todo \in Seq(Op) /\ acked \in BOOLEAN
  /\ sda \in Bit /\ scl \in Bit /\ device \in Device

I2cInd == I2cTypes /\ AtPlace

-----------------------------------------------------------------------------
(* FlattenSeq *)

\* The recursive function of FlattenSeq, on the first n sequences.
IsFlat(s, n, f) ==
  f = [i \in 1 .. n |-> IF i = 1 THEN s[i] ELSE f[i - 1] \o s[i]]

LEMMA FlatExists ==
  ASSUME NEW s
  PROVE  \A n \in Nat : \E f : IsFlat(s, n, f)
<1> DEFINE S == {n \in Nat : \E f : IsFlat(s, n, f)}
<1>1. 0 \in S
  <2> DEFINE f == [i \in 1 .. 0 |-> <<>>]
  <2>1. 1 .. 0 = {}
    OBVIOUS
  <2>2. IsFlat(s, 0, f)
    BY <2>1 DEF IsFlat
  <2> QED BY <2>2
<1>2. ASSUME NEW n \in Nat, n \in S PROVE n + 1 \in S
  <2>1. PICK f : IsFlat(s, n, f)
    BY <1>2
  <2> DEFINE h == [i \in 1 .. n + 1 |->
                    IF i \in 1 .. n THEN f[i] ELSE IF i = 1 THEN s[i] ELSE f[i - 1] \o s[i]]
             k == [i \in 1 .. n + 1 |-> IF i = 1 THEN s[i] ELSE h[i - 1] \o s[i]]
  <2>2. ASSUME NEW i \in 1 .. n + 1 PROVE h[i] = k[i]
    <3>1. CASE i = 1
      <4>1. i \in 1 .. n => f[i] = s[i]
        BY <3>1, <2>1 DEF IsFlat
      <4> QED BY <3>1, <4>1
    <3>2. CASE i # 1
      <4>1. i - 1 \in 1 .. n /\ i - 1 \in 1 .. n + 1
        BY <3>2
      <4>2. h[i - 1] = f[i - 1]
        BY <4>1
      <4>3. i \in 1 .. n => f[i] = f[i - 1] \o s[i]
        BY <3>2, <2>1 DEF IsFlat
      <4>4. h[i] = f[i - 1] \o s[i]
        BY <3>2, <4>3
      <4>5. k[i] = h[i - 1] \o s[i]
        <5> HIDE DEF h
        <5> QED BY <3>2
      <4> QED BY <4>2, <4>4, <4>5
    <3> QED BY <3>1, <3>2
  <2>3. /\ h = [i \in 1 .. n + 1 |-> h[i]]
        /\ k = [i \in 1 .. n + 1 |-> k[i]]
    OBVIOUS
  <2>4. h = k
    <3> HIDE DEF h, k
    <3> QED BY <2>2, <2>3
  <2> HIDE DEF h
  <2>5. IsFlat(s, n + 1, h)
    BY <2>4 DEF IsFlat
  <2> QED BY <2>5
<1> HIDE DEF S
<1>3. \A n \in Nat : n \in S
  BY <1>1, <1>2, SetInduction
<1> QED BY <1>3 DEF S

LEMMA FlatStep ==
  ASSUME NEW s, NEW n \in Nat, NEW f, IsFlat(s, n, f), NEW k \in Nat, k # 0, k + 1 <= n
  PROVE  f[k + 1] = f[k] \o s[k + 1]
<1> DEFINE m == k + 1
<1>1. m \in 1 .. n /\ m # 1 /\ m - 1 = k
  OBVIOUS
<1> HIDE DEF m
<1>2. f[m] = f[m - 1] \o s[m]
  BY <1>1 DEF IsFlat
<1> QED BY <1>1, <1>2 DEF m

\* FlattenSeq is that function at the last sequence, and sequences that agree in
\* their first elements have the same functions there.
LEMMA FlatIs ==
  ASSUME NEW X, NEW s \in Seq(Seq(X))
  PROVE  /\ s = <<>> => FlattenSeq(s) = <<>>
         /\ s # <<>> => \E f : IsFlat(s, Len(s), f) /\ FlattenSeq(s) = f[Len(s)]
<1>1. Len(s) \in Nat /\ (s # <<>> => Len(s) # 0)
  BY EmptySeq, LenProperties
<1>2. s = <<>> => FlattenSeq(s) = <<>>
  <2>1. Len(<<>>) = 0
    OBVIOUS
  <2> QED BY <2>1 DEF FlattenSeq
<1>3. ASSUME s # <<>> PROVE \E f : IsFlat(s, Len(s), f) /\ FlattenSeq(s) = f[Len(s)]
  <2> DEFINE flat == CHOOSE f : IsFlat(s, Len(s), f)
  <2>1. IsFlat(s, Len(s), flat)
    BY <1>1, FlatExists
  <2>2. FlattenSeq(s) = flat[Len(s)]
    BY <1>1, <1>3 DEF FlattenSeq, IsFlat
  <2> HIDE DEF flat
  <2> QED BY <2>1, <2>2
<1> QED BY <1>2, <1>3

LEMMA FlatType ==
  ASSUME NEW X, NEW s \in Seq(Seq(X)), NEW f, NEW n \in 1 .. Len(s), IsFlat(s, Len(s), f)
  PROVE  f[n] \in Seq(X)
<1> DEFINE S == {k \in Nat : k + 1 \in 1 .. Len(s) => f[k + 1] \in Seq(X)}
<1>0. Len(s) \in Nat /\ \A i \in 1 .. Len(s) : s[i] \in Seq(X)
  BY LenProperties, ElementOfSeq
<1>1. 0 \in S
  <2>1. 1 \in 1 .. Len(s) => f[1] = s[1]
    BY DEF IsFlat
  <2> QED BY <2>1, <1>0
<1>2. ASSUME NEW k \in Nat, k \in S PROVE k + 1 \in S
  <2> SUFFICES ASSUME k + 1 + 1 \in 1 .. Len(s) PROVE f[k + 1 + 1] \in Seq(X)
    OBVIOUS
  <2>1. k + 1 \in 1 .. Len(s) /\ k + 1 + 1 # 1 /\ k + 1 + 1 - 1 = k + 1
    BY <1>0
  <2>2. f[k + 1 + 1] = f[k + 1] \o s[k + 1 + 1]
    <3>1. k + 1 \in Nat /\ k + 1 # 0 /\ k + 1 + 1 <= Len(s)
      BY <1>0
    <3> QED BY <3>1, <1>0, FlatStep
  <2>3. f[k + 1] \in Seq(X) /\ s[k + 1 + 1] \in Seq(X)
    BY <2>1, <1>0, <1>2
  <2> QED BY <2>2, <2>3, ConcatProperties
<1> HIDE DEF S
<1>3. \A k \in Nat : k \in S
  BY <1>1, <1>2, SetInduction
<1>4. n - 1 \in Nat /\ n - 1 + 1 = n
  BY <1>0
<1>5. n - 1 \in S
  BY <1>3, <1>4
<1> QED BY <1>4, <1>5 DEF S

\* One sequence more at the end.
LEMMA FlatAppend ==
  ASSUME NEW X, NEW s \in Seq(Seq(X)), NEW e \in Seq(X)
  PROVE  /\ FlattenSeq(s) \in Seq(X)
         /\ FlattenSeq(Append(s, e)) = FlattenSeq(s) \o e
<1> DEFINE t == Append(s, e)
           N == Len(s)
<1>1. /\ t \in Seq(Seq(X)) /\ t # <<>> /\ Len(t) = N + 1 /\ N \in Nat
      /\ \A i \in 1 .. N : t[i] = s[i]
      /\ t[N + 1] = e
  BY AppendProperties, LenProperties
<1> HIDE DEF t
<1>2. PICK h : IsFlat(t, Len(t), h) /\ FlattenSeq(t) = h[Len(t)]
  BY <1>1, FlatIs
<1>3. CASE s = <<>>
  <2>1. N = 0 /\ FlattenSeq(s) = <<>> /\ <<>> \in Seq(X)
    <3>1. Len(<<>>) = 0 /\ <<>> \in Seq(X)
      OBVIOUS
    <3> QED BY <3>1, <1>3, FlatIs
  <2>2. h[1] = t[1]
    BY <1>1, <1>2, <2>1 DEF IsFlat
  <2>3. FlattenSeq(t) = e
    BY <1>1, <1>2, <2>1, <2>2
  <2>4. <<>> \o e = e
    BY ConcatEmptySeq
  <2> QED BY <2>1, <2>3, <2>4 DEF t
<1>4. CASE s # <<>>
  <2>0. N > 0
    BY <1>1, <1>4, EmptySeq
  <2>1. PICK f : IsFlat(s, N, f) /\ FlattenSeq(s) = f[N]
    BY <1>4, FlatIs
  <2> HIDE DEF N
  <2> DEFINE S == {k \in Nat : k + 1 \in 1 .. N => f[k + 1] = h[k + 1]}
  <2>2. 0 \in S
    BY <1>1, <1>2, <2>1 DEF IsFlat
  <2>3. ASSUME NEW k \in Nat, k \in S PROVE k + 1 \in S
    <3> SUFFICES ASSUME k + 1 + 1 \in 1 .. N PROVE f[k + 1 + 1] = h[k + 1 + 1]
      OBVIOUS
    <3>1. k + 1 \in 1 .. N /\ k + 1 + 1 # 1 /\ k + 1 + 1 - 1 = k + 1 /\ k + 1 + 1 \in 1 .. N + 1
      BY <1>1
    <3>4. k + 1 \in Nat /\ k + 1 # 0 /\ k + 1 + 1 <= N /\ k + 1 + 1 <= Len(t) /\ Len(t) \in Nat
      BY <1>1
    <3>2. f[k + 1 + 1] = f[k + 1] \o s[k + 1 + 1]
      BY <2>1, <3>4, <1>1, FlatStep
    <3>3. h[k + 1 + 1] = h[k + 1] \o t[k + 1 + 1]
      BY <1>2, <3>4, FlatStep
    <3> QED BY <3>1, <3>2, <3>3, <2>3, <1>1
  <2> HIDE DEF S
  <2>4. \A k \in Nat : k \in S
    BY <2>2, <2>3, SetInduction
  <2>5. N - 1 \in S /\ N - 1 + 1 = N
    BY <2>4, <2>0, <1>1
  <2>6. f[N] = h[N]
    BY <2>0, <2>5, <1>1 DEF S
  <2>7. h[N + 1] = h[N] \o t[N + 1]
    <3>1. N \in Nat /\ N # 0 /\ N + 1 <= Len(t) /\ Len(t) \in Nat
      BY <1>1, <2>0
    <3> QED BY <3>1, <1>2, FlatStep
  <2>8. f[N] \in Seq(X)
    <3>1. N \in 1 .. Len(s)
      BY <1>1, <2>0 DEF N
    <3> QED BY <3>1, <2>1, FlatType DEF N
  <2> QED BY <2>1, <2>6, <2>7, <2>8, <1>1, <1>2 DEF t
<1> QED BY <1>3, <1>4

\* One sequence more at the beginning.
LEMMA FlatFirst ==
  ASSUME NEW X, NEW e \in Seq(X)
  PROVE  \A s \in Seq(Seq(X)) : FlattenSeq(<<e>> \o s) = e \o FlattenSeq(s)
<1> DEFINE S == {n \in Nat : \A s \in Seq(Seq(X)) : Len(s) = n => FlattenSeq(<<e>> \o s) = e \o FlattenSeq(s)}
<1>0. <<e>> \in Seq(Seq(X)) /\ <<>> \in Seq(Seq(X)) /\ <<>> \in Seq(X)
  OBVIOUS
<1>1. 0 \in S
  <2> SUFFICES ASSUME NEW s \in Seq(Seq(X)), Len(s) = 0
               PROVE  FlattenSeq(<<e>> \o s) = e \o FlattenSeq(s)
    OBVIOUS
  <2>1. s = <<>>
    BY EmptySeq
  <2>2. <<e>> \o s = Append(<<>>, e)
    BY <2>1, <1>0
  <2>3. FlattenSeq(<<>>) = <<>>
    BY <1>0, FlatIs
  <2>4. FlattenSeq(Append(<<>>, e)) = FlattenSeq(<<>>) \o e
    BY <1>0, FlatAppend
  <2>5. <<>> \o e = e /\ e \o <<>> = e
    BY ConcatEmptySeq
  <2> QED BY <2>1, <2>2, <2>3, <2>4, <2>5
<1>2. ASSUME NEW n \in Nat, n \in S PROVE n + 1 \in S
  <2> SUFFICES ASSUME NEW s \in Seq(Seq(X)), Len(s) = n + 1
               PROVE  FlattenSeq(<<e>> \o s) = e \o FlattenSeq(s)
    BY n + 1 \in Nat
  <2>1. s # <<>>
    BY EmptySeq
  <2>2. PICK r \in Seq(Seq(X)), x \in Seq(X) : s = Append(r, x)
    BY <2>1, SequenceEmptyOrAppend
  <2>3. Len(r) = n
    <3>1. Len(s) = Len(r) + 1 /\ Len(r) \in Nat
      BY <2>2, AppendProperties, LenProperties
    <3> QED BY <3>1
  <2>4. FlattenSeq(<<e>> \o r) = e \o FlattenSeq(r)
    BY <1>2, <2>3
  <2>5. <<e>> \o s = Append(<<e>> \o r, x) /\ <<e>> \o r \in Seq(Seq(X))
    <3>1. s = r \o <<x>> /\ <<x>> \in Seq(Seq(X)) /\ <<e>> \o r \in Seq(Seq(X))
      BY <2>2, <1>0, AppendIsConcat, ConcatProperties
    <3>2. (<<e>> \o r) \o <<x>> = <<e>> \o (r \o <<x>>)
      BY <3>1, <1>0, ConcatAssociative
    <3>3. Append(<<e>> \o r, x) = (<<e>> \o r) \o <<x>>
      BY <3>1, AppendIsConcat
    <3> QED BY <3>1, <3>2, <3>3
  <2>6. FlattenSeq(<<e>> \o s) = FlattenSeq(<<e>> \o r) \o x
    BY <2>5, FlatAppend
  <2>7. FlattenSeq(s) = FlattenSeq(r) \o x /\ FlattenSeq(r) \in Seq(X)
    BY <2>2, FlatAppend
  <2>8. (e \o FlattenSeq(r)) \o x = e \o (FlattenSeq(r) \o x)
    BY <2>7, ConcatAssociative
  <2> QED BY <2>4, <2>6, <2>7, <2>8
<1> HIDE DEF S
<1>3. \A n \in Nat : n \in S
  BY <1>1, <1>2, SetInduction
<1> QED BY <1>3, LenProperties DEF S

-----------------------------------------------------------------------------
(* The operations of bytes and lists *)

\* A function on 1 .. n is a sequence.
LEMMA FunctionIsSeq ==
  ASSUME NEW Y, NEW n \in Nat, NEW g \in [1 .. n -> Y]
  PROVE  g \in Seq(Y) /\ Len(g) = n
<1>1. g = [i \in 1 .. n |-> g[i]] /\ \A i \in 1 .. n : g[i] \in Y
  OBVIOUS
<1>2. [i \in 1 .. n |-> g[i]] \in Seq(Y)
  BY <1>1, IsASeq
<1>3. g \in Seq(Y)
  BY <1>1, <1>2
<1>4. Len(g) \in Nat /\ DOMAIN g = 1 .. Len(g) /\ DOMAIN g = 1 .. n
  BY <1>3, LenProperties
<1>5. Len(g) = n
  BY <1>4
<1> QED BY <1>3, <1>5

LEMMA LeftIs ==
  ASSUME NEW X, NEW groups \in Seq(Seq(X))
  PROVE  /\ Left(groups, 0) = FlattenSeq(groups)
         /\ Left(groups, Len(groups)) = <<>>
         /\ \A k \in 0 .. Len(groups) : Left(groups, k) \in Seq(X)
         /\ \A k \in 0 .. Len(groups) - 1 : Left(groups, k) = groups[k + 1] \o Left(groups, k + 1)
<1>1. Len(groups) \in Nat /\ \A i \in 1 .. Len(groups) : groups[i] \in Seq(X)
  BY LenProperties, ElementOfSeq
<1>2. Left(groups, 0) = FlattenSeq(groups)
  <2>1. 0 + 1 = 1
    OBVIOUS
  <2> QED BY <2>1, SubSeqFull DEF Left
<1>3. Left(groups, Len(groups)) = <<>>
  <2>1. SubSeq(groups, Len(groups) + 1, Len(groups)) = <<>>
    BY <1>1, SubSeqEmpty
  <2>2. FlattenSeq(<<>>) = <<>>
    <3>1. <<>> \in Seq(Seq(X))
      OBVIOUS
    <3> QED BY <3>1, FlatIs
  <2> QED BY <2>1, <2>2 DEF Left
<1>4. ASSUME NEW k \in 0 .. Len(groups)
      PROVE  SubSeq(groups, k + 1, Len(groups)) \in Seq(Seq(X))
  <2>1. k + 1 \in Int /\ Len(groups) \in Int /\ \A i \in k + 1 .. Len(groups) : groups[i] \in Seq(X)
    BY <1>1
  <2> QED BY <2>1, SubSeqProperties
<1>5. ASSUME NEW k \in 0 .. Len(groups) PROVE Left(groups, k) \in Seq(X)
  <2>1. <<>> \in Seq(X)
    OBVIOUS
  <2> QED BY <2>1, <1>4, FlatAppend DEF Left
<1>6. ASSUME NEW k \in 0 .. Len(groups) - 1 PROVE Left(groups, k) = groups[k + 1] \o Left(groups, k + 1)
  <2>1. k + 1 \in 1 .. Len(groups) /\ Len(groups) \in k + 1 .. Len(groups) /\ k + 1 \in 0 .. Len(groups)
    BY <1>1
  <2>2. SubSeq(groups, k + 1, Len(groups))
          = <<groups[k + 1]>> \o SubSeq(groups, k + 1 + 1, Len(groups))
    BY <2>1, SubSeqRecursiveFirst
  <2>3. SubSeq(groups, k + 1 + 1, Len(groups)) \in Seq(Seq(X)) /\ groups[k + 1] \in Seq(X)
    BY <2>1, <1>1, <1>4
  <2> QED BY <2>2, <2>3, FlatFirst DEF Left
<1> QED BY <1>2, <1>3, <1>5, <1>6

LEMMA I2cNumbers ==
  /\ ByteBits \in Nat /\ ByteBits >= 2 /\ Byte \subseteq Octet
  /\ \A b \in Octet : b \in Seq(Bit) /\ Len(b) = ByteBits /\ \A i \in 1 .. ByteBits : b[i] \in Bit
<1>1. ByteBits \in Nat /\ ByteBits >= 2 /\ Byte \subseteq Octet
  BY I2cAssumption DEF Octet
<1> QED BY <1>1, FunctionIsSeq DEF Octet

LEMMA OperationTypes ==
  /\ \A v \in Bit : SDA(v) \in Op /\ SCL(v) \in Op
  /\ READ_SDA \in Op /\ WAIT_SDA \in Op
  /\ \A v \in Bit : BitOps(v) \in Seq(Op)
  /\ ReadOps \in Seq(Op)
  /\ i2c_software_start \in Seq(Op) /\ i2c_software_stop \in Seq(Op)
  /\ i2c_software_wait_ack \in Seq(Op)
  /\ i2c_software_send_ack \in Seq(Op) /\ i2c_software_send_no_ack \in Seq(Op)
  /\ <<SDA(1)>> \in Seq(Op)
<1>1. /\ \A v \in Bit : SDA(v) \in Op /\ SCL(v) \in Op
      /\ READ_SDA \in Op /\ WAIT_SDA \in Op
  BY DEF Op, Bit
<1>2. 0 \in Bit /\ 1 \in Bit
  BY DEF Bit
<1>3. \A a, b, c \in Op : <<a>> \in Seq(Op) /\ <<a, b, c>> \in Seq(Op)
  OBVIOUS
<1>4. \A a, b, c, d \in Op : <<a, b, c, d>> \in Seq(Op)
  OBVIOUS
<1> QED BY <1>1, <1>2, <1>3, <1>4 DEF BitOps, ReadOps, i2c_software_start, i2c_software_stop,
          i2c_software_wait_ack, i2c_software_send_ack, i2c_software_send_no_ack

\* The groups of a sequence of which e[i] is the i-th.
LEMMA GroupsLeft ==
  ASSUME NEW n \in Nat, NEW e \in [1 .. n -> Seq(Op)]
  PROVE  /\ Left(e, 0) = FlattenSeq(e)
         /\ Left(e, n) = <<>>
         /\ \A k \in 0 .. n : Left(e, k) \in Seq(Op)
         /\ \A k \in 0 .. n - 1 : Left(e, k) = e[k + 1] \o Left(e, k + 1)
<1>1. \A Y : e \in [1 .. n -> Y] => e \in Seq(Y) /\ Len(e) = n
  BY FunctionIsSeq
<1>2. e \in Seq(Seq(Op)) /\ Len(e) = n
  BY <1>1
<1> QED BY <1>2, LeftIs

LEMMA BitsLeftIs ==
  ASSUME NEW byte \in Octet
  PROVE  /\ i2c_software_send_byte(byte) = BitsLeft(byte, 0)
         /\ BitsLeft(byte, ByteBits) = <<>>
         /\ \A k \in 0 .. ByteBits : BitsLeft(byte, k) \in Seq(Op)
         /\ \A k \in 0 .. ByteBits - 1 : BitsLeft(byte, k) = BitOps(byte[k + 1]) \o BitsLeft(byte, k + 1)
<1> DEFINE e == [i \in 1 .. ByteBits |-> BitOps(byte[i])]
<1>1. e \in [1 .. ByteBits -> Seq(Op)]
  BY I2cNumbers, OperationTypes
<1>2. \A i \in 1 .. ByteBits : e[i] = BitOps(byte[i])
  OBVIOUS
<1>3. i2c_software_send_byte(byte) = FlattenSeq(e)
  BY DEF i2c_software_send_byte, BitOps
<1>4. \A k : BitsLeft(byte, k) = Left(e, k)
  BY DEF BitsLeft
<1>5. \A k \in 0 .. ByteBits - 1 : k + 1 \in 1 .. ByteBits
  BY I2cNumbers
<1> HIDE DEF e
<1>6. /\ Left(e, 0) = FlattenSeq(e) /\ Left(e, ByteBits) = <<>>
      /\ \A k \in 0 .. ByteBits : Left(e, k) \in Seq(Op)
      /\ \A k \in 0 .. ByteBits - 1 : Left(e, k) = e[k + 1] \o Left(e, k + 1)
  BY <1>1, GroupsLeft, I2cNumbers
<1> QED BY <1>2, <1>3, <1>4, <1>5, <1>6

LEMMA ReadsLeftIs ==
  /\ i2c_software_read_byte = <<SDA(1)>> \o ReadsLeft(0)
  /\ ReadsLeft(ByteBits) = <<>>
  /\ \A k \in 0 .. ByteBits : ReadsLeft(k) \in Seq(Op)
  /\ \A k \in 0 .. ByteBits - 1 : ReadsLeft(k) = ReadOps \o ReadsLeft(k + 1)
<1> DEFINE e == [i \in 1 .. ByteBits |-> ReadOps]
<1>1. e \in [1 .. ByteBits -> Seq(Op)]
  BY OperationTypes
<1>2. \A i \in 1 .. ByteBits : e[i] = ReadOps
  OBVIOUS
<1>3. i2c_software_read_byte = <<SDA(1)>> \o FlattenSeq(e)
  BY DEF i2c_software_read_byte, ReadOps
<1>4. \A k : ReadsLeft(k) = Left(e, k)
  BY DEF ReadsLeft
<1>5. \A k \in 0 .. ByteBits - 1 : k + 1 \in 1 .. ByteBits
  BY I2cNumbers
<1> HIDE DEF e
<1>6. /\ Left(e, 0) = FlattenSeq(e) /\ Left(e, ByteBits) = <<>>
      /\ \A k \in 0 .. ByteBits : Left(e, k) \in Seq(Op)
      /\ \A k \in 0 .. ByteBits - 1 : Left(e, k) = e[k + 1] \o Left(e, k + 1)
  BY <1>1, GroupsLeft, I2cNumbers
<1> QED BY <1>2, <1>3, <1>4, <1>5, <1>6

LEMMA BytesLeftIs ==
  ASSUME NEW list \in Seq(Octet)
  PROVE  /\ Acknowledged(list) = BytesLeft(list, 0)
         /\ BytesLeft(list, Len(list)) = <<>>
         /\ \A k \in 0 .. Len(list) : BytesLeft(list, k) \in Seq(Op)
         /\ \A k \in 0 .. Len(list) - 1 : BytesLeft(list, k) = AckOps(list[k + 1]) \o BytesLeft(list, k + 1)
<1>0. Len(list) \in Nat /\ DOMAIN list = 1 .. Len(list) /\ \A i \in 1 .. Len(list) : list[i] \in Octet
  BY LenProperties, ElementOfSeq
<1> DEFINE e == [i \in DOMAIN list |-> AckOps(list[i])]
<1>1. e \in [1 .. Len(list) -> Seq(Op)]
  <2>1. ASSUME NEW byte \in Octet PROVE AckOps(byte) \in Seq(Op)
    <3>1. BitsLeft(byte, 0) \in Seq(Op) /\ i2c_software_send_byte(byte) = BitsLeft(byte, 0)
      BY BitsLeftIs, I2cNumbers
    <3> QED BY <3>1, OperationTypes, ConcatProperties DEF AckOps
  <2> QED BY <2>1, <1>0
<1>2. \A i \in 1 .. Len(list) : e[i] = AckOps(list[i])
  BY <1>0
<1>3. Acknowledged(list) = FlattenSeq(e)
  BY DEF Acknowledged, AckOps
<1>4. \A k : BytesLeft(list, k) = Left(e, k)
  BY DEF BytesLeft
<1>5. \A k \in 0 .. Len(list) - 1 : k + 1 \in 1 .. Len(list)
  BY <1>0
<1> HIDE DEF e
<1>6. /\ Left(e, 0) = FlattenSeq(e) /\ Left(e, Len(list)) = <<>>
      /\ \A k \in 0 .. Len(list) : Left(e, k) \in Seq(Op)
      /\ \A k \in 0 .. Len(list) - 1 : Left(e, k) = e[k + 1] \o Left(e, k + 1)
  BY <1>0, <1>1, GroupsLeft
<1> QED BY <1>2, <1>3, <1>4, <1>5, <1>6

LEMMA AnswersLeftIs ==
  ASSUME NEW c, c.len \in Nat
  PROVE  /\ FlattenSeq([i \in 1 .. c.len |-> i2c_software_read_byte \o answer_byte(c, i)])
              = AnswersLeft(c, 0)
         /\ AnswersLeft(c, c.len) = <<>>
         /\ \A k \in 0 .. c.len : AnswersLeft(c, k) \in Seq(Op)
         /\ \A k \in 0 .. c.len - 1 : AnswersLeft(c, k) = AnswerOps(c, k + 1) \o AnswersLeft(c, k + 1)
         /\ \A i : answer_byte(c, i) \in Seq(Op)
<1> DEFINE e == [i \in 1 .. c.len |-> AnswerOps(c, i)]
<1>0. \A i : answer_byte(c, i) \in Seq(Op)
  BY OperationTypes DEF answer_byte
<1>1. e \in [1 .. c.len -> Seq(Op)]
  <2>1. ReadsLeft(0) \in Seq(Op) /\ i2c_software_read_byte = <<SDA(1)>> \o ReadsLeft(0)
    BY ReadsLeftIs, I2cNumbers
  <2>2. i2c_software_read_byte \in Seq(Op)
    BY <2>1, OperationTypes, ConcatProperties
  <2>3. \A i : AnswerOps(c, i) \in Seq(Op)
    BY <2>2, <1>0, ConcatProperties DEF AnswerOps
  <2> QED BY <2>3
<1>2. \A i \in 1 .. c.len : e[i] = AnswerOps(c, i)
  OBVIOUS
<1>3. FlattenSeq([i \in 1 .. c.len |-> i2c_software_read_byte \o answer_byte(c, i)]) = FlattenSeq(e)
  BY DEF AnswerOps
<1>4. \A k : AnswersLeft(c, k) = Left(e, k)
  BY DEF AnswersLeft
<1>5. \A k \in 0 .. c.len - 1 : k + 1 \in 1 .. c.len
  OBVIOUS
<1> HIDE DEF e
<1>6. /\ Left(e, 0) = FlattenSeq(e) /\ Left(e, c.len) = <<>>
      /\ \A k \in 0 .. c.len : Left(e, k) \in Seq(Op)
      /\ \A k \in 0 .. c.len - 1 : Left(e, k) = e[k + 1] \o Left(e, k + 1)
  BY <1>1, GroupsLeft
<1> QED BY <1>0, <1>2, <1>3, <1>4, <1>5, <1>6

-----------------------------------------------------------------------------
(* The calls *)

LEMMA Joins ==
  ASSUME NEW X
  PROVE  \A s, a \in Seq(X) : s \o a \in Seq(X)
  BY ConcatProperties

LEMMA Regroup == \A s, a, e \in Seq(Op) : (s \o a) \o e = s \o (a \o e)
  BY ConcatAssociative

\* The address has a bit less than a byte: the last one is the direction.
LEMMA AddressBytes ==
  ASSUME NEW a \in [1 .. ByteBits - 1 -> Bit], NEW v \in Bit
  PROVE  Append(a, v) \in Octet /\ Append(a, v)[ByteBits] = v
<1>0. ByteBits - 1 \in Nat /\ ByteBits \in Nat
  BY I2cNumbers
<1>1. a \in Seq(Bit) /\ Len(a) = ByteBits - 1
  BY <1>0, FunctionIsSeq
<1>2. Append(a, v) \in Seq(Bit) /\ Len(Append(a, v)) = Len(a) + 1 /\ Append(a, v)[Len(a) + 1] = v
  BY <1>1, AppendProperties
<1>3. Len(a) + 1 = ByteBits
  BY <1>0, <1>1
<1> QED BY <1>2, <1>3, LenProperties DEF Octet

LEMMA CallFacts ==
  ASSUME NEW c \in Transfers
  PROVE  /\ c.op \in {"write", "read"} /\ c.wait_ack_us \in Nat
         /\ c.op = "read" => c.len \in Nat \ {0}
         /\ ToWrite(c) \in Octet /\ ToWrite(c)[ByteBits] = 0
         /\ ToRead(c) \in Octet /\ ToRead(c)[ByteBits] = 1
         /\ c.reg \in Seq(Octet)
         /\ c.op = "write" => c.data \in Seq(Octet)
<1>1. /\ c.op \in {"write", "read"} /\ c.wait_ack_us \in Nat
      /\ c.dev_addr \in [1 .. ByteBits - 1 -> Bit] /\ c.reg \in Seq(Byte)
      /\ IF c.op = "write" THEN c.data \in Seq(Byte) ELSE c.len \in Nat \ {0}
  BY I2cAssumption
<1>2. \A s \in Seq(Byte) : s \in Seq(Octet)
  BY I2cNumbers, SeqMonotonic
<1>3. 0 \in Bit /\ 1 \in Bit
  BY DEF Bit
<1> QED BY <1>1, <1>2, <1>3, AddressBytes DEF ToWrite, ToRead

LEMMA BytesOfFacts ==
  ASSUME NEW c \in Transfers
  PROVE  /\ \A p \in {1, 2} : /\ BytesOf(c, p) \in Seq(Octet) /\ Len(BytesOf(c, p)) \in Nat
                              /\ Len(BytesOf(c, p)) >= 1
                              /\ \A j \in 1 .. Len(BytesOf(c, p)) : BytesOf(c, p)[j] \in Octet
         /\ BytesOf(c, 1)[1] = ToWrite(c)
         /\ Len(BytesOf(c, 2)) = 1 /\ BytesOf(c, 2)[1] = ToRead(c)
         /\ BytesOf(c, 2) = <<ToRead(c)>>
<1>1. /\ c.op \in {"write", "read"} /\ ToWrite(c) \in Octet /\ ToRead(c) \in Octet /\ c.reg \in Seq(Octet)
      /\ c.op = "write" => c.data \in Seq(Octet)
  BY CallFacts
<1>2. BytesOf(c, 2) = <<ToRead(c)>>
  BY DEF BytesOf
<1>3. ASSUME NEW e \in Octet, NEW f, f = <<e>>
      PROVE  f \in Seq(Octet) /\ Len(f) = 1 /\ f[1] = e
  BY <1>3
<1>4. ASSUME NEW e \in Octet, NEW s \in Seq(Octet)
      PROVE  /\ <<e>> \o s \in Seq(Octet) /\ Len(<<e>> \o s) \in Nat
             /\ Len(<<e>> \o s) >= 1 /\ (<<e>> \o s)[1] = e
  <2>1. PICK f : f = <<e>>
    OBVIOUS
  <2>2. f \in Seq(Octet) /\ Len(f) = 1 /\ f[1] = e
    BY <1>3, <2>1
  <2>3. Len(s) \in Nat
    BY LenProperties
  <2>4. /\ f \o s \in Seq(Octet) /\ Len(f \o s) = 1 + Len(s) /\ (f \o s)[1] = f[1]
    <3>1. 1 \in 1 .. Len(f) + Len(s) /\ 1 <= Len(f)
      BY <2>2, <2>3
    <3> QED BY <3>1, <2>2, ConcatProperties
  <2> QED BY <2>1, <2>2, <2>3, <2>4
<1>5. BytesOf(c, 1) \in Seq(Octet) /\ Len(BytesOf(c, 1)) \in Nat /\ Len(BytesOf(c, 1)) >= 1
      /\ BytesOf(c, 1)[1] = ToWrite(c)
  <2>1. CASE c.op = "write"
    <3>1. BytesOf(c, 1) = <<ToWrite(c)>> \o c.reg \o c.data
      BY <2>1 DEF BytesOf
    <3>2. PICK f : f = <<ToWrite(c)>>
      OBVIOUS
    <3>3. f \in Seq(Octet)
      BY <1>1, <1>3, <3>2
    <3>6. PICK r, d : r = c.reg /\ d = c.data /\ r \in Seq(Octet) /\ d \in Seq(Octet)
      BY <1>1, <2>1
    <3>8. f \in Seq(Octet) /\ r \in Seq(Octet) /\ d \in Seq(Octet)
      BY <3>3, <3>6
    <3>7. (f \o r) \o d = f \o (r \o d) /\ r \o d \in Seq(Octet)
      BY <3>8, ConcatAssociative, Joins
    <3>4. (f \o c.reg) \o c.data = f \o (c.reg \o c.data) /\ c.reg \o c.data \in Seq(Octet)
      BY <3>6, <3>7
    <3>5. BytesOf(c, 1) = f \o (c.reg \o c.data)
      BY <3>1, <3>2, <3>4
    <3> QED BY <3>2, <3>4, <3>5, <1>1, <1>4
  <2>2. CASE c.op # "write"
    <3>1. BytesOf(c, 1) = <<ToWrite(c)>> \o c.reg
      BY <2>2 DEF BytesOf
    <3> QED BY <3>1, <1>1, <1>4
  <2> QED BY <2>1, <2>2
<1>6. BytesOf(c, 2) \in Seq(Octet) /\ Len(BytesOf(c, 2)) = 1 /\ BytesOf(c, 2)[1] = ToRead(c)
  BY <1>1, <1>2, <1>3
<1>7. ASSUME NEW p \in {1, 2} PROVE \A j \in 1 .. Len(BytesOf(c, p)) : BytesOf(c, p)[j] \in Octet
  BY <1>5, <1>6, ElementOfSeq
<1> QED BY <1>2, <1>5, <1>6, <1>7

LEMMA AfterType ==
  ASSUME NEW c \in Transfers, NEW p \in Parts(c)
  PROVE  /\ p \in {1, 2} /\ After(c, p) \in Seq(Op)
         /\ p = 2 => c.op = "read"
         /\ c.op = "read" => AnswersLeft(c, 0) \o i2c_software_stop \in Seq(Op)
         /\ \A q \in {1, 2} : BytesLeft(BytesOf(c, q), 0) \in Seq(Op)
<1>1. p \in {1, 2} /\ (p = 2 => c.op = "read") /\ c.op \in {"write", "read"}
  BY CallFacts DEF Parts
<1>2. ASSUME c.op = "read" PROVE AnswersLeft(c, 0) \o i2c_software_stop \in Seq(Op)
  <2>1. c.len \in Nat /\ 0 \in 0 .. c.len
    BY <1>2, CallFacts
  <2>2. AnswersLeft(c, 0) \in Seq(Op)
    BY <2>1, AnswersLeftIs
  <2> QED BY <2>2, OperationTypes, ConcatProperties
<1>3. ASSUME NEW q \in {1, 2} PROVE BytesLeft(BytesOf(c, q), 0) \in Seq(Op)
  <2>1. BytesOf(c, q) \in Seq(Octet) /\ 0 \in 0 .. Len(BytesOf(c, q))
    BY BytesOfFacts
  <2> QED BY <2>1, BytesLeftIs
<1>4. After(c, p) \in Seq(Op)
  <2>1. CASE p = 2
    BY <2>1, <1>1, <1>2 DEF After
  <2>2. CASE p = 1 /\ c.op = "write"
    BY <2>2, OperationTypes DEF After
  <2>3. CASE p = 1 /\ c.op = "read"
    <3>1. BytesLeft(BytesOf(c, 2), 0) \o (AnswersLeft(c, 0) \o i2c_software_stop) \in Seq(Op)
      BY <2>3, <1>2, <1>3, ConcatProperties
    <3>2. i2c_software_start \o (BytesLeft(BytesOf(c, 2), 0) \o (AnswersLeft(c, 0) \o i2c_software_stop)) \in Seq(Op)
      BY <3>1, OperationTypes, ConcatProperties
    <3> QED BY <3>2, <2>3 DEF After
  <2> QED BY <1>1, <2>1, <2>2, <2>3
<1> QED BY <1>1, <1>2, <1>3, <1>4

\* What a call has to do when it begins.
LEMMA ProgramIs ==
  ASSUME NEW c \in Transfers
  PROVE  (IF c.op = "write" THEN i2c_software_write(c) ELSE i2c_software_read(c))
           = i2c_software_start \o (BytesLeft(BytesOf(c, 1), 0) \o After(c, 1))
<1>1. 1 \in Parts(c) /\ c.op \in {"write", "read"}
  BY CallFacts DEF Parts
<1>2. /\ \A q \in {1, 2} : BytesLeft(BytesOf(c, q), 0) \in Seq(Op)
      /\ i2c_software_start \in Seq(Op) /\ i2c_software_stop \in Seq(Op)
  BY <1>1, AfterType, OperationTypes
<1>3. \A q \in {1, 2} : Acknowledged(BytesOf(c, q)) = BytesLeft(BytesOf(c, q), 0)
  BY BytesOfFacts, BytesLeftIs
<1>5. CASE c.op = "write"
  <2>1. i2c_software_write(c) = (i2c_software_start \o Acknowledged(BytesOf(c, 1))) \o i2c_software_stop
    <3>1. BytesOf(c, 1) = <<ToWrite(c)>> \o c.reg \o c.data
      BY <1>5 DEF BytesOf
    <3> QED BY <3>1 DEF i2c_software_write
  <2>2. After(c, 1) = i2c_software_stop
    BY <1>5 DEF After
  <2>3. PICK s, a, e \in Seq(Op) : /\ s = i2c_software_start /\ e = i2c_software_stop
                                   /\ a = BytesLeft(BytesOf(c, 1), 0)
    BY <1>2
  <2>4. (s \o a) \o e = s \o (a \o e)
    BY <2>3, Regroup
  <2>5. i2c_software_write(c) = (s \o a) \o e
    BY <2>1, <2>3, <1>3
  <2>6. i2c_software_start \o (BytesLeft(BytesOf(c, 1), 0) \o After(c, 1)) = s \o (a \o e)
    BY <2>2, <2>3
  <2> QED BY <1>5, <2>4, <2>5, <2>6
<1>6. CASE c.op = "read"
  <2>1. PICK s, a1, a2, r, e : /\ s = i2c_software_start /\ e = i2c_software_stop
                               /\ a1 = BytesLeft(BytesOf(c, 1), 0) /\ a2 = BytesLeft(BytesOf(c, 2), 0)
                               /\ r = AnswersLeft(c, 0)
    OBVIOUS
  <2>2. c.len \in Nat /\ 0 \in 0 .. c.len
    BY <1>6, CallFacts
  <2>3. r \in Seq(Op) /\ s \in Seq(Op) /\ e \in Seq(Op) /\ a1 \in Seq(Op) /\ a2 \in Seq(Op)
    BY <2>1, <2>2, <1>2, AnswersLeftIs
  <2>4. i2c_software_read(c) = ((((s \o a1) \o s) \o a2) \o r) \o e
    <3>1. BytesOf(c, 1) = <<ToWrite(c)>> \o c.reg /\ BytesOf(c, 2) = <<ToRead(c)>>
      BY <1>6 DEF BytesOf
    <3>2. Acknowledged(<<ToWrite(c)>> \o c.reg) = a1 /\ Acknowledged(<<ToRead(c)>>) = a2
      BY <3>1, <2>1, <1>3
    <3>3. FlattenSeq([i \in 1 .. c.len |-> i2c_software_read_byte \o answer_byte(c, i)]) = r
      BY <2>1, <2>2, AnswersLeftIs
    <3> QED BY <3>2, <3>3, <2>1 DEF i2c_software_read
  <2>5. After(c, 1) = s \o (a2 \o (r \o e))
    BY <1>6, <2>1 DEF After
  <2>6. ((((s \o a1) \o s) \o a2) \o r) \o e = s \o (a1 \o (s \o (a2 \o (r \o e))))
    <3>1. PICK x1 : x1 = s \o a1
      OBVIOUS
    <3>2. PICK x2 : x2 = x1 \o s
      OBVIOUS
    <3>3. PICK x3 : x3 = x2 \o a2
      OBVIOUS
    <3>4. PICK y1 : y1 = r \o e
      OBVIOUS
    <3>5. PICK y2 : y2 = a2 \o y1
      OBVIOUS
    <3>6. PICK y3 : y3 = s \o y2
      OBVIOUS
    <3>7. x1 \in Seq(Op) /\ y1 \in Seq(Op)
      BY <2>3, <3>1, <3>4, Joins
    <3>8. x2 \in Seq(Op) /\ y2 \in Seq(Op)
      BY <2>3, <3>7, <3>2, <3>5, Joins
    <3>9. x3 \in Seq(Op) /\ y3 \in Seq(Op)
      BY <2>3, <3>8, <3>3, <3>6, Joins
    <3>10. r \in Seq(Op) /\ e \in Seq(Op) /\ x3 \in Seq(Op)
      BY <2>3, <3>9
    <3>11. (x3 \o r) \o e = x3 \o (r \o e)
      BY <3>10, Regroup
    <3>12. x2 \in Seq(Op) /\ a2 \in Seq(Op) /\ y1 \in Seq(Op)
      BY <2>3, <3>7, <3>8
    <3>13. (x2 \o a2) \o y1 = x2 \o (a2 \o y1)
      BY <3>12, Regroup
    <3>14. x1 \in Seq(Op) /\ s \in Seq(Op) /\ y2 \in Seq(Op)
      BY <2>3, <3>7, <3>8
    <3>15. (x1 \o s) \o y2 = x1 \o (s \o y2)
      BY <3>14, Regroup
    <3>16. s \in Seq(Op) /\ a1 \in Seq(Op) /\ y3 \in Seq(Op)
      BY <2>3, <3>9
    <3>17. (s \o a1) \o y3 = s \o (a1 \o y3)
      BY <3>16, Regroup
    <3> QED BY <3>1, <3>2, <3>3, <3>4, <3>5, <3>6, <3>11, <3>13, <3>15, <3>17
  <2> QED BY <1>6, <2>1, <2>4, <2>5, <2>6
<1> QED BY <1>1, <1>5, <1>6

-----------------------------------------------------------------------------
(* One operation *)

LEMMA FirstOfRest ==
  ASSUME NEW X, NEW e \in X, NEW t \in Seq(X)
  PROVE  <<e>> \o t # <<>> /\ Head(<<e>> \o t) = e /\ Tail(<<e>> \o t) = t
<1>1. PICK f : f = <<e>>
  OBVIOUS
<1>2. f \in Seq(X) /\ Len(f) = 1 /\ f[1] = e /\ Len(t) \in Nat
  BY <1>1, LenProperties
<1>3. /\ f \o t \in Seq(X) /\ Len(f \o t) = Len(f) + Len(t)
      /\ \A i \in 1 .. Len(f) + Len(t) : (f \o t)[i] = IF i <= Len(f) THEN f[i] ELSE t[i - Len(f)]
  BY <1>2, ConcatProperties
<1>4. Len(f \o t) = 1 + Len(t) /\ \A i \in 1 .. 1 + Len(t) : (f \o t)[i] = IF i <= 1 THEN f[i] ELSE t[i - 1]
  BY <1>2, <1>3
<1>5. PICK s \in Seq(X) : s = f \o t
  BY <1>3
<1>6. Len(s) = 1 + Len(t) /\ s[1] = e /\ \A i \in 1 .. Len(t) : s[i + 1] = t[i]
  <2>1. \A i \in 1 .. Len(t) : i + 1 \in 1 .. 1 + Len(t) /\ ~(i + 1 <= 1) /\ i + 1 - 1 = i
    BY <1>2
  <2> QED BY <2>1, <1>2, <1>4, <1>5
<1>7. s # <<>>
  BY <1>2, <1>5, <1>6, EmptySeq
<1>8. Head(s) = s[1]
  BY <1>5, <1>7
<1>9. Tail(s) = t
  <2>1. Tail(s) \in Seq(X) /\ Len(Tail(s)) = Len(s) - 1 /\ \A i \in 1 .. Len(Tail(s)) : Tail(s)[i] = s[i + 1]
    BY <1>5, <1>7, HeadTailProperties
  <2>2. Len(Tail(s)) = Len(t)
    BY <2>1, <1>2, <1>6
  <2>3. \A i \in 1 .. Len(t) : Tail(s)[i] = t[i]
    BY <2>1, <2>2, <1>6
  <2> QED BY <2>1, <2>2, <2>3, SeqEqual
<1> QED BY <1>1, <1>5, <1>6, <1>7, <1>8, <1>9

\* The next operation of a group, and what is left then.
LEMMA Doing ==
  ASSUME NEW ops \in Seq(Op), NEW rest \in Seq(Op), NEW n \in Nat, n = Len(ops), NEW i \in 0 .. n - 1
  PROVE  /\ SubSeq(ops, i + 1, n) \o rest # <<>>
         /\ Head(SubSeq(ops, i + 1, n) \o rest) = ops[i + 1]
         /\ Tail(SubSeq(ops, i + 1, n) \o rest) = SubSeq(ops, i + 2, n) \o rest
<1>1. i + 1 \in 1 .. n /\ n \in i + 1 .. n /\ i + 1 + 1 = i + 2 /\ i + 2 \in Int /\ n \in Int
  OBVIOUS
<1>2. PICK e \in Op : e = ops[i + 1]
  BY <1>1, ElementOfSeq
<1>3. PICK r \in Seq(Op) : r = SubSeq(ops, i + 2, n)
  <2>1. \A k \in i + 2 .. n : ops[k] \in Op
    BY ElementOfSeq
  <2> QED BY <2>1, <1>1, SubSeqProperties
<1>4. SubSeq(ops, i + 1, n) = <<e>> \o r
  BY <1>1, <1>2, <1>3, SubSeqRecursiveFirst
<1>5. PICK t \in Seq(Op) : t = r \o rest
  BY <1>3, Joins
<1>6. (<<e>> \o r) \o rest = <<e>> \o t
  <2>1. PICK f : f = <<e>>
    OBVIOUS
  <2>2. f \in Seq(Op) /\ r \in Seq(Op)
    BY <2>1, <1>2, <1>3
  <2>3. (f \o r) \o rest = f \o (r \o rest)
    BY <2>2, Regroup
  <2> QED BY <2>1, <2>3, <1>5
<1>7. <<e>> \o t # <<>> /\ Head(<<e>> \o t) = e /\ Tail(<<e>> \o t) = t
  BY <1>2, <1>5, FirstOfRest
<1> QED BY <1>2, <1>3, <1>4, <1>5, <1>6, <1>7

LEMMA Done ==
  ASSUME NEW ops \in Seq(Op), NEW rest \in Seq(Op), NEW n \in Nat, n = Len(ops)
  PROVE  /\ SubSeq(ops, n + 1, n) \o rest = rest
         /\ SubSeq(ops, 1, n) \o rest = ops \o rest
         /\ SubSeq(ops, n + 1, n) = <<>>
         /\ SubSeq(ops, 1, n) = ops
<1>1. SubSeq(ops, n + 1, n) = <<>>
  BY SubSeqEmpty
<1>2. SubSeq(ops, 1, n) = ops
  BY SubSeqFull
<1>3. <<>> \o rest = rest
  BY ConcatEmptySeq
<1> QED BY <1>1, <1>2, <1>3

LEMMA GroupElements ==
  /\ \A v : /\ Len(BitOps(v)) = 3 /\ BitOps(v)[1] = SDA(v)
            /\ BitOps(v)[2] = SCL(1) /\ BitOps(v)[3] = SCL(0)
  /\ Len(ReadOps) = 3 /\ ReadOps[1] = SCL(1) /\ ReadOps[2] = READ_SDA /\ ReadOps[3] = SCL(0)
  /\ Len(i2c_software_start) = 4
  /\ i2c_software_start[1] = SDA(1) /\ i2c_software_start[2] = SCL(1)
  /\ i2c_software_start[3] = SDA(0) /\ i2c_software_start[4] = SCL(0)
  /\ Len(i2c_software_stop) = 3 /\ i2c_software_stop[1] = SDA(0)
  /\ i2c_software_stop[2] = SCL(1) /\ i2c_software_stop[3] = SDA(1)
  /\ Len(i2c_software_wait_ack) = 4
  /\ i2c_software_wait_ack[1] = SDA(1) /\ i2c_software_wait_ack[2] = SCL(1)
  /\ i2c_software_wait_ack[3] = WAIT_SDA /\ i2c_software_wait_ack[4] = SCL(0)
  BY DEF BitOps, ReadOps, i2c_software_start, i2c_software_stop, i2c_software_wait_ack

LEMMA AnswerElements ==
  ASSUME NEW c, NEW j, NEW v, v = (IF j = c.len THEN 1 ELSE 0)
  PROVE  /\ answer_byte(c, j) \in Seq(Op) /\ Len(answer_byte(c, j)) = 3
         /\ answer_byte(c, j)[1] = SDA(v)
         /\ answer_byte(c, j)[2] = SCL(1) /\ answer_byte(c, j)[3] = SCL(0)
  BY OperationTypes DEF answer_byte, i2c_software_send_ack, i2c_software_send_no_ack

\* The two stops after a missing answer.
TwoStops == i2c_software_stop \o i2c_software_stop

LEMMA TwoStopsElements ==
  /\ TwoStops \in Seq(Op) /\ Len(TwoStops) = 6
  /\ TwoStops[1] = SDA(0) /\ TwoStops[2] = SCL(1) /\ TwoStops[3] = SDA(1)
  /\ TwoStops[4] = SDA(0) /\ TwoStops[5] = SCL(1) /\ TwoStops[6] = SDA(1)
<1>1. PICK s \in Seq(Op) : s = i2c_software_stop
  BY OperationTypes
<1>2. Len(s) = 3 /\ s[1] = SDA(0) /\ s[2] = SCL(1) /\ s[3] = SDA(1)
  BY <1>1, GroupElements
<1>3. /\ s \o s \in Seq(Op) /\ Len(s \o s) = Len(s) + Len(s)
      /\ \A i \in 1 .. Len(s) + Len(s) : (s \o s)[i] = IF i <= Len(s) THEN s[i] ELSE s[i - Len(s)]
  BY <1>1, ConcatProperties
<1>4. Len(s \o s) = 6 /\ \A i \in 1 .. 6 : (s \o s)[i] = IF i <= 3 THEN s[i] ELSE s[i - 3]
  BY <1>2, <1>3
<1>5. /\ (s \o s)[1] = s[1] /\ (s \o s)[2] = s[2] /\ (s \o s)[3] = s[3]
      /\ (s \o s)[4] = s[1] /\ (s \o s)[5] = s[2] /\ (s \o s)[6] = s[3]
  BY <1>4
<1> QED BY <1>1, <1>2, <1>3, <1>4, <1>5 DEF TwoStops

-----------------------------------------------------------------------------

LEMMA DoSda ==
  ASSUME NEW v, todo # <<>>, Head(todo) = SDA(v), Operation
  PROVE  sda' = v /\ todo' = Tail(todo) /\ UNCHANGED <<call, acked, bits, scl>> /\ DeviceReacts
  BY DEF Operation, write_sda, write_scl, ReadBit, WaitAck, AtOperation, SDA

LEMMA DoScl ==
  ASSUME NEW v, todo # <<>>, Head(todo) = SCL(v), Operation
  PROVE  scl' = v /\ todo' = Tail(todo) /\ UNCHANGED <<call, acked, bits, sda>> /\ DeviceReacts
  BY DEF Operation, write_sda, write_scl, ReadBit, WaitAck, AtOperation, SCL

LEMMA DoRead ==
  ASSUME todo # <<>>, Head(todo) = READ_SDA, Operation
  PROVE  /\ bits' = Append(bits, read_sda) /\ todo' = Tail(todo)
         /\ UNCHANGED <<call, acked, sda, scl, device, got, sent>>
  BY DEF Operation, write_sda, write_scl, ReadBit, WaitAck, AtOperation, READ_SDA, busVars

LEMMA DoWait ==
  ASSUME todo # <<>>, Head(todo) = WAIT_SDA, Operation
  PROVE  /\ UNCHANGED <<call, bits, sda, scl, device, got, sent>>
         /\ \/ read_sda = 0 /\ todo' = Tail(todo) /\ UNCHANGED acked
            \/ read_sda # 0 /\ gives_up /\ todo' = TwoStops /\ acked' = FALSE
            \/ read_sda # 0 /\ UNCHANGED <<todo, acked>>
<1>1. WaitAck
  BY DEF Operation, write_sda, write_scl, ReadBit, AtOperation, WAIT_SDA
<1> QED BY <1>1 DEF WaitAck, busVars, TwoStops

LEMMA Quiet ==
  ASSUME DeviceReacts, scl' = scl, scl = 0 \/ Line(sda', device.sda) = read_sda
  PROVE  UNCHANGED <<device, got, sent>>
  BY DEF DeviceReacts, StartCondition, StopCondition, Rising, Falling

LEMMA StartSeen ==
  ASSUME DeviceReacts, scl' = scl, scl = 1, sda = 1, sda' = 0, device.sda = 1
  PROVE  /\ device' = [mode |-> "listen", first |-> TRUE, bits |-> <<>>, sda |-> 1]
         /\ UNCHANGED <<got, sent>>
<1>1. StartCondition /\ ~StopCondition /\ ~Rising /\ ~Falling
  BY DEF StartCondition, StopCondition, Rising, Falling, read_sda, Line
<1> QED BY <1>1 DEF DeviceReacts

LEMMA StopSeen ==
  ASSUME DeviceReacts, scl' = scl, scl = 1, sda = 0, sda' = 1, device.sda = 1
  PROVE  Becomes("idle", <<>>, 1) /\ UNCHANGED <<got, sent>>
<1>1. ~StartCondition /\ StopCondition /\ ~Rising /\ ~Falling
  BY DEF StartCondition, StopCondition, Rising, Falling, read_sda, Line
<1> QED BY <1>1 DEF DeviceReacts

LEMMA RiseSeen ==
  ASSUME DeviceReacts, scl = 0, scl' = 1
  PROVE  OnRising /\ UNCHANGED <<got, sent>>
<1>1. ~StartCondition /\ ~StopCondition /\ Rising /\ ~Falling
  BY DEF StartCondition, StopCondition, Rising, Falling
<1> QED BY <1>1 DEF DeviceReacts

LEMMA FallSeen ==
  ASSUME DeviceReacts, scl = 1, scl' = 0
  PROVE  OnFalling
<1>1. ~StartCondition /\ ~StopCondition /\ ~Rising /\ Falling
  BY DEF StartCondition, StopCondition, Rising, Falling
<1> QED BY <1>1 DEF DeviceReacts

-----------------------------------------------------------------------------
(* What is left, and its first operations *)

LEMMA UnfoldBits ==
  ASSUME NEW byte \in Octet, NEW rest \in Seq(Op)
  PROVE  /\ BitsLeft(byte, ByteBits) \o rest = rest
         /\ \A k \in 0 .. ByteBits : BitsLeft(byte, k) \o rest \in Seq(Op)
         /\ \A k \in 0 .. ByteBits - 1 :
              BitsLeft(byte, k) \o rest
                = SubSeq(BitOps(byte[k + 1]), 1, 3) \o (BitsLeft(byte, k + 1) \o rest)
<1>1. BitsLeft(byte, ByteBits) \o rest = rest
  <2>1. BitsLeft(byte, ByteBits) = <<>>
    BY BitsLeftIs
  <2> QED BY <2>1, ConcatEmptySeq
<1>2. \A k \in 0 .. ByteBits : BitsLeft(byte, k) \o rest \in Seq(Op)
  BY BitsLeftIs, Joins
<1>3. ASSUME NEW k \in 0 .. ByteBits - 1
      PROVE  BitsLeft(byte, k) \o rest
               = SubSeq(BitOps(byte[k + 1]), 1, 3) \o (BitsLeft(byte, k + 1) \o rest)
  <2>0. k + 1 \in 0 .. ByteBits /\ k + 1 \in 1 .. ByteBits
    BY I2cNumbers
  <2>1. PICK a, b : a = BitOps(byte[k + 1]) /\ b = BitsLeft(byte, k + 1)
    OBVIOUS
  <2>2. a \in Seq(Op) /\ b \in Seq(Op)
    BY <2>0, <2>1, I2cNumbers, OperationTypes, BitsLeftIs
  <2>3. BitsLeft(byte, k) = a \o b
    BY <2>1, BitsLeftIs
  <2>4. (a \o b) \o rest = a \o (b \o rest)
    BY <2>2, Regroup
  <2>5. SubSeq(a, 1, 3) = a
    <3>1. Len(a) = 3
      BY <2>1, GroupElements
    <3> QED BY <2>2, <3>1, SubSeqFull
  <2> QED BY <2>1, <2>3, <2>4, <2>5
<1> QED BY <1>1, <1>2, <1>3

LEMMA UnfoldReads ==
  ASSUME NEW rest \in Seq(Op)
  PROVE  /\ ReadsLeft(ByteBits) \o rest = rest
         /\ \A k \in 0 .. ByteBits : ReadsLeft(k) \o rest \in Seq(Op)
         /\ \A k \in 0 .. ByteBits - 1 :
              ReadsLeft(k) \o rest = SubSeq(ReadOps, 1, 3) \o (ReadsLeft(k + 1) \o rest)
<1>1. ReadsLeft(ByteBits) \o rest = rest
  <2>1. ReadsLeft(ByteBits) = <<>>
    BY ReadsLeftIs
  <2> QED BY <2>1, ConcatEmptySeq
<1>2. \A k \in 0 .. ByteBits : ReadsLeft(k) \o rest \in Seq(Op)
  BY ReadsLeftIs, Joins
<1>3. ASSUME NEW k \in 0 .. ByteBits - 1
      PROVE  ReadsLeft(k) \o rest = SubSeq(ReadOps, 1, 3) \o (ReadsLeft(k + 1) \o rest)
  <2>0. k + 1 \in 0 .. ByteBits
    BY I2cNumbers
  <2>1. PICK a, b : a = ReadOps /\ b = ReadsLeft(k + 1)
    OBVIOUS
  <2>2. a \in Seq(Op) /\ b \in Seq(Op)
    BY <2>0, <2>1, OperationTypes, ReadsLeftIs
  <2>3. ReadsLeft(k) = a \o b
    BY <2>1, ReadsLeftIs
  <2>4. (a \o b) \o rest = a \o (b \o rest)
    BY <2>2, Regroup
  <2>5. SubSeq(a, 1, 3) = a
    <3>1. Len(a) = 3
      BY <2>1, GroupElements
    <3> QED BY <2>2, <3>1, SubSeqFull
  <2> QED BY <2>1, <2>3, <2>4, <2>5
<1> QED BY <1>1, <1>2, <1>3

LEMMA UnfoldBytes ==
  ASSUME NEW list \in Seq(Octet), NEW rest \in Seq(Op)
  PROVE  /\ BytesLeft(list, Len(list)) \o rest = rest
         /\ \A k \in 0 .. Len(list) : BytesLeft(list, k) \o rest \in Seq(Op)
         /\ \A k \in 0 .. Len(list) - 1 :
              BytesLeft(list, k) \o rest
                = BitsLeft(list[k + 1], 0) \o (i2c_software_wait_ack \o (BytesLeft(list, k + 1) \o rest))
<1>0. Len(list) \in Nat /\ \A i \in 1 .. Len(list) : list[i] \in Octet
  BY LenProperties, ElementOfSeq
<1>1. BytesLeft(list, Len(list)) \o rest = rest
  <2>1. BytesLeft(list, Len(list)) = <<>>
    BY BytesLeftIs
  <2> QED BY <2>1, ConcatEmptySeq
<1>2. \A k \in 0 .. Len(list) : BytesLeft(list, k) \o rest \in Seq(Op)
  BY BytesLeftIs, Joins
<1>3. ASSUME NEW k \in 0 .. Len(list) - 1
      PROVE  BytesLeft(list, k) \o rest
                = BitsLeft(list[k + 1], 0) \o (i2c_software_wait_ack \o (BytesLeft(list, k + 1) \o rest))
  <2>0. k + 1 \in 0 .. Len(list) /\ list[k + 1] \in Octet /\ 0 \in 0 .. ByteBits
    <3>1. k + 1 \in 0 .. Len(list) /\ k + 1 \in 1 .. Len(list)
      BY <1>0
    <3> QED BY <3>1, <1>0, I2cNumbers
  <2>1. PICK a, b, e : /\ a = BitsLeft(list[k + 1], 0) /\ b = i2c_software_wait_ack
                       /\ e = BytesLeft(list, k + 1)
    OBVIOUS
  <2>2. a \in Seq(Op) /\ b \in Seq(Op) /\ e \in Seq(Op)
    BY <2>0, <2>1, BitsLeftIs, OperationTypes, BytesLeftIs
  <2>3. BytesLeft(list, k) = (a \o b) \o e
    <3>1. i2c_software_send_byte(list[k + 1]) = a
      BY <2>0, <2>1, BitsLeftIs
    <3> QED BY <3>1, <2>1, BytesLeftIs DEF AckOps
  <2>4. PICK ab, er : ab = a \o b /\ er = e \o rest
    OBVIOUS
  <2>5. ab \in Seq(Op) /\ er \in Seq(Op)
    BY <2>2, <2>4, Joins
  <2>6. ab \in Seq(Op) /\ e \in Seq(Op)
    BY <2>2, <2>5
  <2>7. (ab \o e) \o rest = ab \o (e \o rest)
    BY <2>6, Regroup
  <2>8. a \in Seq(Op) /\ b \in Seq(Op) /\ er \in Seq(Op)
    BY <2>2, <2>5
  <2>9. (a \o b) \o er = a \o (b \o er)
    BY <2>8, Regroup
  <2> QED BY <2>1, <2>3, <2>4, <2>7, <2>9
<1> QED BY <1>1, <1>2, <1>3

LEMMA UnfoldAnswers ==
  ASSUME NEW c, c.len \in Nat, NEW rest \in Seq(Op)
  PROVE  /\ AnswersLeft(c, c.len) \o rest = rest
         /\ \A k \in 0 .. c.len : AnswersLeft(c, k) \o rest \in Seq(Op)
         /\ \A k \in 0 .. c.len - 1 :
              AnswersLeft(c, k) \o rest
                = <<SDA(1)>> \o (ReadsLeft(0) \o (answer_byte(c, k + 1) \o (AnswersLeft(c, k + 1) \o rest)))
<1>1. AnswersLeft(c, c.len) \o rest = rest
  <2>1. AnswersLeft(c, c.len) = <<>>
    BY AnswersLeftIs
  <2> QED BY <2>1, ConcatEmptySeq
<1>2. \A k \in 0 .. c.len : AnswersLeft(c, k) \o rest \in Seq(Op)
  BY AnswersLeftIs, Joins
<1>3. ASSUME NEW k \in 0 .. c.len - 1
      PROVE  AnswersLeft(c, k) \o rest
               = <<SDA(1)>> \o (ReadsLeft(0) \o (answer_byte(c, k + 1) \o (AnswersLeft(c, k + 1) \o rest)))
  <2>0. k + 1 \in 0 .. c.len /\ 0 \in 0 .. ByteBits
    BY I2cNumbers
  <2>1. PICK f, a, b, e : /\ f = <<SDA(1)>> /\ a = ReadsLeft(0) /\ b = answer_byte(c, k + 1)
                          /\ e = AnswersLeft(c, k + 1)
    OBVIOUS
  <2>2. f \in Seq(Op) /\ a \in Seq(Op) /\ b \in Seq(Op) /\ e \in Seq(Op)
    BY <2>0, <2>1, ReadsLeftIs, OperationTypes, AnswersLeftIs
  <2>3. AnswersLeft(c, k) = ((f \o a) \o b) \o e
    <3>1. i2c_software_read_byte = f \o a
      BY <2>1, ReadsLeftIs
    <3> QED BY <3>1, <2>1, AnswersLeftIs DEF AnswerOps
  <2>4. PICK fa, er : fa = f \o a /\ er = e \o rest
    OBVIOUS
  <2>5. fa \in Seq(Op) /\ er \in Seq(Op)
    BY <2>2, <2>4, Joins
  <2>6. PICK fab, ber : fab = fa \o b /\ ber = b \o er
    OBVIOUS
  <2>7. fab \in Seq(Op) /\ ber \in Seq(Op)
    BY <2>2, <2>5, <2>6, Joins
  <2>8. fab \in Seq(Op) /\ e \in Seq(Op)
    BY <2>2, <2>7
  <2>9. (fab \o e) \o rest = fab \o (e \o rest)
    BY <2>8, Regroup
  <2>10. fa \in Seq(Op) /\ b \in Seq(Op) /\ er \in Seq(Op)
    BY <2>2, <2>5
  <2>11. (fa \o b) \o er = fa \o (b \o er)
    BY <2>10, Regroup
  <2>12. f \in Seq(Op) /\ a \in Seq(Op) /\ ber \in Seq(Op)
    BY <2>2, <2>7
  <2>13. (f \o a) \o ber = f \o (a \o ber)
    BY <2>12, Regroup
  <2> QED BY <2>1, <2>3, <2>4, <2>6, <2>9, <2>11, <2>13
<1> QED BY <1>1, <1>2, <1>3

\* What comes after byte j of part p.
LEMMA AfterByteType ==
  ASSUME NEW c \in Transfers, NEW p \in Parts(c), NEW j \in 0 .. Len(BytesOf(c, p))
  PROVE  /\ BytesLeft(BytesOf(c, p), j) \o After(c, p) \in Seq(Op)
         /\ i2c_software_wait_ack \o (BytesLeft(BytesOf(c, p), j) \o After(c, p)) \in Seq(Op)
<1>1. After(c, p) \in Seq(Op) /\ p \in {1, 2}
  BY AfterType
<1>2. BytesOf(c, p) \in Seq(Octet)
  BY <1>1, BytesOfFacts
<1>3. BytesLeft(BytesOf(c, p), j) \o After(c, p) \in Seq(Op)
  BY <1>1, <1>2, UnfoldBytes
<1> QED BY <1>3, OperationTypes, Joins

\* The first operations of byte j.
LEMMA ByteBegins ==
  ASSUME NEW c \in Transfers, NEW p \in Parts(c), NEW j \in 0 .. Len(BytesOf(c, p)) - 1,
         NEW byte, byte = BytesOf(c, p)[j + 1]
  PROVE  /\ byte \in Octet
         /\ BytesLeft(BytesOf(c, p), j) \o After(c, p)
              = SubSeq(BitOps(byte[1]), 1, 3)
                  \o (BitsLeft(byte, 1)
                        \o (i2c_software_wait_ack \o (BytesLeft(BytesOf(c, p), j + 1) \o After(c, p))))
<1>1. /\ After(c, p) \in Seq(Op) /\ p \in {1, 2}
      /\ BytesOf(c, p) \in Seq(Octet) /\ Len(BytesOf(c, p)) \in Nat
      /\ j + 1 \in 0 .. Len(BytesOf(c, p)) /\ j + 1 \in 1 .. Len(BytesOf(c, p))
  <2>1. After(c, p) \in Seq(Op) /\ p \in {1, 2}
    BY AfterType
  <2>2. BytesOf(c, p) \in Seq(Octet) /\ Len(BytesOf(c, p)) \in Nat
    BY <2>1, BytesOfFacts
  <2> QED BY <2>1, <2>2
<1>2. byte \in Octet
  BY <1>1, ElementOfSeq
<1>3. PICK rest \in Seq(Op) : rest = i2c_software_wait_ack \o (BytesLeft(BytesOf(c, p), j + 1) \o After(c, p))
  BY <1>1, AfterByteType
<1>4. BytesLeft(BytesOf(c, p), j) \o After(c, p) = BitsLeft(byte, 0) \o rest
  BY <1>1, <1>3, UnfoldBytes
<1>5. BitsLeft(byte, 0) \o rest = SubSeq(BitOps(byte[1]), 1, 3) \o (BitsLeft(byte, 1) \o rest)
  <2>1. PICK z, o : z = 0 /\ o = 1 /\ z \in 0 .. ByteBits - 1 /\ z + 1 = o
    BY I2cNumbers
  <2>2. BitsLeft(byte, z) \o rest = SubSeq(BitOps(byte[z + 1]), 1, 3) \o (BitsLeft(byte, z + 1) \o rest)
    BY <2>1, <1>2, <1>3, UnfoldBits
  <2> QED BY <2>1, <2>2
<1> QED BY <1>2, <1>3, <1>4, <1>5

-----------------------------------------------------------------------------
(* The steps *)

\* Types are kept wherever the transfer is.
LEMMA DeviceTypes ==
  ASSUME I2cTypes, sda' \in Bit, DeviceReacts
  PROVE  device' \in Device
<1>1. device \in Device /\ read_sda \in Bit
  BY DEF I2cTypes, read_sda, Line, Bit
<1>2. ASSUME NEW m \in {"idle", "listen", "answer", "late", "deaf", "send", "answered"},
             NEW b \in Seq(Bit), NEW v \in Bit, Becomes(m, b, v)
      PROVE  device' \in Device
  BY <1>1, <1>2 DEF Becomes, Device
<1>3. ASSUME NEW f \in BOOLEAN, NEW m \in {"listen", "send"}, NEW b \in Seq(Bit), NEW v \in Bit,
             device' = [mode |-> m, first |-> f, bits |-> b, sda |-> v]
      PROVE  device' \in Device
  BY <1>3 DEF Device
<1>4. /\ 0 \in Bit /\ 1 \in Bit /\ <<>> \in Seq(Bit) /\ device.bits \in Seq(Bit) /\ device.sda \in Bit
  BY <1>1 DEF Bit, Device
<1>5. ASSUME Answers PROVE device' \in Device
  BY <1>2, <1>4, <1>5 DEF Answers
<1>6. ASSUME Sends PROVE device' \in Device
  <2>1. PICK b \in Byte : device' = [mode |-> "send", first |-> FALSE, bits |-> b, sda |-> Head(b)]
    BY <1>6 DEF Sends
  <2>2. b \in Seq(Bit) /\ Head(b) \in Bit
    <3>1. b \in Seq(Bit) /\ Len(b) = ByteBits /\ ByteBits >= 2
      BY I2cNumbers
    <3>2. b # <<>>
      BY <3>1
    <3> QED BY <3>1, <3>2, HeadTailProperties
  <2> QED BY <2>1, <2>2, <1>3
<1>7. ASSUME Listens PROVE device' \in Device
  BY <1>3, <1>4, <1>7 DEF Listens
<1>8. ASSUME OnRising PROVE device' \in Device
  <2>1. Append(device.bits, read_sda) \in Seq(Bit)
    BY <1>1, <1>4, AppendProperties
  <2> QED BY <2>1, <1>1, <1>8 DEF OnRising, Device
<1>9. ASSUME OnFalling PROVE device' \in Device
  <2>1. ASSUME Len(device.bits) > 1 PROVE Tail(device.bits) \in Seq(Bit) /\ device.bits[2] \in Bit
    <3>1. device.bits # <<>> /\ 2 \in 1 .. Len(device.bits)
      BY <2>1, <1>4, EmptySeq, LenProperties
    <3> QED BY <3>1, <1>4, HeadTailProperties, ElementOfSeq
  <2>2. \/ Answers \/ Sends \/ Listens
        \/ Len(device.bits) > 1 /\ Becomes("send", Tail(device.bits), device.bits[2])
        \/ Becomes("answered", <<>>, 1) \/ Becomes("idle", <<>>, 1)
        \/ UNCHANGED device
    BY <1>9 DEF OnFalling
  <2> QED BY <2>1, <2>2, <1>1, <1>2, <1>4, <1>5, <1>6, <1>7
<1>10. \/ device' = [mode |-> "listen", first |-> TRUE, bits |-> <<>>, sda |-> 1]
       \/ Becomes("idle", <<>>, 1) \/ OnRising \/ OnFalling \/ UNCHANGED device
  BY DEF DeviceReacts
<1> QED BY <1>1, <1>2, <1>3, <1>4, <1>8, <1>9, <1>10

LEMMA TypesKept ==
  ASSUME I2cTypes, [I2cNext]_i2cVars
  PROVE  I2cTypes'
<1>1. CASE Operation
  <2>1. PICK op \in Op : todo # <<>> /\ op = Head(todo)
    <3>1. todo # <<>>
      BY <1>1 DEF Operation, write_sda, write_scl, ReadBit, WaitAck, AtOperation
    <3> QED BY <3>1, HeadTailProperties DEF I2cTypes
  <2>2. Tail(todo) \in Seq(Op)
    BY <2>1, HeadTailProperties DEF I2cTypes
  <2>3. CASE \E v \in Bit : op = SDA(v)
    <3>1. PICK v \in Bit : op = SDA(v)
      BY <2>3
    <3>2. sda' = v /\ todo' = Tail(todo) /\ UNCHANGED <<call, acked, bits, scl>> /\ DeviceReacts
      BY <1>1, <2>1, <3>1, DoSda
    <3>3. device' \in Device
      BY <3>1, <3>2, DeviceTypes
    <3> QED BY <2>2, <3>1, <3>2, <3>3 DEF I2cTypes
  <2>4. CASE \E v \in Bit : op = SCL(v)
    <3>1. PICK v \in Bit : op = SCL(v)
      BY <2>4
    <3>2. scl' = v /\ todo' = Tail(todo) /\ UNCHANGED <<call, acked, bits, sda>> /\ DeviceReacts
      BY <1>1, <2>1, <3>1, DoScl
    <3>3. device' \in Device
      BY <3>1, <3>2, DeviceTypes DEF I2cTypes
    <3> QED BY <2>2, <3>1, <3>2, <3>3 DEF I2cTypes
  <2>5. CASE op = READ_SDA
    <3>1. todo' = Tail(todo) /\ UNCHANGED <<call, acked, sda, scl, device>>
      BY <1>1, <2>1, <2>5, DoRead
    <3> QED BY <2>2, <3>1 DEF I2cTypes
  <2>6. CASE op = WAIT_SDA
    <3>1. /\ UNCHANGED <<call, sda, scl, device>>
          /\ \/ todo' = Tail(todo) /\ UNCHANGED acked
             \/ todo' = TwoStops /\ acked' = FALSE
             \/ UNCHANGED <<todo, acked>>
      BY <1>1, <2>1, <2>6, DoWait
    <3> QED BY <2>2, <3>1, TwoStopsElements DEF I2cTypes
  <2>7. (\E v \in Bit : op = SDA(v)) \/ (\E v \in Bit : op = SCL(v)) \/ op = READ_SDA \/ op = WAIT_SDA
    BY DEF Op, Bit
  <2> QED BY <2>3, <2>4, <2>5, <2>6, <2>7
<1>2. CASE LateAnswer
  <2>1. UNCHANGED <<call, todo, acked, sda, scl>> /\ Becomes("answer", device.bits, 0)
    BY <1>2 DEF LateAnswer, masterVars
  <2>2. device' \in Device
    BY <2>1 DEF I2cTypes, Becomes, Device, Bit
  <2> QED BY <2>1, <2>2 DEF I2cTypes
<1>3. ASSUME NEW c \in Transfers, Begin(c) PROVE I2cTypes'
  <2>1. todo' = i2c_software_start \o (BytesLeft(BytesOf(c, 1), 0) \o After(c, 1))
    BY <1>3, ProgramIs DEF Begin
  <2>2. todo' \in Seq(Op)
    <3>1. 1 \in Parts(c) /\ 0 \in 0 .. Len(BytesOf(c, 1))
      BY BytesOfFacts DEF Parts
    <3>2. BytesLeft(BytesOf(c, 1), 0) \o After(c, 1) \in Seq(Op)
      BY <3>1, AfterByteType
    <3> QED BY <2>1, <3>2, OperationTypes, Joins
  <2>3. call' = c /\ acked' = TRUE /\ UNCHANGED <<sda, scl, device>>
    BY <1>3 DEF Begin
  <2> QED BY <2>2, <2>3 DEF I2cTypes
<1>4. CASE UNCHANGED i2cVars
  BY <1>4 DEF I2cTypes, i2cVars, masterVars, busVars
<1> QED BY <1>1, <1>2, <1>3, <1>4 DEF I2cNext

\* The start condition.
LEMMA StartSteps ==
  ASSUME I2cTypes, NEW p \in Parts(call), NEW i \in 0 .. 3, AtStart(p, i), Operation
  PROVE  IF i < 3 THEN AtStart(p, i + 1)' ELSE AtBit(p, 1, 0, 0)'
<1> DEFINE rest == BytesLeft(BytesOf(call, p), 0) \o After(call, p)
<1>1. /\ call \in Transfers /\ p \in {1, 2} /\ rest \in Seq(Op)
      /\ Len(BytesOf(call, p)) \in Nat /\ Len(BytesOf(call, p)) >= 1
  <2>1. call \in Transfers /\ p \in {1, 2}
    BY AfterType DEF I2cTypes
  <2>2. Len(BytesOf(call, p)) \in Nat /\ Len(BytesOf(call, p)) >= 1
    BY <2>1, BytesOfFacts
  <2>3. 0 \in 0 .. Len(BytesOf(call, p))
    BY <2>2
  <2> QED BY <2>1, <2>2, <2>3, AfterByteType
<1>2. /\ todo = SubSeq(i2c_software_start, i + 1, 4) \o rest
      /\ Untouched /\ got = GotBefore(call, p)
      /\ device.mode \in {"idle", "listen"} /\ device.sda = 1
      /\ i \in {0, 1} => \/ sda = 1 /\ scl = 1
                         \/ scl = 0 /\ device.mode = "listen" /\ device.bits = <<>>
      /\ i = 1 => sda = 1
      /\ i = 2 => sda = 1 /\ scl = 1
      /\ i = 3 => sda = 0 /\ scl = 1 /\ IsDevice("listen", TRUE, <<>>, 1)
  BY DEF AtStart
<1> HIDE DEF rest
<1>3. todo # <<>> /\ Head(todo) = i2c_software_start[i + 1]
      /\ Tail(todo) = SubSeq(i2c_software_start, i + 2, 4) \o rest
  <2>1. PICK ops, n : ops = i2c_software_start /\ n = 4
    OBVIOUS
  <2>2. ops \in Seq(Op) /\ n \in Nat /\ n = Len(ops) /\ i \in 0 .. n - 1
    BY <2>1, GroupElements, OperationTypes
  <2>3. /\ SubSeq(ops, i + 1, n) \o rest # <<>>
        /\ Head(SubSeq(ops, i + 1, n) \o rest) = ops[i + 1]
        /\ Tail(SubSeq(ops, i + 1, n) \o rest) = SubSeq(ops, i + 2, n) \o rest
    BY <1>1, <2>2, Doing
  <2> QED BY <1>2, <2>1, <2>3
<1>4. ASSUME NEW k \in 0 .. 3, k = i + 1, todo' = Tail(todo), call' = call, acked' = acked,
             bits' = bits, got' = got, sent' = sent, device'.mode \in {"idle", "listen"},
             device'.sda = 1,
             k = 1 => sda' = 1 /\ (scl' = 1 \/ (scl' = 0 /\ device'.mode = "listen" /\ device'.bits = <<>>)),
             k = 2 => sda' = 1 /\ scl' = 1,
             k = 3 => /\ sda' = 0 /\ scl' = 1
                      /\ device' = [mode |-> "listen", first |-> TRUE, bits |-> <<>>, sda |-> 1]
      PROVE  AtStart(p, i + 1)'
  <2>1. todo' = SubSeq(i2c_software_start, k + 1, 4) \o rest
    <3>1. k + 1 = i + 2
      BY <1>4
    <3> QED BY <3>1, <1>3, <1>4
  <2> QED BY <2>1, <1>2, <1>4 DEF AtStart, Untouched, rest, IsDevice
<1>5. CASE i = 0
  <2>1. Head(todo) = SDA(1)
    BY <1>3, <1>5, GroupElements
  <2>2. sda' = 1 /\ todo' = Tail(todo) /\ UNCHANGED <<call, acked, bits, scl>> /\ DeviceReacts
    BY <1>3, <2>1, DoSda
  <2>3. UNCHANGED <<device, got, sent>>
    <3>1. scl = 0 \/ Line(sda', device.sda) = read_sda
      BY <1>2, <1>5, <2>2 DEF read_sda
    <3> QED BY <2>2, <3>1, Quiet
  <2>5. /\ device'.mode \in {"idle", "listen"} /\ device'.sda = 1
        /\ scl' = 1 \/ (scl' = 0 /\ device'.mode = "listen" /\ device'.bits = <<>>)
    <3>1. scl = 1 \/ (scl = 0 /\ device.mode = "listen" /\ device.bits = <<>>)
      BY <1>2, <1>5
    <3>2. device' = device /\ scl' = scl
      BY <2>2, <2>3
    <3> QED BY <3>1, <3>2, <1>2
  <2>6. PICK k \in 0 .. 3 : k = i + 1 /\ k = 1
    BY <1>5
  <2>4. AtStart(p, i + 1)'
    BY <1>4, <2>2, <2>3, <2>5, <2>6
  <2> QED BY <2>4, <1>5
<1>6. CASE i = 1
  <2>1. Head(todo) = SCL(1)
    BY <1>3, <1>6, GroupElements
  <2>2. scl' = 1 /\ todo' = Tail(todo) /\ UNCHANGED <<call, acked, bits, sda>> /\ DeviceReacts
    BY <1>3, <2>1, DoScl
  <2>3. device'.mode \in {"idle", "listen"} /\ device'.sda = 1 /\ UNCHANGED <<got, sent>>
    <3>1. CASE scl = 1
      <4>1. Line(sda', device.sda) = read_sda /\ scl' = scl
        BY <2>2, <3>1 DEF read_sda
      <4> QED BY <2>2, <4>1, Quiet, <1>2
    <3>2. CASE scl = 0
      <4>1. OnRising /\ UNCHANGED <<got, sent>>
        BY <2>2, <3>2, RiseSeen
      <4>2. device \in Device
        BY DEF I2cTypes
      <4> QED BY <4>1, <4>2, <1>2 DEF OnRising, Device
    <3> QED BY <3>1, <3>2, <1>2, <1>6
  <2>4. AtStart(p, i + 1)'
    BY <1>2, <1>4, <1>6, <2>2, <2>3
  <2> QED BY <2>4, <1>6
<1>7. CASE i = 2
  <2>1. Head(todo) = SDA(0)
    BY <1>3, <1>7, GroupElements
  <2>2. sda' = 0 /\ todo' = Tail(todo) /\ UNCHANGED <<call, acked, bits, scl>> /\ DeviceReacts
    BY <1>3, <2>1, DoSda
  <2>3. /\ device' = [mode |-> "listen", first |-> TRUE, bits |-> <<>>, sda |-> 1]
        /\ UNCHANGED <<got, sent>>
    BY <1>2, <1>7, <2>2, StartSeen
  <2>4. device'.mode \in {"idle", "listen"} /\ device'.sda = 1
    BY <2>3
  <2>5. AtStart(p, i + 1)'
    BY <1>2, <1>4, <1>7, <2>2, <2>3, <2>4
  <2> QED BY <2>5, <1>7
<1>8. CASE i = 3
  <2>1. Head(todo) = SCL(0)
    BY <1>3, <1>8, GroupElements
  <2>2. scl' = 0 /\ todo' = Tail(todo) /\ UNCHANGED <<call, acked, bits, sda>> /\ DeviceReacts
    BY <1>3, <2>1, DoScl
  <2>3. OnFalling
    BY <1>2, <1>8, <2>2, FallSeen
  <2>4. UNCHANGED <<device, got, sent>>
    <3>1. device.mode = "listen" /\ ~Complete
      BY <1>2, <1>8, I2cNumbers DEF IsDevice, Complete
    <3> QED BY <2>3, <3>1 DEF OnFalling
  <2>5. todo' = rest
    <3>1. SubSeq(i2c_software_start, 4 + 1, 4) \o rest = rest
      BY <1>1, Done, GroupElements, OperationTypes
    <3> QED BY <3>1, <1>3, <1>8, <2>2
  <2>6. PICK byte : byte = BytesOf(call, p)[1]
    OBVIOUS
  <2>7. /\ byte \in Octet
        /\ rest = SubSeq(BitOps(byte[1]), 1, 3)
                    \o (BitsLeft(byte, 1) \o (i2c_software_wait_ack \o AfterByte(p, 1)))
    <3>1. PICK z, o : z = 0 /\ o = 1 /\ z + 1 = o /\ z \in 0 .. Len(BytesOf(call, p)) - 1
      BY <1>1
    <3>2. byte = BytesOf(call, p)[z + 1]
      BY <2>6, <3>1
    <3> QED BY <3>1, <3>2, <1>1, ByteBegins DEF rest, AfterByte
  <2>8. SubSeq(byte, 1, 0) = <<>> /\ SubSeq(BytesOf(call, p), 1, 0) = <<>>
    BY SubSeqEmpty
  <2>9. got = GotBefore(call, p) \o <<>>
    <3>1. GotBefore(call, p) \in Seq(Octet)
      BY <1>1, BytesOfFacts DEF GotBefore
    <3> QED BY <3>1, <1>2, ConcatEmptySeq
  <2>10. 1 - 1 = 0 /\ 0 + 1 = 1 /\ 1 \in 1 .. Len(BytesOf(call, p)) /\ 0 \in 0 .. ByteBits - 1
    BY <1>1, I2cNumbers
  <2>11. AtByte(p, 1)'
    BY <1>2, <2>2, <2>4, <2>8, <2>9, <2>10 DEF AtByte, Untouched
  <2>13. IsDevice("listen", 1 = 1, SubSeq(byte, 1, 0), 1)'
    BY <1>2, <1>8, <2>4, <2>8 DEF IsDevice
  <2>14. todo' = SubSeq(BitOps(byte[1]), 1, 3) \o (BitsLeft(byte, 1) \o (i2c_software_wait_ack \o AfterByte(p, 1)'))
    BY <2>2, <2>5, <2>7 DEF AfterByte
  <2>12. AtBit(p, 1, 0, 0)'
    <3>1. PICK o, z : o = 1 /\ z = 0 /\ z + 1 = o /\ z \in 0 .. ByteBits - 1 /\ z # 2 /\ ~(z > 0)
      BY <2>10
    <3>2. AtBit(p, o, z, z)'
      <4>1. AtByte(p, o)' /\ byte = BytesOf(call', p)[o] /\ scl' = 0
        BY <3>1, <2>2, <2>6, <2>11
      <4>2. IsDevice("listen", o = 1, SubSeq(byte, 1, z), 1)'
        BY <3>1, <2>13
      <4>3. todo' = SubSeq(BitOps(byte[z + 1]), z + 1, 3) \o (BitsLeft(byte, z + 1) \o (i2c_software_wait_ack \o AfterByte(p, o)'))
        BY <3>1, <2>14
      <4> QED BY <3>1, <4>1, <4>2, <4>3 DEF AtBit
    <3> QED BY <3>1, <3>2
  <2> QED BY <2>12, <1>8
<1> QED BY <1>5, <1>6, <1>7, <1>8

LEMMA ByteKept ==
  ASSUME NEW p, NEW j, AtByte(p, j), UNCHANGED <<call, acked, bits, got, sent>>
  PROVE  AtByte(p, j)'
  BY DEF AtByte, Untouched

\* Where the transfer is after a step in a bit.
LEMMA IsAtBit ==
  ASSUME NEW p, NEW j, NEW k \in 0 .. ByteBits - 1, NEW i \in 0 .. 2, NEW byte,
         AtByte(p, j), UNCHANGED <<call, acked, bits, got, sent>>,
         byte = BytesOf(call, p)[j],
         todo' = SubSeq(BitOps(byte[k + 1]), i + 1, 3)
                   \o (BitsLeft(byte, k + 1) \o (i2c_software_wait_ack \o AfterByte(p, j))),
         scl' = IF i = 2 THEN 1 ELSE 0,
         i > 0 => sda' = byte[k + 1],
         device' = [mode |-> "listen", first |-> j = 1,
                    bits |-> SubSeq(byte, 1, IF i = 2 THEN k + 1 ELSE k), sda |-> 1]
  PROVE  AtBit(p, j, k, i)'
<1>1. AtByte(p, j)'
  BY ByteKept
<1>2. AfterByte(p, j)' = AfterByte(p, j)
  BY DEF AfterByte
<1> QED BY <1>1, <1>2 DEF AtBit, IsDevice

LEMMA BitSteps ==
  ASSUME I2cTypes, NEW p \in Parts(call), NEW j, NEW k, NEW i \in 0 .. 2, AtBit(p, j, k, i), Operation
  PROVE  CASE i < 2 -> AtBit(p, j, k, i + 1)'
           [] i = 2 /\ k + 1 < ByteBits -> AtBit(p, j, k + 1, 0)'
           [] OTHER -> AtAck(p, j, 0)'
<1>0. PICK byte : byte = BytesOf(call, p)[j]
  OBVIOUS
<1>1. /\ AtByte(p, j) /\ k \in 0 .. ByteBits - 1
      /\ todo = SubSeq(BitOps(byte[k + 1]), i + 1, 3)
                  \o (BitsLeft(byte, k + 1) \o (i2c_software_wait_ack \o AfterByte(p, j)))
      /\ scl = (IF i = 2 THEN 1 ELSE 0)
      /\ i > 0 => sda = byte[k + 1]
      /\ device = [mode |-> "listen", first |-> j = 1,
                   bits |-> SubSeq(byte, 1, IF i = 2 THEN k + 1 ELSE k), sda |-> 1]
  BY <1>0 DEF AtBit, IsDevice
<1>2. /\ call \in Transfers /\ j \in 1 .. Len(BytesOf(call, p)) /\ byte \in Octet
      /\ byte \in Seq(Bit) /\ Len(byte) = ByteBits /\ k + 1 \in 1 .. ByteBits /\ byte[k + 1] \in Bit
      /\ ByteBits \in Nat /\ ByteBits >= 2
  <2>1. call \in Transfers /\ j \in 1 .. Len(BytesOf(call, p))
    BY <1>1 DEF I2cTypes, AtByte
  <2>2. byte \in Octet
    BY <2>1, <1>0, AfterType, BytesOfFacts
  <2>3. k + 1 \in 1 .. ByteBits
    BY <1>1, I2cNumbers
  <2> QED BY <2>1, <2>2, <2>3, I2cNumbers
<1>3. PICK after : after = i2c_software_wait_ack \o AfterByte(p, j)
  OBVIOUS
<1>4. after \in Seq(Op)
  <2>1. j \in 0 .. Len(BytesOf(call, p))
    BY <1>2, AfterType, BytesOfFacts
  <2> QED BY <2>1, <1>2, <1>3, AfterByteType DEF AfterByte
<1>5. BitsLeft(byte, k + 1) \o after \in Seq(Op)
  <2>1. k + 1 \in 0 .. ByteBits
    BY <1>2
  <2> QED BY <2>1, <1>2, <1>4, UnfoldBits
<1>6. /\ todo # <<>> /\ Head(todo) = BitOps(byte[k + 1])[i + 1]
      /\ Tail(todo) = SubSeq(BitOps(byte[k + 1]), i + 2, 3) \o (BitsLeft(byte, k + 1) \o after)
  <2>1. PICK ops, n, rest : ops = BitOps(byte[k + 1]) /\ n = 3 /\ rest = BitsLeft(byte, k + 1) \o after
    OBVIOUS
  <2>2. ops \in Seq(Op) /\ n \in Nat /\ n = Len(ops) /\ i \in 0 .. n - 1 /\ rest \in Seq(Op)
    BY <2>1, <1>2, <1>5, GroupElements, OperationTypes
  <2>3. /\ SubSeq(ops, i + 1, n) \o rest # <<>>
        /\ Head(SubSeq(ops, i + 1, n) \o rest) = ops[i + 1]
        /\ Tail(SubSeq(ops, i + 1, n) \o rest) = SubSeq(ops, i + 2, n) \o rest
    BY <2>2, Doing
  <2> QED BY <1>1, <1>3, <2>1, <2>3
<1>7. Len(SubSeq(byte, 1, k)) = k /\ SubSeq(byte, 1, k) \in Seq(Bit)
      /\ SubSeq(byte, 1, k + 1) = Append(SubSeq(byte, 1, k), byte[k + 1])
      /\ Len(SubSeq(byte, 1, k + 1)) = k + 1
  <2>1. k \in Int /\ k >= 0 /\ k + 1 \in Int /\ 1 \in Int /\ \A x \in 1 .. k + 1 : byte[x] \in Bit
    BY <1>1, <1>2, ElementOfSeq
  <2>2. SubSeq(byte, 1, k) \in Seq(Bit) /\ Len(SubSeq(byte, 1, k)) = IF 1 <= k THEN k - 1 + 1 ELSE 0
    <3>1. \A x \in 1 .. k : byte[x] \in Bit
      BY <2>1
    <3> QED BY <2>1, <3>1, SubSeqProperties
  <2>3. Len(SubSeq(byte, 1, k)) = k
    BY <2>1, <2>2
  <2>4. Len(SubSeq(byte, 1, k + 1)) = IF 1 <= k + 1 THEN k + 1 - 1 + 1 ELSE 0
    BY <2>1, SubSeqProperties
  <2>5. Len(SubSeq(byte, 1, k + 1)) = k + 1
    BY <2>1, <2>4
  <2>6. SubSeq(byte, 1, k + 1) = SubSeq(byte, 1, k) \o <<byte[k + 1]>>
    <3>1. 1 \in 1 .. Len(byte) /\ k + 1 \in 1 .. Len(byte) /\ k + 1 - 1 = k
      BY <1>2, <2>1
    <3>2. PICK o, h : o = 1 /\ h = k + 1 /\ o \in 1 .. Len(byte) /\ h \in o .. Len(byte) /\ h - 1 = k
      BY <3>1, <2>1
    <3>3. SubSeq(byte, o, h) = SubSeq(byte, o, h - 1) \o <<byte[h]>>
      BY <3>2, <1>2, SubSeqRecursiveSecond
    <3> QED BY <3>1, <3>2, <3>3
  <2>7. Append(SubSeq(byte, 1, k), byte[k + 1]) = SubSeq(byte, 1, k) \o <<byte[k + 1]>>
    BY <2>2, <1>2, AppendIsConcat
  <2> QED BY <2>2, <2>3, <2>5, <2>6, <2>7
<1>8. CASE i = 0
  <2>1. Head(todo) = SDA(byte[k + 1])
    BY <1>6, <1>8, GroupElements
  <2>2. /\ sda' = byte[k + 1] /\ todo' = Tail(todo)
        /\ UNCHANGED <<call, acked, bits, scl>> /\ DeviceReacts
    BY <1>6, <2>1, DoSda
  <2>3. UNCHANGED <<device, got, sent>>
    <3>1. scl = 0
      BY <1>1, <1>8
    <3> QED BY <2>2, <3>1, Quiet
  <2>4. PICK m \in 0 .. 2 : m = 1 /\ m = i + 1 /\ m + 1 = i + 2
    BY <1>8
  <2>5. todo' = SubSeq(BitOps(byte[k + 1]), m + 1, 3) \o (BitsLeft(byte, k + 1) \o after)
    BY <1>6, <2>2, <2>4
  <2>6. AtBit(p, j, k, m)'
    <3>1. /\ scl' = (IF m = 2 THEN 1 ELSE 0) /\ (m > 0 => sda' = byte[k + 1])
          /\ device' = [mode |-> "listen", first |-> j = 1,
                        bits |-> SubSeq(byte, 1, IF m = 2 THEN k + 1 ELSE k), sda |-> 1]
      BY <1>1, <1>8, <2>2, <2>3, <2>4
    <3> QED BY <3>1, <1>0, <1>1, <1>3, <2>2, <2>3, <2>4, <2>5, IsAtBit
  <2> QED BY <2>4, <2>6, <1>8
<1>9. CASE i = 1
  <2>1. Head(todo) = SCL(1)
    BY <1>6, <1>9, GroupElements
  <2>2. scl' = 1 /\ todo' = Tail(todo) /\ UNCHANGED <<call, acked, bits, sda>> /\ DeviceReacts
    BY <1>6, <2>1, DoScl
  <2>3. OnRising /\ UNCHANGED <<got, sent>>
    <3>1. scl = 0
      BY <1>1, <1>9
    <3> QED BY <2>2, <3>1, RiseSeen
  <2>4. device' = [mode |-> "listen", first |-> j = 1, bits |-> SubSeq(byte, 1, k + 1), sda |-> 1]
    <3>1. device = [mode |-> "listen", first |-> j = 1, bits |-> SubSeq(byte, 1, k), sda |-> 1]
      BY <1>1, <1>9
    <3>2. device.mode = "listen" /\ ~Complete
      BY <3>1, <1>1, <1>2, <1>7 DEF Complete
    <3>3. read_sda = byte[k + 1]
      BY <3>1, <1>1, <1>2, <1>9 DEF read_sda, Line, Bit
    <3>4. device' = [device EXCEPT !.bits = Append(device.bits, read_sda)]
      BY <2>3, <3>2 DEF OnRising
    <3> QED BY <3>1, <3>3, <3>4, <1>7
  <2>5. PICK m \in 0 .. 2 : m = 2 /\ m = i + 1 /\ m + 1 = i + 2
    BY <1>9
  <2>6. todo' = SubSeq(BitOps(byte[k + 1]), m + 1, 3) \o (BitsLeft(byte, k + 1) \o after)
    BY <1>6, <2>2, <2>5
  <2>7. AtBit(p, j, k, m)'
    <3>1. /\ scl' = (IF m = 2 THEN 1 ELSE 0) /\ (m > 0 => sda' = byte[k + 1])
          /\ device' = [mode |-> "listen", first |-> j = 1,
                        bits |-> SubSeq(byte, 1, IF m = 2 THEN k + 1 ELSE k), sda |-> 1]
      BY <1>1, <1>9, <2>2, <2>4, <2>5
    <3> QED BY <3>1, <1>0, <1>1, <1>3, <2>2, <2>3, <2>5, <2>6, IsAtBit
  <2> QED BY <2>5, <2>7, <1>9
<1>10. CASE i = 2
  <2>1. Head(todo) = SCL(0)
    BY <1>6, <1>10, GroupElements
  <2>2. scl' = 0 /\ todo' = Tail(todo) /\ UNCHANGED <<call, acked, bits, sda>> /\ DeviceReacts
    BY <1>6, <2>1, DoScl
  <2>3. OnFalling
    <3>1. scl = 1
      BY <1>1, <1>10
    <3> QED BY <2>2, <3>1, FallSeen
  <2>4. todo' = BitsLeft(byte, k + 1) \o after
    <3>1. PICK ops, rest, n : ops = BitOps(byte[k + 1]) /\ rest = BitsLeft(byte, k + 1) \o after /\ n = 3
      OBVIOUS
    <3>2. ops \in Seq(Op) /\ n \in Nat /\ n = Len(ops) /\ rest \in Seq(Op) /\ n + 1 = i + 2
      BY <3>1, <1>2, <1>5, <1>10, GroupElements, OperationTypes
    <3>3. SubSeq(ops, n + 1, n) \o rest = rest
      BY <3>2, Done
    <3> QED BY <3>1, <3>2, <3>3, <1>6, <2>2
  <2>5. device = [mode |-> "listen", first |-> j = 1, bits |-> SubSeq(byte, 1, k + 1), sda |-> 1]
    BY <1>1, <1>10
  <2>6. CASE k + 1 < ByteBits
    <3>1. UNCHANGED <<device, got, sent>>
      <4>1. device.mode = "listen" /\ ~Complete
        BY <2>5, <2>6, <1>2, <1>7 DEF Complete
      <4> QED BY <2>3, <4>1 DEF OnFalling
    <3>2. PICK z, h : z = 0 /\ h = k + 1 /\ h \in 0 .. ByteBits - 1 /\ z \in 0 .. 2 /\ z # 2 /\ ~(z > 0) /\ z + 1 = 1
      BY <2>6, <1>2
    <3>3. todo' = SubSeq(BitOps(byte[h + 1]), z + 1, 3) \o (BitsLeft(byte, h + 1) \o after)
      <4>1. BitsLeft(byte, h) \o after
              = SubSeq(BitOps(byte[h + 1]), 1, 3) \o (BitsLeft(byte, h + 1) \o after)
        BY <3>2, <1>2, <1>4, UnfoldBits
      <4> QED BY <4>1, <2>4, <3>2
    <3>4. AtBit(p, j, h, z)'
      <4>1. /\ scl' = (IF z = 2 THEN 1 ELSE 0) /\ (z > 0 => sda' = byte[h + 1])
            /\ device' = [mode |-> "listen", first |-> j = 1,
                          bits |-> SubSeq(byte, 1, IF z = 2 THEN h + 1 ELSE h), sda |-> 1]
        BY <2>2, <2>5, <3>1, <3>2
      <4> QED BY <4>1, <1>0, <1>1, <1>3, <2>2, <3>1, <3>2, <3>3, IsAtBit
    <3> QED BY <3>2, <3>4, <2>6, <1>10
  <2>7. CASE ~(k + 1 < ByteBits)
    <3>1. k + 1 = ByteBits
      BY <2>7, <1>2
    <3>2. SubSeq(byte, 1, k + 1) = byte
      BY <3>1, <1>2, SubSeqFull
    <3>3. Answers /\ UNCHANGED <<got, sent>>
      <4>1. device.mode = "listen" /\ Complete
        BY <2>5, <3>1, <1>7 DEF Complete
      <4> QED BY <2>3, <4>1 DEF OnFalling
    <3>4. \/ device' = [mode |-> "answer", first |-> j = 1, bits |-> byte, sda |-> 0]
          \/ /\ device' = [mode |-> "late", first |-> j = 1, bits |-> byte, sda |-> 1]
             /\ call.wait_ack_us > 0
          \/ device' = [mode |-> "deaf", first |-> j = 1, bits |-> <<>>, sda |-> 1]
      BY <3>2, <3>3, <2>5 DEF Answers, Becomes
    <3>5. todo' = after
      BY <2>4, <3>1, <1>2, <1>4, UnfoldBits
    <3>6. AtByte(p, j)'
      BY <1>1, <2>2, <3>3, ByteKept
    <3>7. AfterByte(p, j)' = AfterByte(p, j)
      BY <2>2 DEF AfterByte
    <3>8. SubSeq(i2c_software_wait_ack, 1, 4) \o AfterByte(p, j) = after
      <4>1. SubSeq(i2c_software_wait_ack, 1, 4) = i2c_software_wait_ack
        BY SubSeqFull, OperationTypes, GroupElements
      <4> QED BY <4>1, <1>3
    <3>9. AtAck(p, j, 0)'
      <4>1. PICK z : z = 0 /\ z + 1 = 1 /\ z < 2 /\ ~(z > 0) /\ z < 3
        OBVIOUS
      <4>2. AtAck(p, j, z)'
        BY <4>1, <1>0, <2>2, <3>4, <3>5, <3>6, <3>7, <3>8 DEF AtAck, IsDevice
      <4> QED BY <4>1, <4>2
    <3> QED BY <3>9, <2>7, <1>10
  <2> QED BY <2>6, <2>7
<1> QED BY <1>8, <1>9, <1>10

\* The answer to a byte, which may be late or missing.
LEMMA AckSteps ==
  ASSUME I2cTypes, NEW p \in Parts(call), NEW j, NEW i \in 0 .. 2, AtAck(p, j, i), Operation
  PROVE  AtAck(p, j, i + 1)' \/ AtAck(p, j, i)' \/ AtFailure(0)'
<1>0. PICK byte : byte = BytesOf(call, p)[j]
  OBVIOUS
<1>1. /\ AtByte(p, j)
      /\ todo = SubSeq(i2c_software_wait_ack, i + 1, 4) \o AfterByte(p, j)
      /\ scl = (IF i < 2 THEN 0 ELSE 1)
      /\ i > 0 => sda = 1
      /\ \/ device = [mode |-> "answer", first |-> j = 1, bits |-> byte, sda |-> 0]
         \/ /\ device = [mode |-> "late", first |-> j = 1, bits |-> byte, sda |-> 1]
            /\ call.wait_ack_us > 0
         \/ device = [mode |-> "deaf", first |-> j = 1, bits |-> <<>>, sda |-> 1]
  BY <1>0 DEF AtAck, IsDevice
<1>2. AfterByte(p, j) \in Seq(Op)
  <2>1. call \in Transfers /\ j \in 1 .. Len(BytesOf(call, p))
    BY <1>1 DEF I2cTypes, AtByte
  <2>2. j \in 0 .. Len(BytesOf(call, p))
    BY <2>1, AfterType, BytesOfFacts
  <2> QED BY <2>1, <2>2, AfterByteType DEF AfterByte
<1>3. /\ todo # <<>> /\ Head(todo) = i2c_software_wait_ack[i + 1]
      /\ Tail(todo) = SubSeq(i2c_software_wait_ack, i + 2, 4) \o AfterByte(p, j)
  <2>1. PICK ops, n : ops = i2c_software_wait_ack /\ n = 4
    OBVIOUS
  <2>2. ops \in Seq(Op) /\ n \in Nat /\ n = Len(ops) /\ i \in 0 .. n - 1
    BY <2>1, GroupElements, OperationTypes
  <2>3. /\ SubSeq(ops, i + 1, n) \o AfterByte(p, j) # <<>>
        /\ Head(SubSeq(ops, i + 1, n) \o AfterByte(p, j)) = ops[i + 1]
        /\ Tail(SubSeq(ops, i + 1, n) \o AfterByte(p, j)) = SubSeq(ops, i + 2, n) \o AfterByte(p, j)
    BY <1>2, <2>2, Doing
  <2> QED BY <1>1, <2>1, <2>3
<1>4. ASSUME NEW m \in 0 .. 3, UNCHANGED <<call, acked, bits, got, sent, device>>,
             todo' = SubSeq(i2c_software_wait_ack, m + 1, 4) \o AfterByte(p, j),
             scl' = (IF m < 2 THEN 0 ELSE 1), m > 0 => sda' = 1,
             m < 3 \/ device.mode = "answer"
      PROVE  AtAck(p, j, m)'
  <2>1. AtByte(p, j)' /\ AfterByte(p, j)' = AfterByte(p, j)
    BY <1>1, <1>4, ByteKept DEF AfterByte
  <2> QED BY <2>1, <1>0, <1>1, <1>4 DEF AtAck, IsDevice
<1>5. CASE i = 0
  <2>1. Head(todo) = SDA(1)
    BY <1>3, <1>5, GroupElements
  <2>2. sda' = 1 /\ todo' = Tail(todo) /\ UNCHANGED <<call, acked, bits, scl>> /\ DeviceReacts
    BY <1>3, <2>1, DoSda
  <2>3. UNCHANGED <<device, got, sent>>
    <3>1. scl = 0
      BY <1>1, <1>5
    <3> QED BY <2>2, <3>1, Quiet
  <2>4. PICK m \in 0 .. 3 : m = i + 1 /\ m + 1 = i + 2 /\ m = 1
    BY <1>5
  <2>5. AtAck(p, j, m)'
    BY <1>1, <1>3, <1>4, <1>5, <2>2, <2>3, <2>4
  <2> QED BY <2>4, <2>5
<1>6. CASE i = 1
  <2>1. Head(todo) = SCL(1)
    BY <1>3, <1>6, GroupElements
  <2>2. scl' = 1 /\ todo' = Tail(todo) /\ UNCHANGED <<call, acked, bits, sda>> /\ DeviceReacts
    BY <1>3, <2>1, DoScl
  <2>3. OnRising /\ UNCHANGED <<got, sent>>
    <3>1. scl = 0
      BY <1>1, <1>6
    <3> QED BY <2>2, <3>1, RiseSeen
  <2>4. UNCHANGED device
    BY <1>1, <2>3 DEF OnRising
  <2>5. PICK m \in 0 .. 3 : m = i + 1 /\ m + 1 = i + 2 /\ m = 2
    BY <1>6
  <2>6. AtAck(p, j, m)'
    BY <1>1, <1>3, <1>4, <1>6, <2>2, <2>3, <2>4, <2>5
  <2> QED BY <2>5, <2>6
<1>7. CASE i = 2
  <2>1. Head(todo) = WAIT_SDA
    BY <1>3, <1>7, GroupElements
  <2>2. /\ UNCHANGED <<call, bits, sda, scl, device, got, sent>>
        /\ \/ read_sda = 0 /\ todo' = Tail(todo) /\ UNCHANGED acked
           \/ read_sda # 0 /\ gives_up /\ todo' = TwoStops /\ acked' = FALSE
           \/ read_sda # 0 /\ UNCHANGED <<todo, acked>>
    BY <1>3, <2>1, DoWait
  <2>3. CASE read_sda = 0 /\ todo' = Tail(todo) /\ UNCHANGED acked
    <3>1. device.mode = "answer"
      BY <1>1, <1>7, <2>3 DEF read_sda, Line
    <3>2. PICK m \in 0 .. 3 : m = i + 1 /\ m + 1 = i + 2 /\ m = 3
      BY <1>7
    <3>3. AtAck(p, j, m)'
      BY <1>1, <1>3, <1>4, <1>7, <2>2, <2>3, <3>1, <3>2
    <3> QED BY <3>2, <3>3
  <2>4. CASE read_sda # 0 /\ gives_up /\ todo' = TwoStops /\ acked' = FALSE
    <3>1. device.sda = 1 /\ device.mode = "deaf"
      <4>1. ~(call.wait_ack_us > 0)
        BY <2>4, CallFacts DEF gives_up, I2cTypes
      <4> QED BY <4>1, <1>1, <2>4 DEF read_sda, Line
    <3>2. PICK z : z = 0 /\ z + 1 = 1 /\ z \in {0, 3} /\ z # 3
      OBVIOUS
    <3>3. SubSeq(TwoStops, 1, 6) = TwoStops
      BY TwoStopsElements, SubSeqFull
    <3>4. AtFailure(z)'
      <4>1. todo' = SubSeq(TwoStops, z + 1, 6)
        BY <2>4, <3>2, <3>3
      <4>2. scl' = 1 /\ device'.sda = 1 /\ device'.mode = "deaf" /\ sda' = 1 /\ acked' = FALSE
        BY <1>1, <1>7, <2>2, <2>4, <3>1
      <4> QED BY <3>2, <4>1, <4>2 DEF AtFailure, TwoStops
    <3> QED BY <3>2, <3>4
  <2>5. CASE read_sda # 0 /\ UNCHANGED <<todo, acked>>
    <3>1. i < 3 /\ i \in 0 .. 3
      BY <1>7
    <3>2. AtAck(p, j, i)'
      BY <1>1, <1>4, <2>2, <2>5, <3>1
    <3> QED BY <3>2
  <2> QED BY <2>2, <2>3, <2>4, <2>5
<1> QED BY <1>5, <1>6, <1>7

\* The device's answer does not change the place.
LEMMA LateAnswers ==
  ASSUME NEW p, NEW j, NEW i, AtAck(p, j, i), LateAnswer
  PROVE  AtAck(p, j, i)'
<1>1. UNCHANGED <<call, todo, acked, bits, sda, scl, got, sent>> /\ Becomes("answer", device.bits, 0)
      /\ device.mode = "late"
  BY DEF LateAnswer, masterVars
<1>2. AtByte(p, j)' /\ AfterByte(p, j)' = AfterByte(p, j) /\ BytesOf(call, p)' = BytesOf(call, p)
  BY <1>1 DEF AfterByte, AtByte, AtAck, Untouched
<1>3. IsDevice("late", j = 1, BytesOf(call, p)[j], 1)
  BY <1>1 DEF AtAck, IsDevice
<1>4. device' = [mode |-> "answer", first |-> j = 1, bits |-> BytesOf(call, p)[j], sda |-> 0]
  BY <1>1, <1>3 DEF IsDevice, Becomes
<1> QED BY <1>1, <1>2, <1>4 DEF AtAck, IsDevice

LEMMA NothingFlat == FlattenSeq(<<>>) = <<>>
<1>1. <<>> \in Seq(Seq(Bit))
  OBVIOUS
<1> QED BY <1>1, FlatIs

\* The first operations of the bytes to read after k of them.
LEMMA AnswerBegins ==
  ASSUME NEW c \in Transfers, c.op = "read", NEW k \in 0 .. c.len
  PROVE  /\ AnswersLeft(c, k) \o i2c_software_stop \in Seq(Op)
         /\ answer_byte(c, k) \o (AnswersLeft(c, k) \o i2c_software_stop) \in Seq(Op)
         /\ ReadsLeft(0) \o (answer_byte(c, k) \o (AnswersLeft(c, k) \o i2c_software_stop)) \in Seq(Op)
         /\ k = c.len => AnswersLeft(c, k) \o i2c_software_stop = i2c_software_stop
         /\ k < c.len =>
              AnswersLeft(c, k) \o i2c_software_stop
                = <<SDA(1)>> \o (ReadsLeft(0) \o (answer_byte(c, k + 1)
                                                \o (AnswersLeft(c, k + 1) \o i2c_software_stop)))
<1>1. c.len \in Nat /\ i2c_software_stop \in Seq(Op)
  BY CallFacts, OperationTypes
<1>2. AnswersLeft(c, k) \o i2c_software_stop \in Seq(Op)
  BY <1>1, UnfoldAnswers
<1>3. answer_byte(c, k) \in Seq(Op)
  BY <1>1, AnswersLeftIs
<1>4. answer_byte(c, k) \o (AnswersLeft(c, k) \o i2c_software_stop) \in Seq(Op)
  BY <1>2, <1>3, Joins
<1>5. ReadsLeft(0) \in Seq(Op)
  BY ReadsLeftIs, I2cNumbers
<1>6. ReadsLeft(0) \o (answer_byte(c, k) \o (AnswersLeft(c, k) \o i2c_software_stop)) \in Seq(Op)
  BY <1>4, <1>5, Joins
<1>7. k < c.len => k \in 0 .. c.len - 1
  BY <1>1
<1>8. /\ AnswersLeft(c, c.len) \o i2c_software_stop = i2c_software_stop
      /\ \A h \in 0 .. c.len - 1 :
           AnswersLeft(c, h) \o i2c_software_stop
             = <<SDA(1)>> \o (ReadsLeft(0) \o (answer_byte(c, h + 1) \o (AnswersLeft(c, h + 1) \o i2c_software_stop)))
  BY <1>1, UnfoldAnswers
<1> QED BY <1>2, <1>4, <1>6, <1>7, <1>8

\* After the answer to a byte comes the next byte, the stop of a write, the second
\* start of a read, or the first byte of the device.
LEMMA AckDone ==
  ASSUME I2cTypes, NEW p \in Parts(call), NEW j, AtAck(p, j, 3), Operation
  PROVE  \/ AtBit(p, j + 1, 0, 0)' \/ AtStop(0)'
         \/ call.op = "read" /\ AtStart(2, 0)'
         \/ \E b \in Byte : AtRead(1, <<>>, b)'
<1>0. PICK list, byte : list = BytesOf(call, p) /\ byte = list[j]
  OBVIOUS
<1>1. /\ AtByte(p, j)
      /\ todo = SubSeq(i2c_software_wait_ack, 4, 4) \o AfterByte(p, j)
      /\ scl = 1
      /\ device = [mode |-> "answer", first |-> j = 1, bits |-> byte, sda |-> 0]
  BY <1>0 DEF AtAck, IsDevice
<1>2. /\ call \in Transfers /\ p \in {1, 2} /\ list \in Seq(Octet) /\ Len(list) \in Nat
      /\ j \in 1 .. Len(list) /\ j \in 0 .. Len(list) /\ byte \in Octet
  <2>1. call \in Transfers /\ p \in {1, 2}
    BY AfterType DEF I2cTypes
  <2>2. list \in Seq(Octet) /\ Len(list) \in Nat /\ j \in 1 .. Len(list)
    BY <1>0, <1>1, <2>1, BytesOfFacts DEF AtByte
  <2>3. byte \in Octet /\ j \in 0 .. Len(list)
    BY <1>0, <2>2, ElementOfSeq
  <2> QED BY <2>1, <2>2, <2>3
<1>3. After(call, p) \in Seq(Op) /\ AfterByte(p, j) \in Seq(Op)
      /\ AfterByte(p, j) = BytesLeft(list, j) \o After(call, p)
  BY <1>0, <1>2, AfterType, AfterByteType DEF AfterByte
<1>4. scl' = 0 /\ todo' = AfterByte(p, j) /\ UNCHANGED <<call, acked, bits, sda>> /\ DeviceReacts
  <2>1. PICK ops, rest, n, i : /\ ops = i2c_software_wait_ack /\ n = 4 /\ i = 3
                               /\ rest = AfterByte(p, j) /\ i + 1 = n
    OBVIOUS
  <2>2. ops \in Seq(Op) /\ n \in Nat /\ n = Len(ops) /\ i \in 0 .. n - 1 /\ i + 2 = n + 1 /\ rest \in Seq(Op)
    BY <2>1, <1>3, GroupElements, OperationTypes
  <2>3. /\ SubSeq(ops, i + 1, n) \o rest # <<>>
        /\ Head(SubSeq(ops, i + 1, n) \o rest) = ops[i + 1]
        /\ Tail(SubSeq(ops, i + 1, n) \o rest) = SubSeq(ops, i + 2, n) \o rest
    BY <2>2, Doing
  <2>4. SubSeq(ops, n + 1, n) \o rest = rest
    BY <2>2, Done
  <2>5. todo # <<>> /\ Head(todo) = SCL(0) /\ Tail(todo) = rest
    BY <1>1, <2>1, <2>2, <2>3, <2>4, GroupElements
  <2> QED BY <2>1, <2>5, DoScl
<1>5. /\ got' = Append(got, byte)
      /\ IF j = 1 /\ Last(byte) = 1 THEN Sends ELSE Listens /\ UNCHANGED sent
  <2>1. OnFalling
    BY <1>1, <1>4, FallSeen
  <2>2. device.mode = "answer" /\ device.bits = byte /\ device.first = (j = 1)
    BY <1>1
  <2>3. /\ got' = Append(got, device.bits)
        /\ IF device.first /\ Last(device.bits) = 1 THEN Sends ELSE Listens /\ UNCHANGED sent
    BY <2>1, <2>2 DEF OnFalling
  <2> QED BY <2>2, <2>3
<1>6. got' = GotBefore(call, p) \o SubSeq(list, 1, j)
  <2>1. PICK g, s : g = GotBefore(call, p) /\ s = SubSeq(list, 1, j - 1)
    OBVIOUS
  <2>2. g \in Seq(Octet)
    BY <2>1, <1>2, BytesOfFacts DEF GotBefore
  <2>3. s \in Seq(Octet) /\ SubSeq(list, 1, j) = s \o <<byte>>
    <3>1. \A x \in 1 .. j - 1 : list[x] \in Octet
      BY <1>2, ElementOfSeq
    <3>2. j - 1 \in Int /\ 1 \in Int
      BY <1>2
    <3>3. SubSeq(list, 1, j - 1) \in Seq(Octet)
      BY <3>1, <3>2, SubSeqProperties
    <3>4. 1 \in 1 .. Len(list) /\ j \in 1 .. Len(list)
      BY <1>2
    <3> QED BY <3>3, <3>4, <1>0, <1>2, <2>1, SubSeqRecursiveSecond
  <2>4. got = g \o s
    BY <1>0, <1>1, <2>1 DEF AtByte
  <2>5. g \o s \in Seq(Octet)
    BY <2>2, <2>3, Joins
  <2>6. Append(got, byte) = (g \o s) \o <<byte>>
    BY <2>4, <2>5, <1>2, AppendIsConcat
  <2>7. <<byte>> \in Seq(Octet)
    BY <1>2
  <2>8. g \in Seq(Octet) /\ s \in Seq(Octet) /\ <<byte>> \in Seq(Octet)
    BY <2>2, <2>3, <2>7
  <2>9. (g \o s) \o <<byte>> = g \o (s \o <<byte>>)
    BY <2>8, ConcatAssociative
  <2> QED BY <1>5, <2>1, <2>3, <2>6, <2>9
<1>7. Untouched
  BY <1>1 DEF AtByte
<1>8. CASE p = 1
  <2>1. Listens /\ UNCHANGED sent
    <3>1. j = 1 => Last(byte) = 0
      <4>1. SUFFICES ASSUME j = 1 PROVE Last(byte) = 0
        OBVIOUS
      <4>2. byte = ToWrite(call)
        BY <4>1, <1>0, <1>2, <1>8, BytesOfFacts
      <4>3. Len(byte) = ByteBits
        BY <1>2, I2cNumbers
      <4> QED BY <4>2, <4>3, <1>2, CallFacts DEF Last
    <3> QED BY <3>1, <1>5
  <2>2. /\ device' = [mode |-> "listen", first |-> FALSE, bits |-> <<>>, sda |-> 1]
        /\ UNCHANGED sent
    BY <2>1 DEF Listens
  <2>3. GotBefore(call, 1) = <<>>
    BY DEF GotBefore
  <2>4. Untouched'
    BY <1>4, <1>7, <2>2 DEF Untouched
  <2>5. CASE j < Len(list)
    <3>1. j \in 0 .. Len(list) - 1 /\ j + 1 \in 1 .. Len(list) /\ j + 1 # 1 /\ j + 1 - 1 = j
      BY <1>2, <2>5
    <3>2. PICK next : next = list[j + 1]
      OBVIOUS
    <3>3. AfterByte(p, j)
            = SubSeq(BitOps(next[1]), 1, 3) \o (BitsLeft(next, 1) \o (i2c_software_wait_ack \o AfterByte(p, j + 1)))
      <4>1. next = BytesOf(call, p)[j + 1] /\ j \in 0 .. Len(BytesOf(call, p)) - 1
        BY <1>0, <3>1, <3>2
      <4> QED BY <4>1, <1>2, ByteBegins DEF AfterByte
    <3>4. AtByte(p, j + 1)'
      BY <1>0, <1>4, <1>6, <2>4, <3>1 DEF AtByte
    <3>5. AfterByte(p, j + 1)' = AfterByte(p, j + 1) /\ BytesOf(call, p)' = list
      BY <1>0, <1>4 DEF AfterByte
    <3>6. PICK z, h : /\ z = 0 /\ z + 1 = 1 /\ z # 2 /\ ~(z > 0) /\ z \in 0 .. ByteBits - 1
                      /\ h = j + 1 /\ h # 1
      BY <3>1, I2cNumbers
    <3>7. device' = [mode |-> "listen", first |-> h = 1, bits |-> SubSeq(next, 1, z), sda |-> 1]
      <4>1. SubSeq(next, 1, 0) = <<>>
        BY SubSeqEmpty
      <4> QED BY <4>1, <2>2, <3>6
    <3>8. AtBit(p, h, z, z)'
      BY <1>4, <3>2, <3>3, <3>4, <3>5, <3>6, <3>7 DEF AtBit, IsDevice
    <3> QED BY <3>6, <3>8
  <2>6. CASE ~(j < Len(list))
    <3>1. j = Len(list)
      BY <1>2, <2>6
    <3>2. todo' = After(call, p)
      BY <3>1, <1>2, <1>3, <1>4, UnfoldBytes
    <3>3. got' = BytesOf(call, 1)
      <4>1. SubSeq(list, 1, j) = list /\ <<>> \o list = list
        BY <3>1, <1>2, SubSeqFull, ConcatEmptySeq
      <4> QED BY <4>1, <1>0, <1>6, <1>8, <2>3
    <3>4. CASE call.op = "write"
      <4>1. todo' = SubSeq(i2c_software_stop, 1, 3)
        <5>1. SubSeq(i2c_software_stop, 1, 3) = i2c_software_stop
          BY SubSeqFull, OperationTypes, GroupElements
        <5> QED BY <5>1, <1>8, <3>2, <3>4 DEF After
      <4>2. Transferred'
        <5>1. BytesOf(call, 1) \o <<>> = BytesOf(call, 1)
          BY <1>2, BytesOfFacts, ConcatEmptySeq
        <5> QED BY <5>1, <1>4, <2>4, <3>3, <3>4, NothingFlat DEF Transferred, Untouched
      <4>3. PICK z : z = 0 /\ z + 1 = 1 /\ z # 2 /\ ~(z > 0)
        OBVIOUS
      <4>4. AtStop(z)'
        BY <4>1, <4>2, <4>3, <1>4, <2>2, <2>4 DEF AtStop, Untouched
      <4> QED BY <4>3, <4>4
    <3>5. CASE call.op = "read"
      <4>1. todo' = SubSeq(i2c_software_start, 1, 4) \o (BytesLeft(BytesOf(call, 2), 0) \o After(call, 2))
        <5>1. SubSeq(i2c_software_start, 1, 4) = i2c_software_start
          BY SubSeqFull, OperationTypes, GroupElements
        <5>2. After(call, 2) = AnswersLeft(call, 0) \o i2c_software_stop
          BY DEF After
        <5>3. After(call, 1)
                = i2c_software_start
                    \o (BytesLeft(BytesOf(call, 2), 0) \o (AnswersLeft(call, 0) \o i2c_software_stop))
          BY <3>5 DEF After
        <5> QED BY <5>1, <5>2, <5>3, <1>8, <3>2
      <4>2. got' = GotBefore(call, 2)
        BY <3>3 DEF GotBefore
      <4>3. PICK z : z = 0 /\ z + 1 = 1 /\ z # 1 /\ z # 2 /\ z # 3
        OBVIOUS
      <4>4. AtStart(2, z)'
        BY <4>1, <4>2, <4>3, <1>4, <2>2, <2>4 DEF AtStart
      <4> QED BY <4>3, <4>4, <3>5
    <3> QED BY <3>4, <3>5, <1>2, CallFacts
  <2> QED BY <2>5, <2>6
<1>9. CASE p = 2
  <2>1. /\ call.op = "read" /\ call.len \in Nat /\ call.len >= 1
        /\ list = <<ToRead(call)>> /\ Len(list) = 1 /\ j = 1 /\ byte = ToRead(call)
    <3>1. call.op = "read"
      BY <1>2, <1>9, AfterType
    <3>2. call.len \in Nat /\ call.len >= 1
      BY <3>1, <1>2, CallFacts
    <3>3. Len(list) = 1 /\ list[1] = ToRead(call) /\ list = <<ToRead(call)>>
      BY <1>0, <1>2, <1>9, BytesOfFacts
    <3>4. j = 1
      BY <3>3, <1>2
    <3> QED BY <3>1, <3>2, <3>3, <3>4, <1>0
  <2>2. Sends
    <3>1. Len(byte) = ByteBits
      BY <1>2, I2cNumbers
    <3>2. Last(byte) = 1
      BY <3>1, <2>1, <1>2, CallFacts DEF Last
    <3> QED BY <3>2, <2>1, <1>5
  <2>3. PICK b \in Byte : /\ device' = [mode |-> "send", first |-> FALSE, bits |-> b, sda |-> Head(b)]
                          /\ sent' = Append(sent, b)
    BY <2>2 DEF Sends
  <2>4. Head(b) = b[1] /\ b \in Byte
    <3>1. b \in Seq(Bit) /\ Len(b) >= 2
      BY <2>3, I2cNumbers
    <3> QED BY <3>1, <2>3
  <2>5. got' = BytesOf(call, 1) \o BytesOf(call, 2)
    <3>1. SubSeq(list, 1, j) = list
      BY <1>2, <2>1, SubSeqFull
    <3> QED BY <3>1, <1>0, <1>6, <1>9 DEF GotBefore
  <2>6. todo' = <<SDA(1)>> \o (ReadsLeft(0) \o AfterRead(1))
    <3>1. todo' = After(call, p)
      BY <1>2, <1>3, <1>4, <2>1, UnfoldBytes
    <3>2. PICK z, o : z = 0 /\ o = 1 /\ z + 1 = o /\ z \in 0 .. call.len /\ z < call.len
      BY <2>1
    <3>3. AnswersLeft(call, z) \o i2c_software_stop
            = <<SDA(1)>> \o (ReadsLeft(0) \o (answer_byte(call, z + 1)
                                            \o (AnswersLeft(call, z + 1) \o i2c_software_stop)))
      BY <3>2, <1>2, <2>1, AnswerBegins
    <3> QED BY <3>1, <3>2, <3>3, <1>9 DEF After, AfterRead
  <2>7. Reading(1, <<>>, b)'
    <3>1. <<>> \in Seq(Byte) /\ Len(<<>>) = 1 - 1 /\ 1 \in 1 .. call.len
      BY <2>1
    <3> QED BY <3>1, <1>4, <1>7, <2>1, <2>3, <2>5 DEF Reading, Untouched
  <2>8. AfterRead(1)' = AfterRead(1)
    BY <1>4 DEF AfterRead
  <2>9. AtRead(1, <<>>, b)'
    BY <1>4, <1>7, <2>3, <2>4, <2>6, <2>7, <2>8, NothingFlat DEF AtRead, IsDevice, Untouched
  <2> QED BY <2>3, <2>9
<1> QED BY <1>2, <1>8, <1>9

\* The next operation of a group that is the last one.
LEMMA DoingLast ==
  ASSUME NEW ops \in Seq(Op), NEW n \in Nat, n = Len(ops), NEW i \in 0 .. n - 1
  PROVE  /\ SubSeq(ops, i + 1, n) # <<>> /\ Head(SubSeq(ops, i + 1, n)) = ops[i + 1]
         /\ Tail(SubSeq(ops, i + 1, n)) = SubSeq(ops, i + 2, n)
         /\ i + 1 = n => Tail(SubSeq(ops, i + 1, n)) = <<>>
<1>1. PICK m : m = i + 1 /\ m + 1 = i + 2 /\ m \in 1 .. Len(ops) /\ n \in m .. Len(ops) /\ m \in Int /\ n \in Int
  OBVIOUS
<1>2. Head(SubSeq(ops, m, n)) = ops[m] /\ Tail(SubSeq(ops, m, n)) = SubSeq(ops, m + 1, n)
  BY <1>1, HeadTailOfSubSeq
<1>3. SubSeq(ops, m, n) # <<>>
  <2>1. \A x \in m .. n : ops[x] \in Op
    BY <1>1, ElementOfSeq
  <2>2. Len(SubSeq(ops, m, n)) = IF m <= n THEN n - m + 1 ELSE 0
    BY <2>1, <1>1, SubSeqProperties
  <2>3. Len(SubSeq(ops, m, n)) # 0
    BY <2>2, <1>1
  <2>4. Len(<<>>) = 0
    BY EmptySeq
  <2> QED BY <2>3, <2>4
<1>4. i + 1 = n => SubSeq(ops, i + 2, n) = <<>>
  BY SubSeqEmpty
<1> QED BY <1>1, <1>2, <1>3, <1>4

\* The two stops leave the bus free.
LEMMA FailureSteps ==
  ASSUME I2cTypes, NEW i \in 0 .. 5, AtFailure(i), Operation
  PROVE  IF i < 5 THEN AtFailure(i + 1)' ELSE AtRest'
<1>1. /\ acked = FALSE /\ todo = SubSeq(TwoStops, i + 1, 6)
      /\ scl = 1 /\ device.sda = 1
      /\ sda = (IF i \in {0, 3} THEN 1 ELSE 0)
  BY DEF AtFailure, TwoStops
<1>2. /\ todo # <<>> /\ Head(todo) = TwoStops[i + 1]
      /\ Tail(todo) = SubSeq(TwoStops, i + 2, 6)
      /\ i = 5 => Tail(todo) = <<>>
  <2>1. PICK ops, n : ops = TwoStops /\ n = 6
    OBVIOUS
  <2>3. ops \in Seq(Op) /\ n = Len(ops) /\ n \in Nat /\ i \in 0 .. n - 1
    BY <2>1, TwoStopsElements
  <2>2. /\ SubSeq(ops, i + 1, n) # <<>> /\ Head(SubSeq(ops, i + 1, n)) = ops[i + 1]
        /\ Tail(SubSeq(ops, i + 1, n)) = SubSeq(ops, i + 2, n)
        /\ i + 1 = n => Tail(SubSeq(ops, i + 1, n)) = <<>>
    BY <2>3, DoingLast
  <2> QED BY <1>1, <2>1, <2>2
<1>3. device \in Device
  BY DEF I2cTypes
<1>4. ASSUME NEW k \in 1 .. 5, k = i + 1, todo' = Tail(todo), acked' = acked, scl' = 1,
             device'.sda = 1, sda' = (IF k \in {0, 3} THEN 1 ELSE 0),
             device'.mode = (IF k = 3 THEN "idle" ELSE "listen")
      PROVE  AtFailure(i + 1)'
  <2>1. k + 1 = i + 2
    BY <1>4
  <2>2. todo' = SubSeq(TwoStops, k + 1, 6)
    BY <2>1, <1>2, <1>4
  <2>3. AtFailure(k)'
    BY <2>2, <1>1, <1>4 DEF AtFailure, TwoStops
  <2> QED BY <2>3, <1>4
<1>5. CASE i \in {0, 3}
  <2>1. Head(todo) = SDA(0)
    BY <1>2, <1>5, TwoStopsElements
  <2>2. sda' = 0 /\ todo' = Tail(todo) /\ UNCHANGED <<call, acked, bits, scl>> /\ DeviceReacts
    BY <1>2, <2>1, DoSda
  <2>3. sda = 1
    BY <1>1, <1>5
  <2>4. device' = [mode |-> "listen", first |-> TRUE, bits |-> <<>>, sda |-> 1]
    BY <1>1, <2>2, <2>3, StartSeen
  <2>5. device'.mode = "listen" /\ device'.sda = 1
    BY <2>4
  <2>6. PICK k \in 1 .. 5 : k = i + 1 /\ k \notin {0, 3}
    BY <1>5
  <2> QED BY <1>1, <1>4, <1>5, <2>2, <2>5, <2>6
<1>6. CASE i \in {1, 4}
  <2>1. Head(todo) = SCL(1)
    BY <1>2, <1>6, TwoStopsElements
  <2>2. scl' = 1 /\ todo' = Tail(todo) /\ UNCHANGED <<call, acked, bits, sda>> /\ DeviceReacts
    BY <1>2, <2>1, DoScl
  <2>3. device' = device
    <3>1. scl' = scl /\ Line(sda', device.sda) = read_sda
      BY <1>1, <2>2 DEF read_sda
    <3> QED BY <3>1, <2>2, Quiet
  <2>4. device.mode = "listen" /\ sda = 0
    BY <1>1, <1>6 DEF AtFailure
  <2>5. PICK k \in 1 .. 5 : k = i + 1 /\ k \notin {0, 3}
    BY <1>6
  <2> QED BY <1>1, <1>4, <1>6, <2>2, <2>3, <2>4, <2>5
<1>7. CASE i \in {2, 5}
  <2>1. Head(todo) = SDA(1)
    BY <1>2, <1>7, TwoStopsElements
  <2>2. sda' = 1 /\ todo' = Tail(todo) /\ UNCHANGED <<call, acked, bits, scl>> /\ DeviceReacts
    BY <1>2, <2>1, DoSda
  <2>3. sda = 0
    BY <1>1, <1>7
  <2>4. Becomes("idle", <<>>, 1)
    BY <1>1, <2>2, <2>3, StopSeen
  <2>5. device'.mode = "idle" /\ device'.sda = 1
    BY <2>4, <1>3 DEF Becomes, Device
  <2>6. CASE i = 2
    <3>1. PICK k \in 1 .. 5 : k = i + 1 /\ k = 3 /\ k \in {0, 3}
      BY <2>6
    <3> QED BY <1>1, <1>4, <2>2, <2>5, <2>6, <3>1
  <2>7. CASE i = 5
    <3>1. todo' = <<>> /\ acked' = FALSE /\ scl' = 1
      BY <1>1, <1>2, <2>2, <2>7
    <3> QED BY <3>1, <2>2, <2>5, <2>7 DEF AtRest
  <2> QED BY <1>7, <2>6, <2>7
<1> QED BY <1>5, <1>6, <1>7

\* The stop of a call that succeeds.
LEMMA StopSteps ==
  ASSUME I2cTypes, NEW i \in 0 .. 2, AtStop(i), Operation
  PROVE  IF i < 2 THEN AtStop(i + 1)' ELSE AtRest'
<1>1. /\ acked = TRUE /\ Transferred /\ todo = SubSeq(i2c_software_stop, i + 1, 3)
      /\ scl = (IF i = 2 THEN 1 ELSE 0) /\ (i > 0 => sda = 0) /\ device.sda = 1
      /\ \/ device.mode = "listen" /\ device.bits = IF i = 2 THEN <<0>> ELSE <<>>
         \/ device.mode = "idle"
  BY DEF AtStop
<1>2. /\ todo # <<>> /\ Head(todo) = i2c_software_stop[i + 1]
      /\ Tail(todo) = SubSeq(i2c_software_stop, i + 2, 3)
      /\ i = 2 => Tail(todo) = <<>>
  <2>1. PICK ops, n : ops = i2c_software_stop /\ n = 3
    OBVIOUS
  <2>3. ops \in Seq(Op) /\ n = Len(ops) /\ n \in Nat /\ i \in 0 .. n - 1
    BY <2>1, GroupElements, OperationTypes
  <2>2. /\ SubSeq(ops, i + 1, n) # <<>> /\ Head(SubSeq(ops, i + 1, n)) = ops[i + 1]
        /\ Tail(SubSeq(ops, i + 1, n)) = SubSeq(ops, i + 2, n)
        /\ i + 1 = n => Tail(SubSeq(ops, i + 1, n)) = <<>>
    BY <2>3, DoingLast
  <2> QED BY <1>1, <2>1, <2>2
<1>3. device \in Device
  BY DEF I2cTypes
<1>4. ASSUME UNCHANGED <<call, bits, got, sent>>
      PROVE  Transferred'
  BY <1>1, <1>4 DEF Transferred
<1>5. CASE i = 0
  <2>1. Head(todo) = SDA(0)
    BY <1>2, <1>5, GroupElements
  <2>2. sda' = 0 /\ todo' = Tail(todo) /\ UNCHANGED <<call, acked, bits, scl>> /\ DeviceReacts
    BY <1>2, <2>1, DoSda
  <2>3. scl = 0
    BY <1>1, <1>5
  <2>4. UNCHANGED <<device, got, sent>>
    BY <2>2, <2>3, Quiet
  <2>5. PICK k : k = i + 1 /\ k = 1 /\ k + 1 = i + 2 /\ k > 0 /\ k # 2
    BY <1>5
  <2>6. Transferred'
    BY <1>4, <2>2, <2>4
  <2>7. todo' = SubSeq(i2c_software_stop, k + 1, 3)
    BY <1>2, <2>2, <2>5
  <2>8. AtStop(k)'
    BY <1>1, <1>5, <2>2, <2>3, <2>4, <2>5, <2>6, <2>7 DEF AtStop
  <2> QED BY <2>5, <2>8, <1>5
<1>6. CASE i = 1
  <2>1. Head(todo) = SCL(1)
    BY <1>2, <1>6, GroupElements
  <2>2. scl' = 1 /\ todo' = Tail(todo) /\ UNCHANGED <<call, acked, bits, sda>> /\ DeviceReacts
    BY <1>2, <2>1, DoScl
  <2>3. scl = 0 /\ sda = 0
    BY <1>1, <1>6
  <2>4. OnRising /\ UNCHANGED <<got, sent>>
    BY <2>2, <2>3, RiseSeen
  <2>5. /\ device'.sda = 1
        /\ (device'.mode = "listen" /\ device'.bits = <<0>>) \/ device'.mode = "idle"
    <3>1. CASE device.mode = "idle"
      BY <3>1, <1>1, <2>4 DEF OnRising
    <3>2. CASE device.mode = "listen" /\ device.bits = <<>>
      <4>1. ~Complete
        BY <3>2, I2cNumbers DEF Complete
      <4>2. read_sda = 0
        BY <2>3 DEF read_sda, Line
      <4>3. device' = [device EXCEPT !.bits = Append(device.bits, read_sda)]
        BY <3>2, <4>1, <2>4 DEF OnRising
      <4>4. Append(device.bits, read_sda) = <<0>>
        BY <3>2, <4>2
      <4> QED BY <3>2, <4>3, <4>4, <1>1, <1>3 DEF Device
    <3> QED BY <3>1, <3>2, <1>1, <1>6
  <2>6. PICK k : k = i + 1 /\ k = 2 /\ k + 1 = i + 2 /\ k > 0
    BY <1>6
  <2>7. Transferred'
    BY <1>4, <2>2, <2>4
  <2>8. todo' = SubSeq(i2c_software_stop, k + 1, 3)
    BY <1>2, <2>2, <2>6
  <2>9. AtStop(k)'
    BY <1>1, <2>2, <2>3, <2>5, <2>6, <2>7, <2>8 DEF AtStop
  <2> QED BY <2>6, <2>9, <1>6
<1>7. CASE i = 2
  <2>1. Head(todo) = SDA(1)
    BY <1>2, <1>7, GroupElements
  <2>2. sda' = 1 /\ todo' = Tail(todo) /\ UNCHANGED <<call, acked, bits, scl>> /\ DeviceReacts
    BY <1>2, <2>1, DoSda
  <2>3. scl = 1 /\ sda = 0
    BY <1>1, <1>7
  <2>4. Becomes("idle", <<>>, 1) /\ UNCHANGED <<got, sent>>
    BY <1>1, <2>2, <2>3, StopSeen
  <2>5. device'.mode = "idle" /\ device'.sda = 1
    BY <2>4, <1>3 DEF Becomes, Device
  <2>6. Transferred' /\ todo' = <<>>
    BY <1>2, <1>4, <1>7, <2>2, <2>4
  <2> QED BY <1>7, <2>2, <2>3, <2>5, <2>6 DEF AtRest
<1> QED BY <1>5, <1>6, <1>7

\* The bytes of the device, as sequences of bits.
LEMMA ReadingFacts ==
  ASSUME I2cTypes, NEW j, NEW list, NEW b, Reading(j, list, b)
  PROVE  /\ call \in Transfers /\ call.len \in Nat /\ j \in 0 .. call.len /\ j \in 1 .. call.len
         /\ b \in Seq(Bit) /\ b \in Octet /\ Len(b) = ByteBits /\ \A k \in 1 .. ByteBits : b[k] \in Bit
         /\ list \in Seq(Seq(Bit)) /\ FlattenSeq(list) \in Seq(Bit)
         /\ FlattenSeq(sent) = FlattenSeq(list) \o b
         /\ AfterRead(j) \in Seq(Op)
<1>1. call \in Transfers /\ call.op = "read" /\ j \in 1 .. call.len /\ list \in Seq(Byte) /\ b \in Byte
      /\ sent = Append(list, b)
  BY DEF Reading, I2cTypes
<1>2. call.len \in Nat
  BY <1>1, CallFacts
<1>3. b \in Octet /\ b \in Seq(Bit) /\ Len(b) = ByteBits /\ \A k \in 1 .. ByteBits : b[k] \in Bit
  BY <1>1, I2cNumbers
<1>4. list \in Seq(Seq(Bit))
  <2>1. Byte \subseteq Seq(Bit)
    BY I2cNumbers
  <2> QED BY <2>1, <1>1, SeqMonotonic
<1>5. FlattenSeq(list) \in Seq(Bit) /\ FlattenSeq(Append(list, b)) = FlattenSeq(list) \o b
  BY <1>3, <1>4, FlatAppend
<1>6. j \in 0 .. call.len
  BY <1>1, <1>2
<1>7. AfterRead(j) \in Seq(Op)
  BY <1>1, <1>6, AnswerBegins DEF AfterRead
<1> QED BY <1>1, <1>2, <1>3, <1>4, <1>5, <1>6, <1>7

LEMMA ReadingKept ==
  ASSUME NEW j, NEW list, NEW b, Reading(j, list, b), UNCHANGED <<call, acked, got, sent>>
  PROVE  Reading(j, list, b)' /\ AfterRead(j)' = AfterRead(j)
  BY DEF Reading, AfterRead

\* The master releases SDA for a byte of the device.
LEMMA ReadSteps ==
  ASSUME I2cTypes, NEW j, NEW list, NEW b, AtRead(j, list, b), Operation
  PROVE  AtReadBit(j, list, b, 0, 0)'
<1>1. /\ Reading(j, list, b) /\ bits = FlattenSeq(list)
      /\ todo = <<SDA(1)>> \o (ReadsLeft(0) \o AfterRead(j))
      /\ scl = 0 /\ device = [mode |-> "send", first |-> FALSE, bits |-> b, sda |-> b[1]]
  BY DEF AtRead, IsDevice
<1>2. PICK t \in Seq(Op) : t = ReadsLeft(0) \o AfterRead(j)
  <2>1. AfterRead(j) \in Seq(Op)
    BY <1>1, ReadingFacts
  <2>2. 0 \in 0 .. ByteBits
    BY I2cNumbers
  <2>3. ReadsLeft(0) \o AfterRead(j) \in Seq(Op)
    BY <2>1, <2>2, UnfoldReads
  <2> QED BY <2>3
<1>3. todo # <<>> /\ Head(todo) = SDA(1) /\ Tail(todo) = t
  <2>1. PICK e \in Op : e = SDA(1)
    BY OperationTypes DEF Bit
  <2>2. <<e>> \o t # <<>> /\ Head(<<e>> \o t) = e /\ Tail(<<e>> \o t) = t
    BY <1>2, FirstOfRest
  <2> QED BY <1>1, <1>2, <2>1, <2>2
<1>4. sda' = 1 /\ todo' = t /\ UNCHANGED <<call, acked, bits, scl>> /\ DeviceReacts
  BY <1>3, DoSda
<1>5. UNCHANGED <<device, got, sent>>
  BY <1>1, <1>4, Quiet
<1>6. PICK z : z = 0 /\ z + 1 = 1 /\ z # 2 /\ z \in 0 .. ByteBits - 1
  BY I2cNumbers
<1>7. t = SubSeq(ReadOps, z + 1, 3) \o (ReadsLeft(z + 1) \o AfterRead(j))
  <2>1. ReadsLeft(z) \o AfterRead(j) = SubSeq(ReadOps, 1, 3) \o (ReadsLeft(z + 1) \o AfterRead(j))
    BY <1>1, <1>6, ReadingFacts, UnfoldReads
  <2> QED BY <2>1, <1>2, <1>6
<1>8. bits = FlattenSeq(list) \o SubSeq(b, 1, z) /\ SubSeq(b, z + 1, ByteBits) = b
  <2>1. SubSeq(b, 1, z) = <<>>
    BY <1>6, SubSeqEmpty
  <2>2. FlattenSeq(list) \o <<>> = FlattenSeq(list)
    BY <1>1, ReadingFacts, ConcatEmptySeq
  <2>3. SubSeq(b, 1, ByteBits) = b
    BY <1>1, ReadingFacts, SubSeqFull
  <2> QED BY <2>1, <2>2, <2>3, <1>1, <1>6
<1>9. Reading(j, list, b)' /\ AfterRead(j)' = AfterRead(j)
  BY <1>1, <1>4, <1>5, ReadingKept
<1>10. AtReadBit(j, list, b, z, z)'
  BY <1>1, <1>4, <1>5, <1>6, <1>7, <1>8, <1>9 DEF AtReadBit, IsDevice
<1> QED BY <1>6, <1>10

\* A bit of the device.
LEMMA ReadBitSteps ==
  ASSUME I2cTypes, NEW j, NEW list, NEW b, NEW k, NEW i \in 0 .. 2, AtReadBit(j, list, b, k, i), Operation
  PROVE  CASE i < 2 -> AtReadBit(j, list, b, k, i + 1)'
           [] i = 2 /\ k + 1 < ByteBits -> AtReadBit(j, list, b, k + 1, 0)'
           [] OTHER -> AtAnswer(j, list, b, 0)'
<1>1. /\ Reading(j, list, b) /\ k \in 0 .. ByteBits - 1
      /\ bits = FlattenSeq(list) \o SubSeq(b, 1, IF i = 2 THEN k + 1 ELSE k)
      /\ todo = SubSeq(ReadOps, i + 1, 3) \o (ReadsLeft(k + 1) \o AfterRead(j))
      /\ sda = 1 /\ scl = (IF i = 0 THEN 0 ELSE 1)
      /\ device = [mode |-> "send", first |-> FALSE,
                   bits |-> SubSeq(b, k + 1, ByteBits), sda |-> b[k + 1]]
  BY DEF AtReadBit, IsDevice
<1>2. /\ ByteBits \in Nat /\ ByteBits >= 2 /\ k + 1 \in 1 .. ByteBits /\ k + 1 \in 0 .. ByteBits
      /\ b \in Seq(Bit) /\ Len(b) = ByteBits /\ b[k + 1] \in Bit
      /\ FlattenSeq(list) \in Seq(Bit) /\ AfterRead(j) \in Seq(Op)
  <2>1. ByteBits \in Nat /\ ByteBits >= 2
    BY I2cNumbers
  <2>2. k + 1 \in 1 .. ByteBits /\ k + 1 \in 0 .. ByteBits
    BY <1>1, <2>1
  <2> QED BY <1>1, <2>1, <2>2, ReadingFacts
<1>3. PICK rest \in Seq(Op) : rest = ReadsLeft(k + 1) \o AfterRead(j)
  BY <1>2, UnfoldReads
<1>4. /\ todo # <<>> /\ Head(todo) = ReadOps[i + 1]
      /\ Tail(todo) = SubSeq(ReadOps, i + 2, 3) \o rest
  <2>1. PICK ops, n : ops = ReadOps /\ n = 3
    OBVIOUS
  <2>2. ops \in Seq(Op) /\ n \in Nat /\ n = Len(ops) /\ i \in 0 .. n - 1 /\ rest \in Seq(Op)
    BY <1>3, <2>1, GroupElements, OperationTypes
  <2>3. /\ SubSeq(ops, i + 1, n) \o rest # <<>>
        /\ Head(SubSeq(ops, i + 1, n) \o rest) = ops[i + 1]
        /\ Tail(SubSeq(ops, i + 1, n) \o rest) = SubSeq(ops, i + 2, n) \o rest
    BY <2>2, Doing
  <2> QED BY <1>1, <1>3, <2>1, <2>3
<1>5. ASSUME NEW h \in 0 .. ByteBits - 1, NEW m \in 0 .. 2, UNCHANGED <<call, acked, got, sent>>,
             bits' = FlattenSeq(list) \o SubSeq(b, 1, IF m = 2 THEN h + 1 ELSE h),
             todo' = SubSeq(ReadOps, m + 1, 3) \o (ReadsLeft(h + 1) \o AfterRead(j)),
             sda' = 1, scl' = (IF m = 0 THEN 0 ELSE 1),
             device' = [mode |-> "send", first |-> FALSE,
                        bits |-> SubSeq(b, h + 1, ByteBits), sda |-> b[h + 1]]
      PROVE  AtReadBit(j, list, b, h, m)'
  <2>1. Reading(j, list, b)' /\ AfterRead(j)' = AfterRead(j)
    BY <1>1, <1>5, ReadingKept
  <2> QED BY <2>1, <1>5 DEF AtReadBit, IsDevice
<1>6. CASE i = 0
  <2>1. Head(todo) = SCL(1)
    BY <1>4, <1>6, GroupElements
  <2>2. scl' = 1 /\ todo' = Tail(todo) /\ UNCHANGED <<call, acked, bits, sda>> /\ DeviceReacts
    BY <1>4, <2>1, DoScl
  <2>3. OnRising /\ UNCHANGED <<got, sent>>
    <3>1. scl = 0
      BY <1>1, <1>6
    <3> QED BY <2>2, <3>1, RiseSeen
  <2>4. UNCHANGED device
    BY <1>1, <2>3 DEF OnRising
  <2>5. PICK m \in 0 .. 2 : m = 1 /\ m = i + 1 /\ m + 1 = i + 2
    BY <1>6
  <2>6. todo' = SubSeq(ReadOps, m + 1, 3) \o (ReadsLeft(k + 1) \o AfterRead(j))
    BY <1>3, <1>4, <2>2, <2>5
  <2>7. AtReadBit(j, list, b, k, m)'
    <3>1. /\ bits' = FlattenSeq(list) \o SubSeq(b, 1, IF m = 2 THEN k + 1 ELSE k)
          /\ sda' = 1 /\ scl' = (IF m = 0 THEN 0 ELSE 1)
      BY <1>1, <1>6, <2>2, <2>5
    <3> QED BY <3>1, <1>1, <1>5, <2>2, <2>3, <2>4, <2>6
  <2> QED BY <2>5, <2>7, <1>6
<1>7. CASE i = 1
  <2>1. Head(todo) = READ_SDA
    BY <1>4, <1>7, GroupElements
  <2>2. /\ bits' = Append(bits, read_sda) /\ todo' = Tail(todo)
        /\ UNCHANGED <<call, acked, sda, scl, device, got, sent>>
    BY <1>4, <2>1, DoRead
  <2>3. read_sda = b[k + 1]
    BY <1>1, <1>2 DEF read_sda, Line, Bit
  <2>4. bits' = FlattenSeq(list) \o SubSeq(b, 1, k + 1)
    <3>1. PICK f, s, e : f = FlattenSeq(list) /\ s = SubSeq(b, 1, k) /\ e = <<b[k + 1]>>
      OBVIOUS
    <3>2. s \in Seq(Bit)
      <4>1. \A x \in 1 .. k : b[x] \in Bit
        BY <1>1, <1>2, ElementOfSeq
      <4>2. k \in Int /\ 1 \in Int
        BY <1>1
      <4> QED BY <4>1, <4>2, <3>1, SubSeqProperties
    <3>3. SubSeq(b, 1, k + 1) = s \o e
      <4>1. PICK o, h : o = 1 /\ h = k + 1 /\ o \in 1 .. Len(b) /\ h \in o .. Len(b) /\ h - 1 = k
        BY <1>1, <1>2
      <4>2. SubSeq(b, o, h) = SubSeq(b, o, h - 1) \o <<b[h]>>
        BY <4>1, <1>2, SubSeqRecursiveSecond
      <4> QED BY <4>1, <4>2, <3>1
    <3>4. f \in Seq(Bit) /\ s \in Seq(Bit) /\ e \in Seq(Bit)
      BY <1>2, <3>1, <3>2
    <3>5. (f \o s) \o e = f \o (s \o e)
      BY <3>4, ConcatAssociative
    <3>6. f \o s \in Seq(Bit)
      BY <3>4, Joins
    <3>7. Append(f \o s, b[k + 1]) = (f \o s) \o e
      BY <3>1, <3>6, <1>2, AppendIsConcat
    <3>8. bits = f \o s
      BY <1>1, <1>7, <3>1
    <3> QED BY <2>2, <2>3, <3>1, <3>3, <3>5, <3>7, <3>8
  <2>5. PICK m \in 0 .. 2 : m = 2 /\ m = i + 1 /\ m + 1 = i + 2
    BY <1>7
  <2>6. todo' = SubSeq(ReadOps, m + 1, 3) \o (ReadsLeft(k + 1) \o AfterRead(j))
    BY <1>3, <1>4, <2>2, <2>5
  <2>7. AtReadBit(j, list, b, k, m)'
    <3>1. bits' = FlattenSeq(list) \o SubSeq(b, 1, IF m = 2 THEN k + 1 ELSE k)
      BY <2>4, <2>5
    <3>2. sda' = 1 /\ scl' = (IF m = 0 THEN 0 ELSE 1)
      BY <1>1, <1>7, <2>2, <2>5
    <3>3. device' = [mode |-> "send", first |-> FALSE,
                     bits |-> SubSeq(b, k + 1, ByteBits), sda |-> b[k + 1]]
      BY <1>1, <2>2
    <3> QED BY <3>1, <3>2, <3>3, <1>1, <1>5, <2>2, <2>6
  <2> QED BY <2>5, <2>7, <1>7
<1>8. CASE i = 2
  <2>1. Head(todo) = SCL(0)
    BY <1>4, <1>8, GroupElements
  <2>2. scl' = 0 /\ todo' = Tail(todo) /\ UNCHANGED <<call, acked, bits, sda>> /\ DeviceReacts
    BY <1>4, <2>1, DoScl
  <2>3. OnFalling
    <3>1. scl = 1
      BY <1>1, <1>8
    <3> QED BY <2>2, <3>1, FallSeen
  <2>4. /\ IF Len(device.bits) > 1
             THEN Becomes("send", Tail(device.bits), device.bits[2])
             ELSE Becomes("answered", <<>>, 1)
        /\ UNCHANGED <<got, sent>>
    <3>1. device.mode = "send"
      BY <1>1
    <3> QED BY <2>3, <3>1 DEF OnFalling
  <2>5. todo' = rest
    <3>1. PICK ops, n : ops = ReadOps /\ n = 3
      OBVIOUS
    <3>2. ops \in Seq(Op) /\ n \in Nat /\ n = Len(ops) /\ n + 1 = i + 2
      BY <3>1, <1>8, GroupElements, OperationTypes
    <3>3. SubSeq(ops, n + 1, n) \o rest = rest
      BY <3>2, <1>3, Done
    <3> QED BY <3>1, <3>2, <3>3, <1>4, <2>2
  <2>6. bits = FlattenSeq(list) \o SubSeq(b, 1, k + 1)
    BY <1>1, <1>8
  <2>7. Len(device.bits) = ByteBits - k
    <3>1. PICK h : h = k + 1 /\ h \in Int /\ ByteBits \in Int /\ h <= ByteBits
      BY <1>1, <1>2
    <3>2. \A x \in h .. ByteBits : b[x] \in Bit
      BY <1>1, <1>2, <3>1, ElementOfSeq
    <3>3. Len(SubSeq(b, h, ByteBits)) = IF h <= ByteBits THEN ByteBits - h + 1 ELSE 0
      BY <3>1, <3>2, SubSeqProperties
    <3>4. ByteBits - h + 1 = ByteBits - k
      BY <1>1, <1>2, <3>1
    <3>5. Len(SubSeq(b, h, ByteBits)) = ByteBits - k
      BY <3>1, <3>3, <3>4
    <3>6. device.bits = SubSeq(b, h, ByteBits)
      BY <1>1, <3>1
    <3> QED BY <3>5, <3>6
  <2>8. CASE k + 1 < ByteBits
    <3>1. PICK z, h : /\ z = 0 /\ h = k + 1 /\ h \in 0 .. ByteBits - 1 /\ z \in 0 .. 2 /\ z # 2
                      /\ z + 1 = 1
      BY <2>8, <1>1, <1>2
    <3>2. Len(device.bits) > 1
      BY <2>7, <2>8, <1>1, <1>2
    <3>3. Tail(device.bits) = SubSeq(b, h + 1, ByteBits) /\ device.bits[2] = b[h + 1]
      <4>1. PICK o, s, n : o = k + 1 /\ s = SubSeq(b, o, n) /\ n = ByteBits
        OBVIOUS
      <4>2. /\ o \in Int /\ n \in Int /\ o <= n /\ o \in 1 .. Len(b) /\ n \in o .. Len(b)
            /\ o + 1 = h + 1 /\ n - o + 1 >= 2 /\ o + 2 - 1 = h + 1
        BY <4>1, <1>1, <1>2, <2>8, <3>1
      <4>3. \A x \in o .. n : b[x] \in Bit
        BY <1>2, <4>1, <4>2, ElementOfSeq
      <4>4. \A x \in 1 .. n - o + 1 : SubSeq(b, o, n)[x] = b[o + x - 1]
        BY <4>2, <4>3, SubSeqProperties
      <4>5. s[2] = b[h + 1]
        BY <4>1, <4>2, <4>4
      <4>6. Tail(SubSeq(b, o, n)) = SubSeq(b, o + 1, n)
        BY <1>2, <4>2, HeadTailOfSubSeq
      <4>7. device.bits = s
        BY <1>1, <4>1
      <4> QED BY <4>1, <4>2, <4>5, <4>6, <4>7
    <3>4. device' = [mode |-> "send", first |-> FALSE,
                     bits |-> SubSeq(b, h + 1, ByteBits), sda |-> b[h + 1]]
      <4>1. Becomes("send", Tail(device.bits), device.bits[2])
        BY <2>4, <3>2
      <4> QED BY <4>1, <1>1, <3>3 DEF Becomes
    <3>5. todo' = SubSeq(ReadOps, z + 1, 3) \o (ReadsLeft(h + 1) \o AfterRead(j))
      <4>1. ReadsLeft(h) \o AfterRead(j) = SubSeq(ReadOps, 1, 3) \o (ReadsLeft(h + 1) \o AfterRead(j))
        BY <1>2, <3>1, UnfoldReads
      <4> QED BY <4>1, <1>3, <2>5, <3>1
    <3>6. AtReadBit(j, list, b, h, z)'
      <4>1. /\ bits' = FlattenSeq(list) \o SubSeq(b, 1, IF z = 2 THEN h + 1 ELSE h)
            /\ sda' = 1 /\ scl' = (IF z = 0 THEN 0 ELSE 1)
        BY <1>1, <2>2, <2>6, <3>1
      <4> QED BY <4>1, <1>5, <2>2, <2>4, <3>1, <3>4, <3>5
    <3> QED BY <3>1, <3>6, <2>8, <1>8
  <2>9. CASE ~(k + 1 < ByteBits)
    <3>1. k + 1 = ByteBits
      BY <2>9, <1>1, <1>2
    <3>2. device' = [mode |-> "answered", first |-> FALSE, bits |-> <<>>, sda |-> 1]
      <4>1. ~(Len(device.bits) > 1)
        BY <2>7, <3>1, <1>1, <1>2
      <4>2. Becomes("answered", <<>>, 1)
        BY <4>1, <2>4
      <4> QED BY <4>2, <1>1 DEF Becomes
    <3>3. todo' = AfterRead(j)
      BY <2>5, <1>2, <1>3, <3>1, UnfoldReads
    <3>4. bits' = FlattenSeq(sent')
      <4>1. SubSeq(b, 1, k + 1) = b
        BY <3>1, <1>2, SubSeqFull
      <4>2. FlattenSeq(sent) = FlattenSeq(list) \o b
        BY <1>1, ReadingFacts
      <4> QED BY <4>1, <4>2, <2>2, <2>4, <2>6
    <3>5. Reading(j, list, b)' /\ AfterRead(j)' = AfterRead(j)
      BY <1>1, <2>2, <2>4, ReadingKept
    <3>6. AfterRead(j) = SubSeq(answer_byte(call, j), 1, 3) \o (AnswersLeft(call, j) \o i2c_software_stop)
      <4>1. PICK v : v = (IF j = call.len THEN 1 ELSE 0)
        OBVIOUS
      <4>2. answer_byte(call, j) \in Seq(Op) /\ Len(answer_byte(call, j)) = 3
        BY <4>1, AnswerElements
      <4>3. SubSeq(answer_byte(call, j), 1, 3) = answer_byte(call, j)
        BY <4>2, SubSeqFull
      <4> QED BY <4>3 DEF AfterRead
    <3>7. PICK z : z = 0 /\ z + 1 = 1 /\ z # 2 /\ ~(z > 0)
      OBVIOUS
    <3>8. AtAnswer(j, list, b, z)'
      <4>1. call' = call /\ scl' = 0
        BY <2>2
      <4>2. todo' = SubSeq(answer_byte(call, j), z + 1, 3) \o (AnswersLeft(call, j) \o i2c_software_stop)
        BY <3>3, <3>6, <3>7
      <4> QED BY <4>1, <4>2, <3>2, <3>4, <3>5, <3>7 DEF AtAnswer, IsDevice
    <3> QED BY <3>7, <3>8, <2>9, <1>8
  <2> QED BY <2>8, <2>9
<1> QED BY <1>6, <1>7, <1>8

\* The master's answer: an acknowledgement, and the device begins its next byte, or
\* none, and the stop comes.
LEMMA AnswerSteps ==
  ASSUME I2cTypes, NEW j, NEW list, NEW b, NEW i \in 0 .. 2, AtAnswer(j, list, b, i), Operation
  PROVE  \/ i < 2 /\ AtAnswer(j, list, b, i + 1)'
         \/ AtStop(0)'
         \/ \E s \in Seq(Byte), e \in Byte : AtRead(j + 1, s, e)'
<1>0. PICK v : v = (IF j = call.len THEN 1 ELSE 0)
  OBVIOUS
<1>1. /\ Reading(j, list, b) /\ bits = FlattenSeq(sent)
      /\ todo = SubSeq(answer_byte(call, j), i + 1, 3) \o (AnswersLeft(call, j) \o i2c_software_stop)
      /\ scl = (IF i = 2 THEN 1 ELSE 0) /\ (i > 0 => sda = v)
      /\ device = [mode |-> "answered", first |-> FALSE, bits |-> IF i = 2 THEN <<v>> ELSE <<>>, sda |-> 1]
  BY <1>0 DEF AtAnswer, IsDevice
<1>2. /\ call \in Transfers /\ call.op = "read" /\ call.len \in Nat
      /\ j \in 0 .. call.len /\ j \in 1 .. call.len
  BY <1>1, ReadingFacts DEF Reading
<1>3. PICK rest \in Seq(Op) : rest = AnswersLeft(call, j) \o i2c_software_stop
  BY <1>2, AnswerBegins
<1>4. /\ answer_byte(call, j) \in Seq(Op) /\ Len(answer_byte(call, j)) = 3
      /\ answer_byte(call, j)[1] = SDA(v)
      /\ answer_byte(call, j)[2] = SCL(1) /\ answer_byte(call, j)[3] = SCL(0)
  BY <1>0, AnswerElements
<1>5. /\ todo # <<>> /\ Head(todo) = answer_byte(call, j)[i + 1]
      /\ Tail(todo) = SubSeq(answer_byte(call, j), i + 2, 3) \o rest
  <2>1. PICK ops, n : ops = answer_byte(call, j) /\ n = 3
    OBVIOUS
  <2>2. ops \in Seq(Op) /\ n \in Nat /\ n = Len(ops) /\ i \in 0 .. n - 1 /\ rest \in Seq(Op)
    BY <1>3, <2>1, <1>4
  <2>3. /\ SubSeq(ops, i + 1, n) \o rest # <<>>
        /\ Head(SubSeq(ops, i + 1, n) \o rest) = ops[i + 1]
        /\ Tail(SubSeq(ops, i + 1, n) \o rest) = SubSeq(ops, i + 2, n) \o rest
    BY <2>2, Doing
  <2> QED BY <1>1, <1>3, <2>1, <2>3
<1>6. ASSUME NEW m \in 1 .. 2, m + 1 = i + 2, UNCHANGED <<call, acked, bits, got, sent>>,
             todo' = Tail(todo), scl' = (IF m = 2 THEN 1 ELSE 0), sda' = v,
             device' = [mode |-> "answered", first |-> FALSE,
                        bits |-> IF m = 2 THEN <<v>> ELSE <<>>, sda |-> 1]
      PROVE  AtAnswer(j, list, b, m)'
  <2>1. Reading(j, list, b)'
    BY <1>1, <1>6, ReadingKept
  <2>2. todo' = SubSeq(answer_byte(call, j), m + 1, 3) \o (AnswersLeft(call, j) \o i2c_software_stop)
    BY <1>3, <1>5, <1>6
  <2> QED BY <2>1, <2>2, <1>0, <1>1, <1>6 DEF AtAnswer, IsDevice
<1>7. CASE i = 0
  <2>1. Head(todo) = SDA(v)
    BY <1>4, <1>5, <1>7
  <2>2. sda' = v /\ todo' = Tail(todo) /\ UNCHANGED <<call, acked, bits, scl>> /\ DeviceReacts
    BY <1>5, <2>1, DoSda
  <2>3. scl = 0
    BY <1>1, <1>7
  <2>4. UNCHANGED <<device, got, sent>>
    BY <2>2, <2>3, Quiet
  <2>5. PICK m \in 1 .. 2 : m = 1 /\ m = i + 1 /\ m + 1 = i + 2
    BY <1>7
  <2>6. AtAnswer(j, list, b, m)'
    <3>1. /\ scl' = (IF m = 2 THEN 1 ELSE 0)
          /\ device' = [mode |-> "answered", first |-> FALSE,
                        bits |-> IF m = 2 THEN <<v>> ELSE <<>>, sda |-> 1]
      BY <1>1, <1>7, <2>2, <2>3, <2>4, <2>5
    <3> QED BY <3>1, <1>6, <2>2, <2>4, <2>5
  <2> QED BY <2>5, <2>6, <1>7
<1>8. CASE i = 1
  <2>1. Head(todo) = SCL(1)
    BY <1>4, <1>5, <1>8
  <2>2. scl' = 1 /\ todo' = Tail(todo) /\ UNCHANGED <<call, acked, bits, sda>> /\ DeviceReacts
    BY <1>5, <2>1, DoScl
  <2>3. scl = 0 /\ sda = v
    BY <1>1, <1>8
  <2>4. OnRising /\ UNCHANGED <<got, sent>>
    BY <2>2, <2>3, RiseSeen
  <2>5. device' = [mode |-> "answered", first |-> FALSE, bits |-> <<v>>, sda |-> 1]
    <3>1. device = [mode |-> "answered", first |-> FALSE, bits |-> <<>>, sda |-> 1]
      BY <1>1, <1>8
    <3>2. read_sda = v
      BY <3>1, <2>3, <1>0 DEF read_sda, Line
    <3>3. device' = [device EXCEPT !.bits = Append(device.bits, read_sda)]
      BY <3>1, <2>4 DEF OnRising
    <3>4. Append(<<>>, v) = <<v>>
      OBVIOUS
    <3> QED BY <3>1, <3>2, <3>3, <3>4
  <2>6. PICK m \in 1 .. 2 : m = 2 /\ m = i + 1 /\ m + 1 = i + 2
    BY <1>8
  <2>7. AtAnswer(j, list, b, m)'
    <3>1. /\ scl' = (IF m = 2 THEN 1 ELSE 0) /\ sda' = v
          /\ device' = [mode |-> "answered", first |-> FALSE,
                        bits |-> IF m = 2 THEN <<v>> ELSE <<>>, sda |-> 1]
      BY <2>2, <2>3, <2>5, <2>6
    <3> QED BY <3>1, <1>6, <2>2, <2>4, <2>6
  <2> QED BY <2>6, <2>7, <1>8
<1>9. CASE i = 2
  <2>1. Head(todo) = SCL(0)
    BY <1>4, <1>5, <1>9
  <2>2. scl' = 0 /\ todo' = Tail(todo) /\ UNCHANGED <<call, acked, bits, sda>> /\ DeviceReacts
    BY <1>5, <2>1, DoScl
  <2>3. OnFalling
    <3>1. scl = 1
      BY <1>1, <1>9
    <3> QED BY <2>2, <3>1, FallSeen
  <2>4. device = [mode |-> "answered", first |-> FALSE, bits |-> <<v>>, sda |-> 1]
    BY <1>1, <1>9
  <2>5. /\ IF v = 0 THEN Sends ELSE Becomes("idle", <<>>, 1) /\ UNCHANGED sent
        /\ UNCHANGED got
    <3>1. device.mode = "answered" /\ (device.bits = <<0>> <=> v = 0)
      BY <2>4
    <3>2. /\ IF device.bits = <<0>> THEN Sends ELSE Becomes("idle", <<>>, 1) /\ UNCHANGED sent
          /\ UNCHANGED got
      BY <3>1, <2>3 DEF OnFalling
    <3> QED BY <3>1, <3>2
  <2>6. todo' = rest
    <3>1. PICK ops, n : ops = answer_byte(call, j) /\ n = 3
      OBVIOUS
    <3>2. ops \in Seq(Op) /\ n \in Nat /\ n = Len(ops) /\ n + 1 = i + 2
      BY <3>1, <1>4, <1>9
    <3>3. SubSeq(ops, n + 1, n) \o rest = rest
      BY <3>2, <1>3, Done
    <3> QED BY <3>1, <3>2, <3>3, <1>5, <2>2
  <2>7. CASE j = call.len
    <3>1. device' = [mode |-> "idle", first |-> FALSE, bits |-> <<>>, sda |-> 1] /\ UNCHANGED <<got, sent>>
      <4>1. v # 0
        BY <1>0, <2>7
      <4>2. Becomes("idle", <<>>, 1) /\ UNCHANGED <<got, sent>>
        BY <4>1, <2>5
      <4> QED BY <4>2, <2>4 DEF Becomes
    <3>2. todo' = i2c_software_stop
      BY <1>2, <1>3, <2>6, <2>7, AnswerBegins
    <3>3. SubSeq(i2c_software_stop, 1, 3) = i2c_software_stop
      BY SubSeqFull, OperationTypes, GroupElements
    <3>4. Transferred'
      <4>1. Len(sent) = call.len
        <5>1. list \in Seq(Byte) /\ b \in Byte /\ Len(list) = j - 1 /\ sent = Append(list, b)
          BY <1>1 DEF Reading
        <5>2. Len(Append(list, b)) = Len(list) + 1
          BY <5>1, AppendProperties
        <5> QED BY <5>1, <5>2, <1>2, <2>7
      <4>2. call.op # "write" /\ got = BytesOf(call, 1) \o BytesOf(call, 2)
        BY <1>1 DEF Reading
      <4> QED BY <4>1, <4>2, <1>1, <2>2, <3>1 DEF Transferred
    <3>5. PICK z : z = 0 /\ z + 1 = 1 /\ z # 2 /\ ~(z > 0)
      OBVIOUS
    <3>6. AtStop(z)'
      <4>1. acked' = TRUE /\ scl' = 0 /\ todo' = SubSeq(i2c_software_stop, z + 1, 3)
        BY <1>1, <2>2, <3>2, <3>3, <3>5 DEF Reading
      <4>2. device'.mode = "idle" /\ device'.sda = 1
        BY <3>1
      <4> QED BY <4>1, <4>2, <3>4, <3>5 DEF AtStop
    <3> QED BY <3>5, <3>6
  <2>8. CASE j # call.len
    <3>1. PICK e \in Byte : /\ device' = [mode |-> "send", first |-> FALSE, bits |-> e, sda |-> Head(e)]
                            /\ sent' = Append(sent, e)
      BY <1>0, <2>5, <2>8 DEF Sends
    <3>2. Head(e) = e[1]
      <4>1. e \in Seq(Bit) /\ Len(e) >= 2
        BY <3>1, I2cNumbers
      <4> QED BY <4>1
    <3>3. PICK h : h = j + 1 /\ h \in 1 .. call.len /\ h - 1 = j /\ j < call.len
      BY <1>2, <2>8
    <3>4. todo' = <<SDA(1)>> \o (ReadsLeft(0) \o AfterRead(h))
      <4>1. AnswersLeft(call, j) \o i2c_software_stop
              = <<SDA(1)>> \o (ReadsLeft(0) \o (answer_byte(call, j + 1)
                                                  \o (AnswersLeft(call, j + 1) \o i2c_software_stop)))
        BY <1>2, <3>3, AnswerBegins
      <4> QED BY <4>1, <1>3, <2>6, <3>3 DEF AfterRead
    <3>5. AfterRead(h)' = AfterRead(h)
      BY <2>2 DEF AfterRead
    <3>6. sent \in Seq(Byte) /\ Len(sent) = h - 1
      <4>1. list \in Seq(Byte) /\ b \in Byte /\ Len(list) = j - 1 /\ sent = Append(list, b)
        BY <1>1 DEF Reading
      <4>2. Append(list, b) \in Seq(Byte) /\ Len(Append(list, b)) = Len(list) + 1
        BY <4>1, AppendProperties
      <4> QED BY <4>1, <4>2, <1>2, <3>3
    <3>8. PICK s \in Seq(Byte) : s = sent
      BY <3>6
    <3>9. AtRead(h, s, e)'
      <4>1. acked' = acked /\ call' = call /\ got' = got /\ scl' = 0 /\ bits' = FlattenSeq(s)
        BY <1>1, <2>2, <2>5, <3>8
      <4>2. Reading(h, s, e)'
        BY <4>1, <1>1, <3>1, <3>3, <3>6, <3>8 DEF Reading
      <4>3. device' = [mode |-> "send", first |-> FALSE, bits |-> e, sda |-> e[1]]
        BY <3>1, <3>2
      <4> QED BY <4>1, <4>2, <4>3, <3>4, <3>5 DEF AtRead, IsDevice
    <3> QED BY <3>1, <3>3, <3>8, <3>9
  <2> QED BY <2>7, <2>8
<1> QED BY <1>7, <1>8, <1>9

-----------------------------------------------------------------------------
(* The whole *)

\* At every place but rest something is left to do.
LEMMA RestIsIdle ==
  ASSUME I2cTypes, AtPlace, todo = <<>>
  PROVE  AtRest
<1>1. ASSUME NEW ops \in Seq(Op), NEW rest \in Seq(Op), NEW n \in Nat, n = Len(ops), NEW i \in 0 .. n - 1
      PROVE  SubSeq(ops, i + 1, n) \o rest # <<>>
  BY <1>1, Doing
<1>2. ASSUME NEW i \in 0 .. 5, AtFailure(i) PROVE FALSE
  <2>1. PICK ops, n : ops = TwoStops /\ n = 6
    OBVIOUS
  <2>2. ops \in Seq(Op) /\ n = Len(ops) /\ n \in Nat /\ i \in 0 .. n - 1
    BY <2>1, TwoStopsElements
  <2>3. SubSeq(ops, i + 1, n) # <<>>
    BY <2>2, DoingLast
  <2> QED BY <1>2, <2>1, <2>3 DEF AtFailure, TwoStops
<1>3. ASSUME NEW i \in 0 .. 2, AtStop(i) PROVE FALSE
  <2>1. PICK ops, n : ops = i2c_software_stop /\ n = 3
    OBVIOUS
  <2>2. ops \in Seq(Op) /\ n = Len(ops) /\ n \in Nat /\ i \in 0 .. n - 1
    BY <2>1, GroupElements, OperationTypes
  <2>3. SubSeq(ops, i + 1, n) # <<>>
    BY <2>2, DoingLast
  <2> QED BY <1>3, <2>1, <2>3 DEF AtStop
<1>4. ASSUME NEW p \in Parts(call), NEW i \in 0 .. 3, AtStart(p, i) PROVE FALSE
  <2>1. PICK ops, n, rest : /\ ops = i2c_software_start /\ n = 4
                            /\ rest = BytesLeft(BytesOf(call, p), 0) \o After(call, p)
    OBVIOUS
  <2>2. rest \in Seq(Op)
    <3>1. call \in Transfers /\ p \in {1, 2}
      BY AfterType DEF I2cTypes
    <3>2. 0 \in 0 .. Len(BytesOf(call, p))
      BY <3>1, BytesOfFacts
    <3> QED BY <3>1, <3>2, <2>1, AfterByteType
  <2>3. ops \in Seq(Op) /\ n = Len(ops) /\ n \in Nat /\ i \in 0 .. n - 1
    BY <2>1, GroupElements, OperationTypes
  <2>4. SubSeq(ops, i + 1, n) \o rest # <<>>
    BY <1>1, <2>2, <2>3
  <2> QED BY <1>4, <2>1, <2>4 DEF AtStart
<1>5. ASSUME NEW p \in Parts(call), NEW j, AtByte(p, j)
      PROVE  /\ call \in Transfers /\ AfterByte(p, j) \in Seq(Op) /\ BytesOf(call, p)[j] \in Octet
             /\ i2c_software_wait_ack \o AfterByte(p, j) \in Seq(Op)
  <2>1. call \in Transfers /\ p \in {1, 2} /\ j \in 1 .. Len(BytesOf(call, p))
    BY <1>5, AfterType DEF I2cTypes, AtByte
  <2>2. j \in 0 .. Len(BytesOf(call, p)) /\ BytesOf(call, p)[j] \in Octet
    BY <2>1, BytesOfFacts
  <2> QED BY <2>1, <2>2, AfterByteType DEF AfterByte
<1>6. ASSUME NEW p \in Parts(call), NEW j, NEW k, NEW i \in 0 .. 2, AtBit(p, j, k, i) PROVE FALSE
  <2>1. PICK byte : byte = BytesOf(call, p)[j]
    OBVIOUS
  <2>2. /\ AtByte(p, j) /\ k \in 0 .. ByteBits - 1
        /\ todo = SubSeq(BitOps(byte[k + 1]), i + 1, 3)
                    \o (BitsLeft(byte, k + 1) \o (i2c_software_wait_ack \o AfterByte(p, j)))
    BY <1>6, <2>1 DEF AtBit
  <2>3. PICK after \in Seq(Op) : after = i2c_software_wait_ack \o AfterByte(p, j)
    BY <1>5, <2>2
  <2>4. byte \in Octet /\ k + 1 \in 0 .. ByteBits /\ k + 1 \in 1 .. ByteBits
    BY <1>5, <2>1, <2>2, I2cNumbers
  <2>5. PICK ops, n, rest : ops = BitOps(byte[k + 1]) /\ n = 3 /\ rest = BitsLeft(byte, k + 1) \o after
    OBVIOUS
  <2>6. ops \in Seq(Op) /\ n = Len(ops) /\ n \in Nat /\ i \in 0 .. n - 1
    BY <2>4, <2>5, GroupElements, OperationTypes, I2cNumbers
  <2>7. rest \in Seq(Op)
    BY <2>3, <2>4, <2>5, UnfoldBits
  <2>8. SubSeq(ops, i + 1, n) \o rest # <<>>
    BY <1>1, <2>6, <2>7
  <2> QED BY <2>2, <2>3, <2>5, <2>8
<1>7. ASSUME NEW p \in Parts(call), NEW j, NEW i \in 0 .. 3, AtAck(p, j, i) PROVE FALSE
  <2>1. AtByte(p, j) /\ todo = SubSeq(i2c_software_wait_ack, i + 1, 4) \o AfterByte(p, j)
    BY <1>7 DEF AtAck
  <2>2. PICK ops, n, rest : ops = i2c_software_wait_ack /\ n = 4 /\ rest = AfterByte(p, j)
    OBVIOUS
  <2>3. ops \in Seq(Op) /\ n = Len(ops) /\ n \in Nat /\ i \in 0 .. n - 1
    BY <2>2, GroupElements, OperationTypes
  <2>4. rest \in Seq(Op)
    BY <1>5, <2>1, <2>2
  <2>5. SubSeq(ops, i + 1, n) \o rest # <<>>
    BY <1>1, <2>3, <2>4
  <2> QED BY <2>1, <2>2, <2>5
<1>8. ASSUME NEW j, NEW list, NEW b, AtRead(j, list, b) PROVE FALSE
  <2>1. AfterRead(j) \in Seq(Op)
    BY <1>8, ReadingFacts DEF AtRead
  <2>2. 0 \in 0 .. ByteBits
    BY I2cNumbers
  <2>3. PICK t \in Seq(Op), e \in Op : t = ReadsLeft(0) \o AfterRead(j) /\ e = SDA(1)
    <3>1. ReadsLeft(0) \o AfterRead(j) \in Seq(Op)
      BY <2>1, <2>2, UnfoldReads
    <3>2. SDA(1) \in Op
      BY OperationTypes DEF Bit
    <3> QED BY <3>1, <3>2
  <2>4. <<e>> \o t # <<>>
    BY <2>3, FirstOfRest
  <2> QED BY <1>8, <2>3, <2>4 DEF AtRead
<1>9. ASSUME NEW j, NEW list, NEW b, NEW k, NEW i \in 0 .. 2, AtReadBit(j, list, b, k, i) PROVE FALSE
  <2>1. /\ AfterRead(j) \in Seq(Op) /\ k \in 0 .. ByteBits - 1
        /\ todo = SubSeq(ReadOps, i + 1, 3) \o (ReadsLeft(k + 1) \o AfterRead(j))
    BY <1>9, ReadingFacts DEF AtReadBit
  <2>2. k + 1 \in 0 .. ByteBits
    BY <2>1, I2cNumbers
  <2>3. PICK ops, n, rest : ops = ReadOps /\ n = 3 /\ rest = ReadsLeft(k + 1) \o AfterRead(j)
    OBVIOUS
  <2>4. ops \in Seq(Op) /\ n = Len(ops) /\ n \in Nat /\ i \in 0 .. n - 1
    BY <2>3, GroupElements, OperationTypes
  <2>5. rest \in Seq(Op)
    BY <2>1, <2>2, <2>3, UnfoldReads
  <2>6. SubSeq(ops, i + 1, n) \o rest # <<>>
    BY <1>1, <2>4, <2>5
  <2> QED BY <2>1, <2>3, <2>6
<1>10. ASSUME NEW j, NEW list, NEW b, NEW i \in 0 .. 2, AtAnswer(j, list, b, i) PROVE FALSE
  <2>1. /\ Reading(j, list, b)
        /\ todo = SubSeq(answer_byte(call, j), i + 1, 3) \o (AnswersLeft(call, j) \o i2c_software_stop)
    BY <1>10 DEF AtAnswer
  <2>2. call \in Transfers /\ call.op = "read" /\ j \in 0 .. call.len
    BY <2>1, ReadingFacts DEF Reading
  <2>3. PICK ops, n, rest, v : /\ ops = answer_byte(call, j) /\ n = 3
                               /\ rest = AnswersLeft(call, j) \o i2c_software_stop
                               /\ v = IF j = call.len THEN 1 ELSE 0
    OBVIOUS
  <2>4. ops \in Seq(Op) /\ n = Len(ops) /\ n \in Nat /\ i \in 0 .. n - 1
    BY <2>3, AnswerElements
  <2>5. rest \in Seq(Op)
    BY <2>2, <2>3, AnswerBegins
  <2>6. SubSeq(ops, i + 1, n) \o rest # <<>>
    BY <1>1, <2>4, <2>5
  <2> QED BY <2>1, <2>3, <2>6
<1> QED BY <1>2, <1>3, <1>4, <1>6, <1>7, <1>8, <1>9, <1>10 DEF AtPlace


\* An operation leads from a place to a place.
LEMMA OperationKeepsPlace ==
  ASSUME I2cTypes, AtPlace, Operation
  PROVE  AtPlace'
<1>0. todo # <<>>
  BY DEF Operation, write_sda, write_scl, ReadBit, WaitAck, AtOperation
<1>1. call' = call /\ Parts(call)' = Parts(call) /\ call \in Transfers
  BY DEF Operation, write_sda, write_scl, ReadBit, WaitAck, I2cTypes
<1>2. /\ 0 \in Nat /\ 1 \in Nat /\ \A j \in Nat : j + 1 \in Nat
      /\ 0 \in 0 .. 5 /\ 0 \in 0 .. 2 /\ 0 \in 0 .. 3 /\ <<>> \in Seq(Byte)
  OBVIOUS
<1>3. ASSUME AtRest PROVE FALSE
  BY <1>0, <1>3 DEF AtRest
<1>4. ASSUME NEW i \in 0 .. 5, AtFailure(i) PROVE AtPlace'
  <2>1. IF i < 5 THEN AtFailure(i + 1)' ELSE AtRest'
    BY <1>4, FailureSteps
  <2>2. i < 5 => i + 1 \in 0 .. 5
    OBVIOUS
  <2> QED BY <2>1, <2>2 DEF AtPlace
<1>5. ASSUME NEW i \in 0 .. 2, AtStop(i) PROVE AtPlace'
  <2>1. IF i < 2 THEN AtStop(i + 1)' ELSE AtRest'
    BY <1>5, StopSteps
  <2>2. i < 2 => i + 1 \in 0 .. 2
    OBVIOUS
  <2> QED BY <2>1, <2>2 DEF AtPlace
<1>6. ASSUME NEW p \in Parts(call), NEW i \in 0 .. 3, AtStart(p, i) PROVE AtPlace'
  <2>1. IF i < 3 THEN AtStart(p, i + 1)' ELSE AtBit(p, 1, 0, 0)'
    BY <1>6, StartSteps
  <2>2. i < 3 => i + 1 \in 0 .. 3
    OBVIOUS
  <2>3. CASE i < 3
    BY <2>1, <2>2, <2>3, <1>1 DEF AtPlace
  <2>4. CASE ~(i < 3)
    <3>1. PICK j \in Nat, k \in Nat, m \in 0 .. 2 : j = 1 /\ k = 0 /\ m = 0
      OBVIOUS
    <3>2. AtBit(p, j, k, m)'
      BY <2>1, <2>4, <3>1
    <3> QED BY <3>1, <3>2, <1>1 DEF AtPlace
  <2> QED BY <2>3, <2>4
<1>7. ASSUME NEW p \in Parts(call), NEW j \in Nat, NEW k \in Nat, NEW i \in 0 .. 2, AtBit(p, j, k, i)
      PROVE  AtPlace'
  <2>1. (CASE i < 2 -> AtBit(p, j, k, i + 1)'
          [] i = 2 /\ k + 1 < ByteBits -> AtBit(p, j, k + 1, 0)'
          [] OTHER -> AtAck(p, j, 0)')
    BY <1>7, BitSteps
  <2>2. CASE i < 2
    <3>1. PICK m \in 0 .. 2 : m = i + 1
      BY <2>2
    <3>2. AtBit(p, j, k, m)'
      BY <2>1, <2>2, <3>1
    <3> QED BY <3>1, <3>2, <1>1 DEF AtPlace
  <2>3. CASE ~(i < 2) /\ i = 2 /\ k + 1 < ByteBits
    <3>1. PICK h \in Nat, m \in 0 .. 2 : h = k + 1 /\ m = 0
      OBVIOUS
    <3>2. AtBit(p, j, h, m)'
      BY <2>1, <2>3, <3>1
    <3> QED BY <3>1, <3>2, <1>1 DEF AtPlace
  <2>4. CASE ~(i < 2) /\ ~(i = 2 /\ k + 1 < ByteBits)
    <3>1. PICK m \in 0 .. 3 : m = 0
      OBVIOUS
    <3>2. AtAck(p, j, m)'
      BY <2>1, <2>4, <3>1
    <3> QED BY <3>1, <3>2, <1>1 DEF AtPlace
  <2> QED BY <2>2, <2>3, <2>4
<1>8. ASSUME NEW p \in Parts(call), NEW j \in Nat, NEW i \in 0 .. 3, AtAck(p, j, i) PROVE AtPlace'
  <2>1. CASE i = 3
    <3>1. \/ AtBit(p, j + 1, 0, 0)' \/ AtStop(0)'
          \/ call.op = "read" /\ AtStart(2, 0)'
          \/ \E b \in Byte : AtRead(1, <<>>, b)'
      BY <1>8, <2>1, AckDone
    <3>2. CASE AtBit(p, j + 1, 0, 0)'
      <4>1. PICK h \in Nat, k \in Nat, m \in 0 .. 2 : h = j + 1 /\ k = 0 /\ m = 0
        OBVIOUS
      <4>2. AtBit(p, h, k, m)'
        BY <3>2, <4>1
      <4> QED BY <4>1, <4>2, <1>1 DEF AtPlace
    <3>3. CASE AtStop(0)'
      BY <3>3, <1>2 DEF AtPlace
    <3>4. CASE call.op = "read" /\ AtStart(2, 0)'
      <4>1. PICK q \in Parts(call), m \in 0 .. 3 : q = 2 /\ m = 0
        BY <3>4 DEF Parts
      <4>2. AtStart(q, m)'
        BY <3>4, <4>1
      <4> QED BY <4>1, <4>2, <1>1 DEF AtPlace
    <3>5. CASE \E b \in Byte : AtRead(1, <<>>, b)'
      <4>1. PICK b \in Byte, h \in Nat, s \in Seq(Byte) : AtRead(h, s, b)'
        BY <3>5, <1>2
      <4> QED BY <4>1 DEF AtPlace
    <3> QED BY <3>1, <3>2, <3>3, <3>4, <3>5
  <2>2. CASE i \in 0 .. 2
    <3>1. AtAck(p, j, i + 1)' \/ AtAck(p, j, i)' \/ AtFailure(0)'
      BY <1>8, <2>2, AckSteps
    <3>2. PICK m \in 0 .. 3 : m = i + 1
      BY <2>2
    <3>3. AtAck(p, j, m)' \/ AtAck(p, j, i)' \/ AtFailure(0)'
      BY <3>1, <3>2
    <3>4. ASSUME NEW h \in 0 .. 3, AtAck(p, j, h)' PROVE AtPlace'
      BY <3>4, <1>1 DEF AtPlace
    <3>5. ASSUME AtFailure(0)' PROVE AtPlace'
      BY <3>5, <1>2 DEF AtPlace
    <3> QED BY <3>2, <3>3, <3>4, <3>5
  <2> QED BY <2>1, <2>2
<1>9. ASSUME NEW j \in Nat, NEW list \in Seq(Byte), NEW b \in Byte, AtRead(j, list, b) PROVE AtPlace'
  <2>1. AtReadBit(j, list, b, 0, 0)'
    BY <1>9, ReadSteps
  <2>2. PICK k \in Nat, m \in 0 .. 2 : k = 0 /\ m = 0
    OBVIOUS
  <2>3. AtReadBit(j, list, b, k, m)'
    BY <2>1, <2>2
  <2> QED BY <2>2, <2>3 DEF AtPlace
<1>10. ASSUME NEW j \in Nat, NEW list \in Seq(Byte), NEW b \in Byte, NEW k \in Nat, NEW i \in 0 .. 2,
              AtReadBit(j, list, b, k, i)
       PROVE  AtPlace'
  <2>1. (CASE i < 2 -> AtReadBit(j, list, b, k, i + 1)'
          [] i = 2 /\ k + 1 < ByteBits -> AtReadBit(j, list, b, k + 1, 0)'
          [] OTHER -> AtAnswer(j, list, b, 0)')
    BY <1>10, ReadBitSteps
  <2>2. CASE i < 2
    <3>1. PICK m \in 0 .. 2 : m = i + 1
      BY <2>2
    <3>2. AtReadBit(j, list, b, k, m)'
      BY <2>1, <2>2, <3>1
    <3> QED BY <3>1, <3>2 DEF AtPlace
  <2>3. CASE ~(i < 2) /\ i = 2 /\ k + 1 < ByteBits
    <3>1. PICK h \in Nat, m \in 0 .. 2 : h = k + 1 /\ m = 0
      OBVIOUS
    <3>2. AtReadBit(j, list, b, h, m)'
      BY <2>1, <2>3, <3>1
    <3> QED BY <3>1, <3>2 DEF AtPlace
  <2>4. CASE ~(i < 2) /\ ~(i = 2 /\ k + 1 < ByteBits)
    <3>1. PICK m \in 0 .. 2 : m = 0
      OBVIOUS
    <3>2. AtAnswer(j, list, b, m)'
      BY <2>1, <2>4, <3>1
    <3> QED BY <3>1, <3>2 DEF AtPlace
  <2> QED BY <2>2, <2>3, <2>4
<1>11. ASSUME NEW j \in Nat, NEW list \in Seq(Byte), NEW b \in Byte, NEW i \in 0 .. 2,
              AtAnswer(j, list, b, i)
       PROVE  AtPlace'
  <2>1. \/ i < 2 /\ AtAnswer(j, list, b, i + 1)'
        \/ AtStop(0)'
        \/ \E s \in Seq(Byte), e \in Byte : AtRead(j + 1, s, e)'
    BY <1>11, AnswerSteps
  <2>2. ASSUME i < 2, AtAnswer(j, list, b, i + 1)' PROVE AtPlace'
    <3>1. PICK m \in 0 .. 2 : m = i + 1
      BY <2>2
    <3>2. AtAnswer(j, list, b, m)'
      BY <2>2, <3>1
    <3> QED BY <3>1, <3>2 DEF AtPlace
  <2>3. ASSUME AtStop(0)' PROVE AtPlace'
    BY <2>3, <1>2 DEF AtPlace
  <2>4. ASSUME NEW s \in Seq(Byte), NEW e \in Byte, AtRead(j + 1, s, e)' PROVE AtPlace'
    <3>1. PICK h \in Nat : h = j + 1
      OBVIOUS
    <3>2. AtRead(h, s, e)'
      BY <2>4, <3>1
    <3> QED BY <3>1, <3>2 DEF AtPlace
  <2> QED BY <2>1, <2>2, <2>3, <2>4
<1> QED BY <1>3, <1>4, <1>5, <1>6, <1>7, <1>8, <1>9, <1>10, <1>11 DEF AtPlace

\* A call begins on a free bus.
LEMMA BeginsAtStart ==
  ASSUME I2cTypes, AtPlace, NEW c \in Transfers, Begin(c)
  PROVE  AtPlace'
<1>1. AtRest
  BY RestIsIdle DEF Begin
<1>2. /\ call' = c /\ acked' = TRUE /\ bits' = <<>> /\ got' = <<>> /\ sent' = <<>>
      /\ UNCHANGED <<sda, scl, device>>
      /\ todo' = i2c_software_start \o (BytesLeft(BytesOf(c, 1), 0) \o After(c, 1))
  BY ProgramIs DEF Begin
<1>3. PICK p \in Parts(c), z \in 0 .. 3 : p = 1 /\ z = 0 /\ z + 1 = 1 /\ z # 1 /\ z # 2 /\ z # 3
  BY DEF Parts
<1>4. todo' = SubSeq(i2c_software_start, z + 1, 4) \o (BytesLeft(BytesOf(c, p), 0) \o After(c, p))
  <2>1. SubSeq(i2c_software_start, 1, 4) = i2c_software_start
    BY SubSeqFull, OperationTypes, GroupElements
  <2> QED BY <2>1, <1>2, <1>3
<1>5. device.mode = "idle" /\ device.sda = 1 /\ sda = 1 /\ scl = 1
  BY <1>1 DEF AtRest
<1>6. GotBefore(c, p) = <<>>
  BY <1>3 DEF GotBefore
<1>7. AtStart(p, z)'
  BY <1>2, <1>3, <1>4, <1>5, <1>6 DEF AtStart, Untouched
<1>8. Parts(call)' = Parts(c)
  BY <1>2
<1> QED BY <1>3, <1>7, <1>8 DEF AtPlace

LEMMA LateAnswerKeepsPlace ==
  ASSUME I2cTypes, AtPlace, LateAnswer
  PROVE  AtPlace'
<1>1. device.mode = "late" /\ call' = call
  BY DEF LateAnswer, masterVars
<1>2. ASSUME AtRest PROVE FALSE
  BY <1>1, <1>2 DEF AtRest
<1>3. ASSUME NEW i \in 0 .. 5, AtFailure(i) PROVE FALSE
  <2>1. device.mode \in {"deaf", "idle", "listen"}
    BY <1>3 DEF AtFailure
  <2> QED BY <1>1, <2>1
<1>4. ASSUME NEW i \in 0 .. 2, AtStop(i) PROVE FALSE
  BY <1>1, <1>4 DEF AtStop
<1>5. ASSUME NEW p, NEW i, AtStart(p, i) PROVE FALSE
  BY <1>1, <1>5 DEF AtStart
<1>6. ASSUME NEW p, NEW j, NEW k, NEW i, AtBit(p, j, k, i) PROVE FALSE
  BY <1>1, <1>6 DEF AtBit, IsDevice
<1>7. ASSUME NEW j, NEW list, NEW b, AtRead(j, list, b) PROVE FALSE
  BY <1>1, <1>7 DEF AtRead, IsDevice
<1>8. ASSUME NEW j, NEW list, NEW b, NEW k, NEW i, AtReadBit(j, list, b, k, i) PROVE FALSE
  BY <1>1, <1>8 DEF AtReadBit, IsDevice
<1>9. ASSUME NEW j, NEW list, NEW b, NEW i, AtAnswer(j, list, b, i) PROVE FALSE
  BY <1>1, <1>9 DEF AtAnswer, IsDevice
<1>10. PICK p \in Parts(call), j \in Nat, i \in 0 .. 3 : AtAck(p, j, i)
  BY <1>2, <1>3, <1>4, <1>5, <1>6, <1>7, <1>8, <1>9 DEF AtPlace
<1>11. AtAck(p, j, i)'
  BY <1>10, LateAnswers
<1> QED BY <1>1, <1>10, <1>11 DEF AtPlace

LEMMA PlaceStutters ==
  ASSUME AtPlace, UNCHANGED i2cVars
  PROVE  AtPlace'
<1>1. UNCHANGED <<call, todo, acked, bits, sda, scl, device, got, sent>>
  BY DEF i2cVars, masterVars, busVars
<1>2. AtRest' = AtRest /\ \A i : AtFailure(i)' = AtFailure(i) /\ AtStop(i)' = AtStop(i)
  BY <1>1 DEF AtRest, AtFailure, AtStop, Transferred
<1>3. ASSUME NEW p, NEW i, AtStart(p, i) PROVE AtStart(p, i)'
  BY <1>1, <1>3 DEF AtStart, Untouched, IsDevice
<1>4. \A p, j : AtByte(p, j)' = AtByte(p, j) /\ AfterByte(p, j)' = AfterByte(p, j)
  BY <1>1 DEF AtByte, AfterByte, Untouched
<1>5. ASSUME NEW p, NEW j, NEW k, NEW i, AtBit(p, j, k, i) PROVE AtBit(p, j, k, i)'
  BY <1>1, <1>4, <1>5 DEF AtBit, IsDevice
<1>6. ASSUME NEW p, NEW j, NEW i, AtAck(p, j, i) PROVE AtAck(p, j, i)'
  BY <1>1, <1>4, <1>6 DEF AtAck, IsDevice
<1>7. \A j, list, b : Reading(j, list, b)' = Reading(j, list, b) /\ AfterRead(j)' = AfterRead(j)
  BY <1>1 DEF Reading, AfterRead
<1>8. ASSUME NEW j, NEW list, NEW b, AtRead(j, list, b) PROVE AtRead(j, list, b)'
  BY <1>1, <1>7, <1>8 DEF AtRead, IsDevice
<1>9. ASSUME NEW j, NEW list, NEW b, NEW k, NEW i, AtReadBit(j, list, b, k, i) PROVE AtReadBit(j, list, b, k, i)'
  BY <1>1, <1>7, <1>9 DEF AtReadBit, IsDevice
<1>10. ASSUME NEW j, NEW list, NEW b, NEW i, AtAnswer(j, list, b, i) PROVE AtAnswer(j, list, b, i)'
  BY <1>1, <1>7, <1>10 DEF AtAnswer, IsDevice
<1>11. Parts(call)' = Parts(call)
  BY <1>1
<1> QED BY <1>2, <1>3, <1>5, <1>6, <1>8, <1>9, <1>10, <1>11 DEF AtPlace

LEMMA I2cStarts ==
  ASSUME i2c_init
  PROVE  I2cInd
<1>1. I2cTypes
  <2>1. <<>> \in Seq(Op) /\ <<>> \in Seq(Bit) /\ 1 \in Bit
    BY DEF Bit
  <2> QED BY <2>1 DEF i2c_init, I2cTypes, Device
<1>2. AtRest
  BY DEF i2c_init, AtRest
<1> QED BY <1>1, <1>2 DEF I2cInd, AtPlace

LEMMA I2cStep ==
  ASSUME I2cInd, [I2cNext]_i2cVars
  PROVE  I2cInd'
<1>1. I2cTypes /\ AtPlace
  BY DEF I2cInd
<1>2. I2cTypes'
  BY <1>1, TypesKept
<1>3. AtPlace'
  <2>1. CASE Operation
    BY <1>1, <2>1, OperationKeepsPlace
  <2>2. CASE LateAnswer
    BY <1>1, <2>2, LateAnswerKeepsPlace
  <2>3. ASSUME NEW c \in Transfers, Begin(c) PROVE AtPlace'
    BY <1>1, <2>3, BeginsAtStart
  <2>4. CASE UNCHANGED i2cVars
    BY <1>1, <2>4, PlaceStutters
  <2> QED BY <2>1, <2>2, <2>3, <2>4 DEF I2cNext
<1> QED BY <1>2, <1>3 DEF I2cInd

LEMMA I2cIndImplies ==
  ASSUME I2cInd
  PROVE  I2cInv
<1>1. I2cTypes /\ AtPlace
  BY DEF I2cInd
<1>2. todo = <<>> => AtRest
  BY <1>1, RestIsIdle
<1>3. BusFree
  BY <1>2 DEF AtRest, BusFree, read_sda, Line
<1>4. ASSUME todo = <<>>, acked
      PROVE  /\ got = <<ToWrite(call)>> \o call.reg
                       \o IF call.op = "write" THEN call.data ELSE <<ToRead(call)>>
             /\ bits = FlattenSeq(sent)
             /\ call.op = "read" => Len(sent) = call.len
  <2>1. Transferred
    BY <1>2, <1>4 DEF AtRest
  <2>2. call \in Transfers
    BY <1>1 DEF I2cTypes
  <2>3. CASE call.op = "write"
    <3>1. BytesOf(call, 1) \o <<>> = BytesOf(call, 1)
      BY <2>2, BytesOfFacts, ConcatEmptySeq
    <3>2. PICK f, r, d : f = <<ToWrite(call)>> /\ r = call.reg /\ d = call.data
      OBVIOUS
    <3>3. f \in Seq(Octet) /\ r \in Seq(Octet) /\ d \in Seq(Octet)
      BY <2>2, <2>3, <3>2, CallFacts
    <3>4. f \o r \o d = BytesOf(call, 1)
      BY <2>3, <3>2 DEF BytesOf
    <3> QED BY <2>1, <2>3, <3>1, <3>2, <3>4 DEF Transferred
  <2>4. CASE call.op # "write"
    <3>1. BytesOf(call, 1) = <<ToWrite(call)>> \o call.reg /\ BytesOf(call, 2) = <<ToRead(call)>>
      BY <2>4 DEF BytesOf
    <3> QED BY <2>1, <2>4, <3>1 DEF Transferred
  <2> QED BY <2>3, <2>4
<1>5. TransferExact
  BY <1>4 DEF TransferExact
<1> QED BY <1>1, <1>3, <1>5 DEF I2cInv, I2cTypes

\* Between two calls of the software I2C the bus is free, whether the last one
\* succeeded or not; and a call that returns true has transferred exactly its bytes:
\* the device has the address, the register and the data, or the caller the bytes
\* the device sent - for every length of a byte, every device and every transfer.
THEOREM TransfersExactly == I2cSpec => []I2cInv
<1>1. i2c_init => I2cInd
  BY I2cStarts
<1>2. I2cInd /\ [I2cNext]_i2cVars => I2cInd'
  BY I2cStep
<1>3. I2cInd => I2cInv
  BY I2cIndImplies
<1> QED BY <1>1, <1>2, <1>3, PTL DEF I2cSpec

=============================================================================
