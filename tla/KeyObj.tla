------------------------------- MODULE KeyObj -------------------------------
(***************************************************************************)
(* One key (driver/key_obj.c), polled by key_loop.  At every poll the      *)
(* contact is read once and may be open or closed, whatever it was before: *)
(* contacts bounce.  event is what the callback is told at the last poll.  *)
(*                                                                         *)
(* The keys of an array share nothing, so that one stands for all.         *)
(***************************************************************************)
EXTENDS Integers

CONSTANTS
  DEBOUNCE_TICKS,
  LONG_PRESSED_TICKS,
  DOUBLE_PRESSED_TICKS

ASSUME KeyAssumption ==
  /\ {DEBOUNCE_TICKS, LONG_PRESSED_TICKS, DOUBLE_PRESSED_TICKS} \subseteq Nat \ {0}
  /\ DEBOUNCE_TICKS < LONG_PRESSED_TICKS /\ DEBOUNCE_TICKS < DOUBLE_PRESSED_TICKS

VARIABLES
  key_status,
  key_prev_status,
  key_ticks,
  event,      \* the argument of status_changed_event, or "none"
  pressed,    \* what is_pressed returned at the last poll
  steady      \* the number of polls it has returned that, counted to Longest

statusVars == <<key_status, key_prev_status, key_ticks>>
keyVars == <<statusVars, event, pressed, steady>>

KeyStatus == {"idle", "press_delay", "release_delay", "pressed", "long", "double"}

Longest ==
  IF LONG_PRESSED_TICKS > DOUBLE_PRESSED_TICKS
    THEN LONG_PRESSED_TICKS ELSE DOUBLE_PRESSED_TICKS

\* The types: the ticks never get beyond the longest of the times.
KeyTypeOK ==
  /\ key_status \in KeyStatus /\ key_prev_status \in KeyStatus
  /\ key_ticks \in 0 .. Longest
  /\ event \in KeyStatus \union {"none"}
  /\ pressed \in BOOLEAN /\ steady \in 0 .. Longest

key_init ==
  /\ key_status = "idle" /\ key_prev_status = "idle" /\ key_ticks = 0
  /\ event = "none" /\ pressed = FALSE /\ steady = 0

-----------------------------------------------------------------------------

\* The status changes, with an event or without.
Change(next, e) ==
  /\ key_prev_status' = key_status
  /\ key_status' = next
  /\ event' = e

Stay == event' = "none" /\ UNCHANGED <<key_status, key_prev_status>>

FromIdle(p) ==
  /\ key_status = "idle"
  /\ IF p THEN Change("press_delay", "none") /\ key_ticks' = 0
          ELSE Stay /\ UNCHANGED key_ticks

\* A delay that is not over.
Delay ==
  /\ key_status \in {"press_delay", "release_delay"}
  /\ key_ticks + 1 < DEBOUNCE_TICKS
  /\ key_ticks' = key_ticks + 1
  /\ Stay

\* Mutant of after_delay: the ticks of the delay are counted for what follows.
DelayCounted == key_ticks' = key_ticks + 1

after_delay == key_ticks' = 0

PressDelayOver(p) ==
  /\ key_status = "press_delay" /\ key_ticks + 1 >= DEBOUNCE_TICKS
  /\ after_delay
  /\ CASE ~p -> Change(key_prev_status, "none")
       [] p /\ key_prev_status = "idle" -> Change("pressed", "none")
       [] p /\ key_prev_status = "double" -> Change("long", "double")
       [] OTHER -> Change("idle", "none")

released == Change("idle", "idle")

ReleaseDelayOver(p) ==
  /\ key_status = "release_delay" /\ key_ticks + 1 >= DEBOUNCE_TICKS
  /\ after_delay
  /\ CASE p -> Change(key_prev_status, "none")
       [] ~p /\ key_prev_status = "pressed" -> Change("double", "none")
       [] ~p /\ key_prev_status = "long" -> released
       [] OTHER -> Change("idle", "none")

Pressed(p) ==
  /\ key_status = "pressed"
  /\ IF ~p THEN Change("release_delay", "none") /\ key_ticks' = 0
     ELSE /\ key_ticks' = key_ticks + 1
          /\ IF key_ticks + 1 >= LONG_PRESSED_TICKS THEN Change("long", "long") ELSE Stay

LongPressed(p) ==
  /\ key_status = "long"
  /\ IF ~p THEN Change("release_delay", "none") /\ key_ticks' = 0
           ELSE Stay /\ UNCHANGED key_ticks

\* Mutant of single_press: nothing is reported for a single press.
SingleForgotten == Change("long", "none")

single_press == Change("long", "pressed")

window_over == key_ticks + 1 >= DOUBLE_PRESSED_TICKS

DoublePressed(p) ==
  /\ key_status = "double"
  /\ IF p THEN Change("press_delay", "none") /\ key_ticks' = 0
     ELSE /\ key_ticks' = key_ticks + 1
          /\ IF window_over THEN single_press ELSE Stay

key_update_status(p) ==
  \/ FromIdle(p) \/ Delay \/ PressDelayOver(p) \/ ReleaseDelayOver(p)
  \/ Pressed(p) \/ LongPressed(p) \/ DoublePressed(p)

Poll(p) ==
  /\ key_update_status(p)
  /\ pressed' = p
  /\ steady' = IF p # pressed THEN 1 ELSE IF steady < Longest THEN steady + 1 ELSE steady

KeyNext == \E p \in BOOLEAN : Poll(p)

KeySpec == key_init /\ [][KeyNext]_keyVars

\* key_loop is called again and again: a contact that is at rest is read again
\* and again.
FairKeySpec == KeySpec /\ WF_keyVars(Poll(pressed))

-----------------------------------------------------------------------------

\* A long press is reported only for a key that has been closed at every poll
\* for the whole time, however it bounced before.
LongIsHeld == event = "long" => pressed /\ steady >= LONG_PRESSED_TICKS

\* A single press is reported only when no second one has begun for the whole
\* time that a double press may take.
SingleIsSingle == event = "pressed" => ~pressed /\ steady >= DOUBLE_PRESSED_TICKS

\* The delays know what they delay, so that the branches for another previous
\* status are never taken: they would forget a press without any event.
DelaysKnown ==
  /\ key_status = "press_delay" => key_prev_status \in {"idle", "double"}
  /\ key_status = "release_delay" => key_prev_status \in {"pressed", "long"}

\* What is reported is true: a long press has been held, a single one has no
\* second; and key_update_status knows what it waits for.
KeyInv == KeyTypeOK /\ LongIsHeld /\ SingleIsSingle /\ DelaysKnown

Settles(p) == <>[](pressed = p)

\* A key that has been pressed is reported, as one of the three kinds, if its
\* contact comes to rest.
PressReported ==
  Settles(TRUE) \/ Settles(FALSE)
    => (key_status = "pressed" ~> event \in {"pressed", "long", "double"})

\* Of a key that was reported the release is reported, if it is let go.
ReleaseReported ==
  Settles(FALSE) => (event \in {"pressed", "long", "double"} ~> event = "idle")

\* However the contact bounces, the press of a key and its release are reported.
EventsReported == PressReported /\ ReleaseReported

=============================================================================
