------------------------------ MODULE MCLocks ------------------------------
(***************************************************************************)
(* Instances of Semaphore, of ReentrantLock and of Mutex in it, for TLC:   *)
(* in one run, of which the initial state says which lock the tasks use.   *)
(* The idle task is the last one.                                          *)
(***************************************************************************)
EXTENDS ReentrantLock

CONSTANTS t1, t2, t3, idle

\* The semaphore of this system is not that of a mutex.
Plain == ~use.mutex

LocksInit ==
  \/ ReentrantInit
  \/ /\ Init /\ Plain
     /\ owner = NoTask /\ ceiling_priority = 0 /\ mpc = [t \in Task |-> "lock_owner"]
     /\ alone = TRUE
     /\ lock_state = 0 /\ todo = [t \in Task |-> <<>>] /\ writing = {}

WithoutMutex == Plain /\ UNCHANGED <<mutexVars, lockVars, alone, use>>

LocksNext ==
  \/ Next /\ WithoutMutex
  \/ use.mutex /\ ReentrantNext

locksVars == <<reentrantVars, alone, use>>

LocksSpec == LocksInit /\ [][LocksNext]_locksVars

\* With the fairness of the semaphore, where it is used by itself.
LocksFairSpec ==
  /\ LocksSpec
  /\ WF_locksVars(TickInterrupt /\ WithoutMutex)
  /\ WF_locksVars(ContextSwitch /\ WithoutMutex)
  /\ WF_locksVars(IdleYield /\ WithoutMutex)
  /\ \A t \in Task : SF_locksVars(InCall(t) /\ WithoutMutex)

PlainWaiterServed == Plain => WaiterServed
PlainTryReturns == Plain => TryReturns

-----------------------------------------------------------------------------

RR(p) == [priority |-> p, sched_method |-> "RR"]

Tasks == <<t1, t2, t3, idle>>

\* The priorities of t1, t2 and t3.
Ranks(p1, p2, p3) ==
  [t \in Task |-> CASE t = t1 -> RR(p1) [] t = t2 -> RR(p2) [] t = t3 -> RR(p3) [] t = idle -> RR(0)]

\* What t1 alone calls semaphore_try_acquire with, or t2 alone.
NoTry == [t \in User |-> {}]
OneTries == [t \in User |-> IF t = t1 THEN {0, 2} ELSE {}]
TwoTries == [t \in User |-> IF t = t2 THEN {0, 1} ELSE {}]

\* A semaphore by itself has no ceiling, and nobody prints under it.
PlainUse(ranks, calls, max, init, acquirers, tries) ==
  [mutex |-> FALSE, attr |-> ranks, calls |-> calls, acquirers |-> acquirers, sleepers |-> {},
   init |-> init, max |-> max, timeouts |-> tries, ceiling |-> 0,
   programs |-> [t \in User |-> {}]]

\* A binary semaphore as a lock of tasks of two priorities, which sleep with it and
\* without; a pool of two units that a handler takes from, too; one task that polls
\* for what a handler signals.
PlainUses ==
  {[PlainUse(Ranks(1, 2, 2), {"acquire", "release"}, 1, 1, User, NoTry) EXCEPT !.sleepers = {t1, t2}],
   PlainUse(Ranks(1, 1, 1), {"acquire", "release", "isr_acquire"}, 2, 2, User, NoTry),
   PlainUse(Ranks(1, 0, 0), {"consume", "isr_release"}, 2, 0, {}, OneTries)}

\* Two tasks that try to get a binary semaphore.
TwoTry == {PlainUse(Ranks(1, 1, 1), {"release"}, 1, 1, {}, [t \in User |-> {0, 2}])}

-----------------------------------------------------------------------------

\* t1 prints, and tries for the lock it has.
Nested == {fmt_println, <<"lock", "try", "write", "unlock", "unlock">>}

MutexUse(ranks, ceiling, users, tries, programs) ==
  [mutex |-> TRUE, attr |-> ranks, calls |-> {"acquire", "release"}, acquirers |-> users,
   sleepers |-> users, init |-> 1, max |-> 1, timeouts |-> tries, ceiling |-> ceiling,
   programs |-> programs]

\* The ceiling is above t1 and t2, and t2, of higher priority, also tries for the lock.
CeilingAbove ==
  MutexUse(Ranks(1, 2, 0), 3, {t1, t2}, TwoTries,
        [t \in User |-> CASE t = t1 -> Nested
                          [] t = t2 -> fmt_printf \union {<<"try">> \o Tail(fmt_print)}
                          [] t = t3 -> {}])

\* The ceiling of mutex.h, the highest priority of those that take the lock: that of
\* t2, and that of both.
Printing == [t \in User |-> CASE t = t1 -> Nested [] t = t2 -> {fmt_print} [] t = t3 -> {}]
CeilingOfOne == MutexUse(Ranks(1, 2, 0), 2, {t1, t2}, NoTry, Printing)
CeilingOfBoth == MutexUse(Ranks(1, 1, 0), 1, {t1, t2}, NoTry, Printing)

LockUses == PlainUses \union {CeilingAbove, CeilingOfOne, CeilingOfBoth}

\* The same of two tasks and a third one above them; none of them sleeps.
CeilingOfThird ==
  {[MutexUse(Ranks(1, 1, 2), 2, User, NoTry, [t \in User |-> IF t = t1 THEN Nested ELSE {fmt_print}])
      EXCEPT !.sleepers = {}]}

\* What the proofs assume of a system holds of these, and not of two tasks that try.
ASSUME PlainUsesAreSound == \A u \in PlainUses : Sound(u) /\ Few(u)
ASSUME MutexUsesAreSound ==
  \A u \in MutexUses : Sound(u) /\ Balanced(u) /\ LockedThroughout(u)
ASSUME OneCeilingIsAlone ==
  \A u \in MutexUses : CeilingSound(u) <=> u.ceiling = 3
ASSUME TwoTryIsNot == \A u \in TwoTry : ~Sound(u)
=============================================================================
