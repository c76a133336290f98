--------------------------- MODULE ReentrantLock ---------------------------
(***************************************************************************)
(* A reentrant lock (kernel/reentrant_lock.c) on top of its mutex, and the *)
(* functions that print under one (utility/fmt.c).  A task runs programs   *)
(* of calls; between two of them it sleeps now and then.                   *)
(*                                                                         *)
(* Every lock has its unlock: mutex_unlock without an owner would read the *)
(* priority of no task, for assert() is compiled to nothing.               *)
(***************************************************************************)
EXTENDS Mutex

VARIABLES
  lock_state,   \* lock->state
  todo,         \* todo[t]: the calls of its program that t has still to make
  writing       \* the tasks that have written some of the text of their program

lockVars == <<lock_state, todo, writing>>
reentrantVars == <<allVars, lockVars>>

\* A call of the function of that name; "write" is current_out.write of some
\* characters.
Call1 == {"lock", "try", "unlock", "write"}

fmt_print == <<"lock", "write", "unlock">>

fmt_println == <<"lock">> \o fmt_print \o <<"write", "unlock">>

\* The text is formatted in memory of the task; without memory nothing is done.
fmt_printf == {<<>>, fmt_print}

\* programs[t] are those of t.
ASSUME ReentrantAssumption ==
  \A u \in MutexUses : u.programs \in [User -> SUBSET Seq(Call1)]

ReentrantInit ==
  /\ MutexInit
  /\ lock_state = 0
  /\ todo = [t \in Task |-> <<>>]
  /\ writing = {}

-----------------------------------------------------------------------------

\* t is in its own code, and its next call is this one.
Calling(t, call) ==
  /\ AtStep(t, "out") \/ AtMutexStep(t, "locked")
  /\ todo[t] # <<>> /\ Head(todo[t]) = call

Continue(t, calls) ==
  /\ todo' = [todo EXCEPT ![t] = calls]
  /\ writing' = IF calls = <<>> THEN writing \ {t} ELSE writing

Begin(t) ==
  /\ AtStep(t, "out") /\ todo[t] = <<>>
  /\ \E program \in use.programs[t] : program # <<>> /\ Continue(t, program)
  /\ UNCHANGED <<allVars, lock_state>>

\* A task that is not the owner does not become it while it looks: it calls
\* mutex_lock or mutex_try_lock, and "count" is what is left to do then.
CallMutex(t) ==
  /\ owner # t
  /\ \/ Calling(t, "lock") /\ AcquireSuspend(t)
     \/ Calling(t, "try") /\ TryAcquire(t)
  /\ Continue(t, <<"count">> \o Tail(todo[t]))
  /\ UNCHANGED <<mutexVars, lock_state>>

\* Mutant of counted: the owner does not count again.
CountedOnce(t) == 1

counted(t) == lock_state + 1

\* t has the mutex, from just now or from before.
LockCount(t) ==
  /\ Calling(t, "count") \/ (Calling(t, "lock") /\ owner = t)
  /\ lock_state' = counted(t)
  /\ Continue(t, Tail(todo[t]))
  /\ UNCHANGED allVars

\* A program does not go into what it has not got the lock for: of these calls it
\* makes those behind the first unlock.
without_lock(calls) == SubSeq(calls, SelectInSeq(calls, LAMBDA c : c = "unlock") + 1, Len(calls))

\* mutex_try_lock fails: after its time, and always for the owner, which waits for
\* itself (its waiting is not modelled).
TryFails(t) ==
  /\ \/ TryTime(t) /\ pc'[t] = "out"
     \/ Calling(t, "try") /\ owner = t /\ UNCHANGED vars
  /\ Continue(t, without_lock(Tail(todo[t])))
  /\ UNCHANGED <<mutexVars, lock_state>>

Write(t) ==
  /\ Calling(t, "write")
  /\ todo' = [todo EXCEPT ![t] = Tail(@)]
  /\ writing' = writing \union {t}
  /\ UNCHANGED <<allVars, lock_state>>

unlocked(t) == IF owner = t THEN lock_state - 1 ELSE lock_state

\* Mutant of releases: the mutex is released at every unlock.
ReleasesAlways(t) == TRUE

releases(t) == unlocked(t) = 0

reentrantlock_unlock(t) ==
  /\ Calling(t, "unlock")
  /\ lock_state' = unlocked(t)
  /\ Continue(t, Tail(todo[t]))
  /\ IF releases(t) THEN mutex_unlock(t) ELSE UNCHANGED allVars

-----------------------------------------------------------------------------

ReentrantTaskStep(t) ==
  \/ Begin(t) \/ CallMutex(t) \/ LockCount(t) \/ TryFails(t) \/ Write(t)
  \/ reentrantlock_unlock(t)
  \/ InMutexCall(t) /\ UNCHANGED lockVars

ReentrantNext ==
  /\ \/ (TickInterrupt \/ ContextSwitch \/ IdleYield) /\ UNCHANGED <<mutexVars, lockVars>>
     \/ \E t \in User : ReentrantTaskStep(t)
  /\ alone' = (alone /\ SwapsAlone)
  /\ UNCHANGED use

ReentrantSpec == ReentrantInit /\ [][ReentrantNext]_<<reentrantVars, alone, use>>

-----------------------------------------------------------------------------

(* How a system uses the lock *)

\* The unlocks among these calls that answer no lock among them.
DepthOf(calls) ==
  Cardinality({i \in DOMAIN calls : calls[i] = "unlock"})
    - Cardinality({i \in DOMAIN calls : calls[i] \in {"lock", "try", "count"}})

\* What is left of a program.
Rests(program) == {SubSeq(program, i, Len(program)) : i \in 1 .. Len(program) + 1}

\* Every unlock has its lock in front of it, and the calls that a failed try leaves
\* out are those under its own lock.
Balanced(u) ==
  \A t \in User : \A program \in u.programs[t] :
    /\ DepthOf(program) = 0
    /\ \A rest \in Rests(program) :
         /\ DepthOf(rest) >= 0
         /\ rest # <<>> /\ Head(rest) = "try" => DepthOf(without_lock(Tail(rest))) = DepthOf(rest)

\* A program is inside the lock from its first call to its last.
LockedThroughout(u) ==
  \A t \in User : \A program \in u.programs[t] : \A rest \in Rests(program) :
    rest # <<>> /\ DepthOf(rest) = 0 => rest = program /\ Head(program) # "write"

\* How often t has locked.
Depth(t) == DepthOf(todo[t])

\* The count of the lock is that of its owner and 0 when it has none, and only the
\* owner is inside: a task releases the mutex when it leaves for the last time.
LockDepth ==
  alone => /\ lock_state = IF owner = NoTask THEN 0 ELSE Depth(owner)
           /\ \A t \in User : Depth(t) > 0 => owner = t

\* The text of a call is not mixed with that of another task's.
OutputWhole == alone => Cardinality(writing) <= 1

=============================================================================
