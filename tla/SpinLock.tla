------------------------------ MODULE SpinLock ------------------------------
(***************************************************************************)
(* The spin locks of src/exercises/03_os_concurrency/03_spinlock (lock,    *)
(* try_lock and unlock called by hand) and 04_spinlock_guard (guarded:     *)
(* lock returns a SpinGuard whose drop unlocks, also when the thread       *)
(* unwinds from a panic).                                                  *)
(*                                                                         *)
(* know and released stand for the memory orderings, as in RwLock; here    *)
(* unlock is a plain store, which starts a release sequence of its own.    *)
(***************************************************************************)
EXTENDS Naturals

CONSTANTS Threads, Modulus

VARIABLES
    guarded,    \* whether the lock is the guarded one; never changes
    locked,     \* the AtomicBool
    data,       \* the value in the UnsafeCell
    pc,         \* where each thread is
    reg,        \* the value loaded by `*data += 1` (0: none)
    know,       \* the threads whose last access happens before t's next step
    released    \* the threads whose last access is published by locked

vars == <<guarded, locked, data, pc, reg, know, released>>

Holders == {t \in Threads : pc[t] \in {"holding", "storing", "stored"}}

Goto(t, l) == pc' = [pc EXCEPT ![t] = l]

Acquire(t) == [know EXCEPT ![t] = @ \cup released]

RelaxedUnlock(t) == {}  \* mutant: store(false, Relaxed)
Release(t) == know[t]

\* Every access goes through a &mut, so any two accesses conflict.
Access(t) ==
    /\ know' = [u \in Threads |-> IF u = t THEN know[u] \cup {t} ELSE know[u] \ {t}]
    /\ released' = released \ {t}

Init ==
    /\ guarded \in BOOLEAN
    /\ locked = FALSE
    /\ data = 0
    /\ pc = [t \in Threads |-> "idle"]
    /\ reg = [t \in Threads |-> 0]
    /\ know = [t \in Threads |-> Threads]
    /\ released = Threads

CallLock(t) ==
    /\ pc[t] = "idle"
    /\ Goto(t, "spinning")
    /\ UNCHANGED <<guarded, locked, data, reg, know, released>>

\* compare_exchange(false, true, Acquire, Relaxed) that succeeds.
TestUnlocked == ~locked
TestNothing == TRUE  \* mutant: the lock is stored without a comparison
CanTake == TestUnlocked

Take(t) ==
    /\ CanTake
    /\ locked' = TRUE
    /\ know' = Acquire(t)
    /\ Goto(t, "holding")
    /\ UNCHANGED <<guarded, data, reg, released>>

\* One turn of lock()'s loop that wins; a turn that fails, because the lock is
\* taken or spuriously (compare_exchange_weak), leaves every variable as it is.
SpinTake(t) == pc[t] = "spinning" /\ Take(t)

\* try_lock(): one attempt, Some or None.
TryLock(t) ==
    /\ ~guarded
    /\ pc[t] = "idle"
    /\ Take(t)

\* `*data += 1` through the reference or the guard.
LoadData(t) ==
    /\ pc[t] = "holding"
    /\ reg' = [reg EXCEPT ![t] = data]
    /\ Access(t)
    /\ Goto(t, "storing")
    /\ UNCHANGED <<guarded, locked, data>>

StoreData(t) ==
    /\ pc[t] = "storing"
    /\ data' = (reg[t] + 1) % Modulus
    /\ reg' = [reg EXCEPT ![t] = 0]
    /\ Access(t)
    /\ Goto(t, "stored")
    /\ UNCHANGED <<guarded, locked>>

\* unlock(), or the drop of the guard: store(false, Release).
Unlock(t, l) ==
    /\ locked' = FALSE
    /\ released' = Release(t)
    /\ reg' = [reg EXCEPT ![t] = 0]
    /\ Goto(t, l)
    /\ UNCHANGED <<guarded, data, know>>

Leave(t) == pc[t] \in {"holding", "stored"} /\ Unlock(t, "idle")

\* The thread panics anywhere in its critical section (`+=` itself may, on
\* overflow); unwinding drops the guard.
PanicAbandons(t) ==  \* mutant: unwinding drops no guard
    /\ guarded /\ t \in Holders
    /\ Goto(t, "panicked")
    /\ UNCHANGED <<guarded, locked, data, reg, know, released>>
Panic(t) == guarded /\ t \in Holders /\ Unlock(t, "panicked")

Next ==
    \E t \in Threads :
        \/ CallLock(t) \/ SpinTake(t) \/ TryLock(t)
        \/ LoadData(t) \/ StoreData(t)
        \/ Leave(t) \/ Panic(t)

\* Runnable threads run, a critical section ends, and compare_exchange_weak
\* does not fail spuriously for ever.
Fairness ==
    \A t \in Threads :
        /\ WF_vars(SpinTake(t))
        /\ WF_vars(LoadData(t) \/ StoreData(t) \/ Leave(t) \/ Panic(t))

Spec == Init /\ [][Next]_vars /\ Fairness

-----------------------------------------------------------------------------
\* DataRaceFree: the holder's next access happens after every earlier access
\* of any thread, by the Acquire and Release orderings alone.
DataRaceFree == \A t \in Holders : know[t] = Threads

\* Ideal: the lock makes `*data += 1` atomic; increments are never lost, the
\* ones of threads that panic later included.
Ideal == INSTANCE ReadersWriter WITH reading <- {}, writing <- Holders, value <- data
IncrementsAtomically == Ideal!Spec

\* SomebodyTakes: while a thread spins in lock(), some thread takes the lock,
\* whichever holders have panicked.
SomebodyTakes ==
    (\E t \in Threads : pc[t] = "spinning") ~> (Holders # {})
=============================================================================
