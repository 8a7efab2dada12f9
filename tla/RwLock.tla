------------------------------- MODULE RwLock -------------------------------
(***************************************************************************)
(* The read-write lock of src/exercises/03_os_concurrency/05_rwlock.       *)
(*                                                                         *)
(* The lock is one AtomicU32.  Every atomic operation on it (load,         *)
(* compare_exchange, fetch_or, fetch_sub, fetch_and) is one action; the    *)
(* guards' accesses to the UnsafeCell are actions of their own.            *)
(*                                                                         *)
(* There is one atomic location and every store to it is a                 *)
(* read-modify-write, so interleaving atomic operations is exact for its   *)
(* value: a load that returns an older value is a load taken earlier.  The *)
(* memory orderings are kept as well: know and released record which       *)
(* accesses to the data happen before a thread's next access.              *)
(***************************************************************************)
EXTENDS Naturals, FiniteSets

CONSTANTS
    Threads,     \* the threads that share the lock
    Readers,     \* those that may call read()
    Writers,     \* those that may call write()
    ReaderMask,  \* READER_MASK, the greatest reader count the word can hold
    Modulus      \* the protected value is an unsigned integer modulo Modulus

ASSUME RwLockAssumption ==
    /\ IsFiniteSet(Threads)
    /\ Readers \subseteq Threads
    /\ Writers \subseteq Threads
    /\ ReaderMask \in Nat \ {0}
    /\ Modulus \in Nat \ {0}

VARIABLES
    state,     \* the AtomicU32: reader count, WRITER_HOLDING, WRITER_WAITING
    data,      \* the value in the UnsafeCell
    pc,        \* where each thread is in read(), write() or its guard's life
    seen,      \* the s a compare_exchange is about to use (Free: no such s)
    reg,       \* the value a writer has loaded in `*g += 1` (0: none)
    know,      \* the accesses to data that happen before the thread's next step
    released   \* the accesses published by the release sequence on state

vars == <<state, data, pc, seen, reg, know, released>>

-----------------------------------------------------------------------------
(* The word.  Adding 1 to a full count carries into WRITER_HOLDING, and    *)
(* subtracting 1 from an empty one borrows from the two flags, as u32      *)
(* arithmetic does.                                                        *)

Word == [readers : 0..ReaderMask, holding : BOOLEAN, waiting : BOOLEAN]

Free == [readers |-> 0, holding |-> FALSE, waiting |-> FALSE]
HeldAndWaiting == [readers |-> 0, holding |-> TRUE, waiting |-> TRUE]  \* mutant
Held == [readers |-> 0, holding |-> TRUE, waiting |-> FALSE]

SetWaiting(s) == [s EXCEPT !.waiting = TRUE]

AddReader(s) ==
    IF s.readers < ReaderMask
    THEN [s EXCEPT !.readers = @ + 1]
    ELSE [readers |-> 0,
          holding |-> ~s.holding,
          waiting |-> IF s.holding THEN ~s.waiting ELSE s.waiting]

SubReader(s) ==
    IF s.readers > 0
    THEN [s EXCEPT !.readers = @ - 1]
    ELSE [readers |-> ReaderMask,
          holding |-> ~s.holding,
          waiting |-> IF s.holding THEN s.waiting ELSE ~s.waiting]

ClearWaiting(s) == [s EXCEPT !.waiting = FALSE]  \* mutant
ClearWriter(s) == [s EXCEPT !.holding = FALSE, !.waiting = FALSE]

\* When read() spins instead of trying its compare_exchange; its mutants each
\* drop one of the tests.
BlockedUnlessFree(s) == s.holding \/ s.waiting
BlockedByHolder(s) == s.holding \/ s.readers = ReaderMask
BlockedByWaiter(s) == s.waiting \/ s.readers = ReaderMask
ReaderBlocked(s) == s.holding \/ s.waiting \/ s.readers = ReaderMask

\* When write() spins instead of trying its compare_exchanges.
WriterBlocked(s) == s.readers # 0 \/ s.holding

-----------------------------------------------------------------------------
(* Happens-before.  An access is identified by its thread and kind; only a *)
(* thread's latest access of a kind matters.  Acquire learns what the word *)
(* has published, Release publishes what the thread knows: a               *)
(* read-modify-write extends the release sequence it reads from, so        *)
(* released only grows at a Release and stays at any other atomic step.    *)

Accesses == Threads \X {"r", "w"}

Acquire(t) == [know EXCEPT ![t] = @ \cup released]
Relaxed(t) == released  \* mutant: the store is Relaxed
Release(t) == released \cup know[t]

\* A new access of t: nobody else is synchronised with it yet.
Access(t, k) ==
    /\ know' = [u \in Threads |-> IF u = t THEN know[u] \cup {<<t, k>>}
                                           ELSE know[u] \ {<<t, k>>}]
    /\ released' = released \ {<<t, k>>}

Goto(t, l) == pc' = [pc EXCEPT ![t] = l]

-----------------------------------------------------------------------------
Init ==
    /\ state = Free
    /\ data = 0
    /\ pc = [t \in Threads |-> "idle"]
    /\ seen = [t \in Threads |-> Free]
    /\ reg = [t \in Threads |-> 0]
    /\ know = [t \in Threads |-> Accesses]
    /\ released = Accesses

(* read() *)

CallRead(t) ==
    /\ pc[t] = "idle"
    /\ t \in Readers
    /\ Goto(t, "r_load")
    /\ UNCHANGED <<state, data, seen, reg, know, released>>

\* load(Acquire); spin while a writer holds or waits, or the count is full.
ReadLoad(t) ==
    /\ pc[t] = "r_load"
    /\ know' = Acquire(t)
    /\ IF ReaderBlocked(state)
       THEN UNCHANGED <<pc, seen>>
       ELSE Goto(t, "r_cas") /\ seen' = [seen EXCEPT ![t] = state]
    /\ UNCHANGED <<state, data, reg, released>>

\* compare_exchange(s, s + 1, AcqRel, Acquire).
ReadCas(t) ==
    /\ pc[t] = "r_cas"
    /\ know' = Acquire(t)
    /\ \/ /\ state = seen[t]
          /\ state' = AddReader(seen[t])
          /\ released' = released \cup know'[t]
          /\ Goto(t, "reading")
       \/ /\ state # seen[t]
          /\ Goto(t, "r_load")
          /\ UNCHANGED <<state, released>>
    /\ seen' = [seen EXCEPT ![t] = Free]
    /\ UNCHANGED <<data, reg>>

\* A shared access through RwLockReadGuard.
ReadData(t) ==
    /\ pc[t] = "reading"
    /\ Access(t, "r")
    /\ UNCHANGED <<state, data, pc, seen, reg>>

\* Drop of RwLockReadGuard: fetch_sub(1, Release).
DropRead(t) ==
    /\ pc[t] = "reading"
    /\ state' = SubReader(state)
    /\ released' = Release(t)
    /\ Goto(t, "idle")
    /\ UNCHANGED <<data, seen, reg, know>>

(* write() *)

CallWrite(t) ==
    /\ pc[t] = "idle"
    /\ t \in Writers
    /\ Goto(t, "w_announce")
    /\ UNCHANGED <<state, data, seen, reg, know, released>>

\* fetch_or(WRITER_WAITING, Release).
WriteAnnounce(t) ==
    /\ pc[t] = "w_announce"
    /\ state' = SetWaiting(state)
    /\ released' = Release(t)
    /\ Goto(t, "w_load")
    /\ UNCHANGED <<data, seen, reg, know>>

\* load(Acquire); spin while there are readers or a writer holds.
WriteLoad(t) ==
    /\ pc[t] = "w_load"
    /\ know' = Acquire(t)
    /\ IF WriterBlocked(state)
       THEN UNCHANGED <<pc, seen>>
       ELSE Goto(t, "w_cas_waiting") /\ seen' = [seen EXCEPT ![t] = state]
    /\ UNCHANGED <<state, data, reg, released>>

\* compare_exchange(expected, WRITER_HOLDING, AcqRel, Acquire), then next.
WriteCas(t, expected, next) ==
    /\ know' = Acquire(t)
    /\ \/ /\ state = expected
          /\ state' = Held
          /\ released' = released \cup know'[t]
          /\ Goto(t, "writing")
       \/ /\ state # expected
          /\ Goto(t, next)
          /\ UNCHANGED <<state, released>>
    /\ seen' = [seen EXCEPT ![t] = Free]
    /\ UNCHANGED <<data, reg>>

WriteCasWaiting(t) ==
    /\ pc[t] = "w_cas_waiting"
    /\ WriteCas(t, SetWaiting(seen[t]), "w_cas_free")

WriteCasFree(t) ==
    /\ pc[t] = "w_cas_free"
    /\ WriteCas(t, Free, "w_load")

\* `*g += 1` through RwLockWriteGuard: a load, then a store.
LoadData(t) ==
    /\ pc[t] = "writing"
    /\ reg' = [reg EXCEPT ![t] = data]
    /\ Access(t, "r")
    /\ Goto(t, "storing")
    /\ UNCHANGED <<state, data, seen>>

Succ(v) == (v + 1) % Modulus

StoreData(t) ==
    /\ pc[t] = "storing"
    /\ data' = Succ(reg[t])
    /\ Access(t, "w")
    /\ reg' = [reg EXCEPT ![t] = 0]
    /\ Goto(t, "written")
    /\ UNCHANGED <<state, seen>>

\* Drop of RwLockWriteGuard: fetch_and(!(HOLDING | WAITING), Release).  The
\* guard may be dropped without an access.
DropWrite(t) ==
    /\ pc[t] \in {"writing", "written"}
    /\ state' = ClearWriter(state)
    /\ released' = Release(t)
    /\ Goto(t, "idle")
    /\ UNCHANGED <<data, seen, reg, know>>

-----------------------------------------------------------------------------
\* The steps of a call that has begun, until it returns its guard.
Trying(t) ==
    \/ ReadLoad(t) \/ ReadCas(t)
    \/ WriteAnnounce(t) \/ WriteLoad(t)
    \/ WriteCasWaiting(t) \/ WriteCasFree(t)

\* The steps that bring a guard to its drop.
Leaving(t) == DropRead(t) \/ LoadData(t) \/ StoreData(t) \/ DropWrite(t)

Next ==
    \E t \in Threads :
        \/ CallRead(t) \/ CallWrite(t)
        \/ Trying(t)
        \/ ReadData(t)
        \/ Leaving(t)

Spec == Init /\ [][Next]_vars

\* The operating system runs every runnable thread, and every guard is
\* dropped in the end; nobody has to call read() or write().
Fairness == \A t \in Threads : WF_vars(Trying(t)) /\ WF_vars(Leaving(t))

FairSpec == Spec /\ Fairness

-----------------------------------------------------------------------------
ReadHolders == {t \in Threads : pc[t] = "reading"}
WriteHolders == {t \in Threads : pc[t] \in {"writing", "storing", "written"}}
WaitingWriters ==
    {t \in Threads : pc[t] \in {"w_load", "w_cas_waiting", "w_cas_free"}}

\* CountAccurate: the word tells the truth about the guards.  Its count is the
\* number of read guards (fetch_sub never borrows, s + 1 never carries) and
\* WRITER_HOLDING is set exactly while a write guard lives, so the
\* fetch_and in one writer's drop never clears another's bit.
CountAccurate ==
    /\ state.readers = Cardinality(ReadHolders)
    /\ state.holding <=> WriteHolders # {}

\* Exclusion: a write guard is the only guard (05_rwlock: "exclusive access;
\* only one writer, and no readers while the writer holds the lock").
Exclusion ==
    \A t \in WriteHolders : WriteHolders = {t} /\ ReadHolders = {}

\* DataRaceFree: whatever a guard may access next happens after every
\* conflicting access, by the Acquire and Release orderings of the code alone:
\* the writes for a reader, all accesses for a writer.
DataRaceFree ==
    /\ \A t \in ReadHolders : Threads \X {"w"} \subseteq know[t]
    /\ \A t \in WriteHolders : Accesses \subseteq know[t]

\* NoOrphanWaiting: WRITER_WAITING, which turns every reader away, is set only
\* while some thread is in the loop of write() and will take the lock or is
\* behind one that will: a bit nobody clears would block readers for ever.
NoOrphanWaiting == state.waiting => WaitingWriters # {}

\* TypeOK: the word is a count below READER_MASK + 1 and two flags, whatever
\* sequence of additions and subtractions the threads make.
Labels == {"idle", "r_load", "r_cas", "reading", "w_announce", "w_load",
           "w_cas_waiting", "w_cas_free", "writing", "storing", "written"}

TypeOK ==
    /\ state \in Word
    /\ data \in 0..(Modulus - 1)
    /\ pc \in [Threads -> Labels]
    /\ seen \in [Threads -> Word]
    /\ reg \in [Threads -> 0..(Modulus - 1)]
    /\ know \in [Threads -> SUBSET Accesses]
    /\ released \in SUBSET Accesses

\* Exclusive: the lock implements an ideal readers-writer register: every
\* guard is granted when the ideal lock may grant it, and no `*g += 1` is lost.
Ideal == INSTANCE ReadersWriter
            WITH reading <- ReadHolders, writing <- WriteHolders, value <- data
ImplementsReadersWriter == Ideal!Spec

\* WriterPriority: "Once a writer is waiting, no new readers are admitted until
\* that writer has run" (05_rwlock, lines 14-15).  A writer is waiting when it
\* is in the loop of write(), its fetch_or done.  Taking or dropping
\* the write lock clears the WRITER_WAITING of the writers still waiting.
WriterPriority ==
    [][\A w \in Threads :
          w \in WaitingWriters /\ w \in WaitingWriters'
             => ReadHolders' \subseteq ReadHolders]_vars

\* SomebodyEnters: while a thread is inside read() or write(), some guard will
\* exist: the spinning threads never block one another for good.
SomebodyEnters ==
    (\E t \in Threads : pc[t] \notin {"idle"}) ~> (ReadHolders \cup WriteHolders # {})
=============================================================================
