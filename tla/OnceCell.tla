------------------------------ MODULE OnceCell ------------------------------
(***************************************************************************)
(* OnceCell of src/exercises/03_os_concurrency/02_atomic_ordering: init    *)
(* wins `initialized` by compare_exchange and then stores the value; get   *)
(* loads `initialized` and then the value.  Threads call init once, get    *)
(* any number of times, and may join threads that have returned.           *)
(***************************************************************************)
EXTENDS Naturals

CONSTANTS
    Threads,
    ValueOf,     \* ValueOf[t]: the argument of t's init; 0 is the initial value
    None         \* a model value

VARIABLES
    history, view,   \* the memory: locations "initialized" and "value"
    pc,
    won,             \* what init returned: "none", "true" or "false"
    got,             \* what the latest get returned; None before
    joined           \* the threads that each thread has joined

vars == <<history, view, pc, won, got, joined>>

Memory == INSTANCE WeakMemory WITH Locations <- {"initialized", "value"}

Goto(t, l) == pc' = [pc EXCEPT ![t] = l]

Init ==
    /\ Memory!MemoryInit([initialized |-> FALSE, value |-> 0])
    /\ pc = [t \in Threads |-> "idle"]
    /\ won = [t \in Threads |-> "none"]
    /\ got = [t \in Threads |-> None]
    /\ joined = [t \in Threads |-> {}]

-----------------------------------------------------------------------------
\* init(val): compare_exchange(false, true, AcqRel, Acquire).
TestThenSet(t) ==  \* mutant: a load and a store in place of the exchange
    /\ FALSE \in Memory!Readable(t, "initialized")
    /\ Memory!StoreRelease(t, "initialized", TRUE)
TrySet(t) == Memory!Exchange(t, "initialized", FALSE, TRUE)

InitWins(t) ==
    /\ pc[t] = "idle" /\ won[t] = "none"
    /\ TrySet(t)
    /\ Goto(t, "publishing")
    /\ UNCHANGED <<won, got, joined>>

\* value.store(val, Release).
InitStores(t) ==
    /\ pc[t] = "publishing"
    /\ Memory!StoreRelease(t, "value", ValueOf[t])
    /\ won' = [won EXCEPT ![t] = "true"]
    /\ Goto(t, "idle")
    /\ UNCHANGED <<got, joined>>

\* The exchange fails only if it reads true, with Acquire.
InitLoses(t) ==
    /\ pc[t] = "idle" /\ won[t] = "none"
    /\ Memory!LoadAcquire(t, "initialized", TRUE)
    /\ won' = [won EXCEPT ![t] = "false"]
    /\ UNCHANGED <<pc, got, joined>>

-----------------------------------------------------------------------------
\* get(): initialized.load(Acquire) is false ...
GetNone(t) ==
    /\ pc[t] = "idle"
    /\ Memory!LoadAcquire(t, "initialized", FALSE)
    /\ got' = [got EXCEPT ![t] = None]
    /\ UNCHANGED <<pc, won, joined>>

\* ... or true: value.load(Relaxed).
GetBegins(t) ==
    /\ pc[t] = "idle"
    /\ Memory!LoadAcquire(t, "initialized", TRUE)
    /\ Goto(t, "reading")
    /\ UNCHANGED <<won, got, joined>>

GetSome(t) ==
    /\ pc[t] = "reading"
    /\ \E value \in {ValueOf[u] : u \in Threads} \cup {0} :
          /\ Memory!LoadRelaxed(t, "value", value)
          /\ got' = [got EXCEPT ![t] = value]
    /\ Goto(t, "idle")
    /\ UNCHANGED <<won, joined>>

\* A thread's closure returns; t joins it.
End(t) ==
    /\ pc[t] = "idle"
    /\ Goto(t, "end")
    /\ UNCHANGED <<history, view, won, got, joined>>

Join(t, u) ==
    /\ pc[t] = "idle" /\ pc[u] = "end" /\ u \notin joined[t]
    /\ Memory!Synchronize(t, {u})
    /\ joined' = [joined EXCEPT ![t] = @ \cup {u} \cup joined[u]]
    /\ UNCHANGED <<pc, won, got>>

Next ==
    \E t \in Threads :
        \/ InitWins(t) \/ InitStores(t) \/ InitLoses(t)
        \/ GetNone(t) \/ GetBegins(t) \/ GetSome(t)
        \/ End(t)
        \/ \E u \in Threads : Join(t, u)

Spec == Init /\ [][Next]_vars

-----------------------------------------------------------------------------
Winners == {t \in Threads : pc[t] = "publishing" \/ won[t] = "true"}

\* OneInit: of all the init calls one returns true, and a call returns false
\* only if some other call has won.
OneInit ==
    /\ \A t, u \in Winners : t = u
    /\ (\E t \in Threads : won[t] = "false") => Winners # {}

\* JoinedGetsValue: a thread that joined the one whose init returned true, or
\* is that one, can get nothing but its value.
JoinedGetsValue ==
    \A t, w \in Threads :
        won[w] = "true" /\ (t = w \/ w \in joined[t]) =>
            /\ Memory!Readable(t, "initialized") = {TRUE}
            /\ Memory!Readable(t, "value") = {ValueOf[w]}

\* GetSeesInitialized: "init is executed only once, and all threads see the
\* initialized value" (02_atomic_ordering, line 69): a get that returns Some
\* returns what init stored, never the initial 0.
GetSeesInitialized == \A t \in Threads : got[t] # 0
=============================================================================
