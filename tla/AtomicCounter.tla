---------------------------- MODULE AtomicCounter ----------------------------
(***************************************************************************)
(* AtomicCounter of src/exercises/03_os_concurrency/01_atomic_counter:     *)
(* increment, decrement and compare_and_swap are one atomic operation      *)
(* each; fetch_multiply loads the value and repeats compare_and_swap.      *)
(* Read-modify-writes act on the latest value; a load, and the load of a   *)
(* compare_exchange that fails, may return the value that the thread saw   *)
(* last or any later one.                                                  *)
(***************************************************************************)
EXTENDS Naturals, Sequences

CONSTANTS
    Threads,
    Modulus,       \* u64 counts modulo Modulus
    Multipliers,   \* the arguments of fetch_multiply
    MaxBehind      \* bound: values a thread has not seen yet

VARIABLES
    value,      \* the AtomicU64
    unseen,     \* unseen[t]: the value t saw last and those stored since
    pc,
    current,    \* fetch_multiply's local
    factor      \* its argument

vars == <<value, unseen, pc, current, factor>>

Values == 0 .. Modulus - 1

Init ==
    /\ value \in Values
    /\ unseen = [t \in Threads |-> <<value>>]
    /\ pc = [t \in Threads |-> "idle"]
    /\ current = [t \in Threads |-> 0]
    /\ factor = [t \in Threads |-> 0]

\* t replaces the latest value; storing the same value again is not visible.
Write(t, new) ==
    /\ new = value \/ \A u \in Threads \ {t} : Len(unseen[u]) <= MaxBehind
    /\ value' = new
    /\ unseen' = [u \in Threads |->
           IF u = t THEN <<new>>
           ELSE IF new = value THEN unseen[u] ELSE Append(unseen[u], new)]

\* t loads the i-th value it can see; it cannot go back behind it.
Load(t, i) ==
    /\ unseen' = [unseen EXCEPT ![t] = SubSeq(@, i, Len(@))]
    /\ UNCHANGED value

\* A store becomes visible to every thread in finite time; a get() that a
\* thread calls for its own sake does as much.
Propagate(t) ==
    /\ Len(unseen[t]) > 1
    /\ unseen' = [unseen EXCEPT ![t] = Tail(@)]
    /\ UNCHANGED <<value, pc, current, factor>>

\* increment() and decrement() wrap.
Add(t, n) ==
    /\ pc[t] = "idle"
    /\ Write(t, (value + n) % Modulus)
    /\ UNCHANGED <<pc, current, factor>>

Increment(t) == Add(t, 1)
Decrement(t) == Add(t, Modulus - 1)

\* compare_and_swap(expected, new) that succeeds; one that fails changes nothing.
CompareAndSwap(t, expected, new) ==
    /\ pc[t] = "idle"
    /\ value = expected
    /\ Write(t, new)
    /\ UNCHANGED <<pc, current, factor>>

-----------------------------------------------------------------------------
\* fetch_multiply(multiplier): get() ...
FetchMultiply(t, multiplier) ==
    /\ pc[t] = "idle"
    /\ \E i \in 1 .. Len(unseen[t]) :
          /\ Load(t, i)
          /\ current' = [current EXCEPT ![t] = unseen[t][i]]
    /\ factor' = [factor EXCEPT ![t] = multiplier]
    /\ pc' = [pc EXCEPT ![t] = "loop"]

Leave(t, l) ==
    /\ pc' = [pc EXCEPT ![t] = l]
    /\ current' = [current EXCEPT ![t] = 0]
    /\ factor' = [factor EXCEPT ![t] = 0]

Product(t) == current[t] * factor[t]

\* ... then, in a loop, compare_and_swap(current, current * multiplier).
Multiply(t) ==
    /\ pc[t] = "loop"
    /\ value = current[t]
    /\ Write(t, Product(t) % Modulus)
    /\ Leave(t, "idle")

\* mutant: Err(_) => {}, the same value is tried again
RetrySame(t) ==
    /\ pc[t] = "loop"
    /\ \E i \in 1 .. Len(unseen[t]) :
          /\ unseen[t][i] # current[t]
          /\ Load(t, i)
    /\ UNCHANGED <<pc, current, factor>>

\* Err(actual): an actual value that is not the one expected.
Retry(t) ==
    /\ pc[t] = "loop"
    /\ \E i \in 1 .. Len(unseen[t]) :
          /\ unseen[t][i] # current[t]
          /\ Load(t, i)
          /\ current' = [current EXCEPT ![t] = unseen[t][i]]
    /\ UNCHANGED <<pc, factor>>

\* A build with overflow checks panics before the exchange.
Overflow(t) ==
    /\ pc[t] = "loop"
    /\ Product(t) >= Modulus
    /\ Leave(t, "panicked")
    /\ UNCHANGED <<value, unseen>>

Next ==
    \E t \in Threads :
        \/ Increment(t) \/ Decrement(t)
        \/ \E expected, new \in Values : CompareAndSwap(t, expected, new)
        \/ \E multiplier \in Multipliers : FetchMultiply(t, multiplier)
        \/ Multiply(t) \/ Retry(t) \/ Overflow(t)
        \/ Propagate(t)

\* A thread in fetch_multiply runs on, and stores do become visible.
Fairness ==
    \A t \in Threads :
        /\ WF_vars(Multiply(t) \/ Retry(t) \/ Overflow(t))
        /\ WF_vars(Propagate(t))

-----------------------------------------------------------------------------
\* The values t can still be given before it has the latest one.
AttemptsLeft(t) == Len(unseen[t]) + (IF current[t] = Head(unseen[t]) THEN 0 ELSE 1)

\* RetriesBounded: every failed exchange of fetch_multiply brings it nearer to
\* the latest value, and only a store of another thread that changes the value
\* takes it away, by one: it fails no more often than there are stores that it
\* has not seen, those made meanwhile included, even if the others never pause,
\* come back to a value it has tried (ABA) or are seen late ("retry on failure",
\* lib.rs, line 57).
RetriesBounded ==
    [][\A t \in Threads : pc[t] = "loop" /\ pc'[t] = "loop" =>
          /\ AttemptsLeft(t)' <= AttemptsLeft(t) + (IF value' = value THEN 0 ELSE 1)
          /\ Retry(t) => AttemptsLeft(t)' < AttemptsLeft(t)]_vars

\* MultiplyReturns: fetch_multiply returns unless the other threads change the
\* value for ever: a failed exchange hands over the value to try next.
MultiplyReturns ==
    <>[][value' = value]_value
        => \A t \in Threads : pc[t] = "loop" ~> pc[t] # "loop"
=============================================================================
