------------------------------- MODULE Threads -------------------------------
(***************************************************************************)
(* The functions of src/exercises/01_concurrency_sync/01_thread_spawn and  *)
(* 02_mutex_counter: the caller spawns workers, joins them in order, and   *)
(* returns what they did or panics with them.                              *)
(***************************************************************************)
EXTENDS Naturals, Sequences

CONSTANTS
    MaxWorkers,   \* bound: workers of a call
    MaxRounds     \* bound: rounds of a worker

VARIABLES
    call,        \* the function called, its workers and rounds, and whose
                 \* closure panics (on an overflow, or because it is told to)
    main,        \* the caller's pc
    spawned,     \* how many workers have been spawned
    worker,      \* where each goes on
    rounds,      \* how many rounds each has done
    mutex,       \* who holds it, or Nobody
    counter,     \* what it protects: a number ...
    num,         \* (as each worker read it under the lock)
    list,        \* ... or a vector
    local,       \* THREAD_COUNT of each thread
    joined,      \* how many have been joined
    answer       \* "Ok", or "Err" from handle_panic

vars == <<call, main, spawned, worker, rounds, mutex, counter, num, list, local, joined, answer>>

Workers == 1..MaxWorkers
Nobody == 0

\* The functions whose closures work on their own, by their number of workers.
Single == {"double_in_thread", "named_sleeper", "handle_panic"}
Double == {"parallel_sum", "scoped_slice_sum"}
Locking == {"concurrent_counter", "concurrent_collect"}
CanPanic == (Single \cup Double) \ {"named_sleeper"}

Init ==
    /\ call = [fn |-> "none", n |-> 0, rounds |-> 0, panics |-> {}]
    /\ main = "idle" /\ spawned = 0
    /\ worker = [w \in Workers |-> "none"] /\ rounds = [w \in Workers |-> 0]
    /\ mutex = Nobody /\ counter = 0 /\ num = [w \in Workers |-> 0] /\ list = <<>>
    /\ local = [w \in Workers |-> 0]
    /\ joined = 0 /\ answer = "none"

Calls ==
    {c \in [fn : Single \cup Double \cup Locking \cup {"increment_thread_local"},
            n : 0..MaxWorkers, rounds : 0..MaxRounds, panics : SUBSET Workers] :
        /\ c.fn \in Single => c.n = 1
        /\ c.fn \in Double => c.n = 2
        /\ c.fn \in Single \cup Double \cup {"concurrent_collect"} => c.rounds = 1
        /\ c.panics \subseteq 1..(IF c.fn \in CanPanic THEN c.n ELSE 0)}

Call ==
    /\ main = "idle" /\ main' = "spawn"
    /\ call' \in Calls
    /\ UNCHANGED <<spawned, worker, rounds, mutex, counter, num, list, local, joined, answer>>

\* The handles are pushed to a vector; the workers already run.
Spawn ==
    /\ main = "spawn"
    /\ IF spawned < call.n
       THEN /\ spawned' = spawned + 1
            /\ worker' = [worker EXCEPT ![spawned'] = "run"]
            /\ UNCHANGED main
       ELSE main' = "join" /\ UNCHANGED <<spawned, worker>>
    /\ UNCHANGED <<call, rounds, mutex, counter, num, list, local, joined, answer>>

-----------------------------------------------------------------------------
(* A worker *)

\* A closure that shares nothing.
Compute(w) ==
    /\ worker[w] = "run" /\ call.fn \in Single \cup Double
    /\ worker' = [worker EXCEPT ![w] = IF w \in call.panics THEN "panicked" ELSE "finished"]
    /\ rounds' = [rounds EXCEPT ![w] = @ + 1]
    /\ UNCHANGED <<call, main, spawned, mutex, counter, num, list, local, joined, answer>>

\* let mut num = counter_clone.lock().unwrap(): held until num goes out of scope.
GuardDropped(w) == Nobody  \* mutant
Locked(w) == w

Lock(w) ==
    /\ worker[w] = "run" /\ call.fn \in Locking /\ rounds[w] < call.rounds
    /\ mutex = Nobody
    /\ mutex' = Locked(w) /\ num' = [num EXCEPT ![w] = counter]
    /\ worker' = [worker EXCEPT ![w] = "locked"]
    /\ UNCHANGED <<call, main, spawned, rounds, counter, list, local, joined, answer>>

\* *num += 1, or vec.push(i); the end of the guard's scope.
Update(w) ==
    /\ worker[w] = "locked"
    /\ IF call.fn = "concurrent_counter"
       THEN counter' = num[w] + 1 /\ UNCHANGED list
       ELSE list' = Append(list, w - 1) /\ UNCHANGED counter
    /\ rounds' = [rounds EXCEPT ![w] = @ + 1]
    /\ mutex' = Nobody
    /\ worker' = [worker EXCEPT ![w] = "run"]
    /\ UNCHANGED <<call, main, spawned, num, local, joined, answer>>

\* A thread that calls increment_thread_local.
Increment(w) ==
    /\ worker[w] = "run" /\ call.fn = "increment_thread_local" /\ rounds[w] < call.rounds
    /\ local' = [local EXCEPT ![w] = @ + 1]
    /\ rounds' = [rounds EXCEPT ![w] = @ + 1]
    /\ UNCHANGED <<call, main, spawned, worker, mutex, counter, num, list, joined, answer>>

Finish(w) ==
    /\ worker[w] = "run" /\ call.fn \notin Single \cup Double /\ rounds[w] = call.rounds
    /\ worker' = [worker EXCEPT ![w] = "finished"]
    /\ UNCHANGED <<call, main, spawned, rounds, mutex, counter, num, list, local, joined, answer>>

-----------------------------------------------------------------------------
(* The caller joins the workers one after the other *)

Over(w) == worker[w] \in {"finished", "panicked"}
Next1 == joined + 1

Join ==
    /\ main = "join" /\ joined < call.n /\ worker[Next1] = "finished"
    /\ joined' = joined + 1
    /\ UNCHANGED <<call, main, spawned, worker, rounds, mutex, counter, num, list, local, answer>>

\* join() is Err: unwrap() panics, which drops the handles that are left and
\* with them detaches their threads; a scope waits for them first; handle_panic
\* makes it its result.
JoinPanicked ==
    /\ main = "join" /\ joined < call.n /\ worker[Next1] = "panicked"
    /\ joined' = joined + 1
    /\ IF call.fn = "handle_panic"
       THEN main' = "returned" /\ answer' = "Err"
       ELSE /\ main' = IF call.fn = "scoped_slice_sum" THEN "scope" ELSE "panicked"
            /\ UNCHANGED answer
    /\ UNCHANGED <<call, spawned, worker, rounds, mutex, counter, num, list, local>>

ScopeEnds ==
    /\ main = "scope" /\ \A w \in 1..spawned : Over(w)
    /\ main' = "panicked"
    /\ UNCHANGED <<call, spawned, worker, rounds, mutex, counter, num, list, local, joined, answer>>

\* The sequences that sort() may make of s: its elements in another order, ...
Permuted(s) ==
    {[i \in DOMAIN s |-> s[p[i]]] : p \in
        {q \in [DOMAIN s -> DOMAIN s] :
            /\ \A i, j \in DOMAIN s : q[i] = q[j] => i = j
            /\ \A k \in DOMAIN s : \E i \in DOMAIN s : q[i] = k}}

\* ... of which no two are the wrong way round.
Sorted(s) == {t \in Permuted(s) : \A i, j \in DOMAIN s : i < j => t[i] <= t[j]}

\* The lock is taken once more to read the result; the vector is sorted.
Return ==
    /\ main = "join" /\ joined = call.n /\ mutex = Nobody
    /\ main' = "returned" /\ answer' = "Ok"
    /\ list' \in Sorted(list)
    /\ UNCHANGED <<call, spawned, worker, rounds, mutex, counter, num, local, joined>>

MainStep == Spawn \/ Join \/ JoinPanicked \/ ScopeEnds \/ Return
WorkerStep(w) == Compute(w) \/ Lock(w) \/ Update(w) \/ Increment(w) \/ Finish(w)
Next == Call \/ MainStep \/ \E w \in Workers : WorkerStep(w)

\* The threads are scheduled again and again.
Fairness == WF_vars(MainStep) /\ \A w \in Workers : WF_vars(WorkerStep(w))

-----------------------------------------------------------------------------
\* CallsEnd: every call comes to its end.
CallsEnd == main = "spawn" ~> main \in {"returned", "panicked"}

\* WorkJoined: when a call returns, all its workers are over, nothing they did
\* is lost, and Err tells of a panic; when it panics, a worker did, and no
\* worker outlives a scope.
AllDone ==
    /\ \A w \in 1..call.n : Over(w) /\ rounds[w] = call.rounds
    /\ call.fn = "concurrent_counter" => counter = call.n * call.rounds
    /\ call.fn = "concurrent_collect" => list = [i \in 1..call.n |-> i - 1]
    /\ call.fn = "increment_thread_local" => \A w \in 1..call.n : local[w] = call.rounds
    /\ answer = "Err" <=> call.panics # {}

WorkJoined ==
    /\ main = "returned" => AllDone
    /\ main = "panicked" => \E w \in 1..call.n : worker[w] = "panicked"
    /\ main = "panicked" /\ call.fn = "scoped_slice_sum" => \A w \in 1..call.n : Over(w)
=============================================================================
