------------------------------- MODULE Futures -------------------------------
(***************************************************************************)
(* The futures of src/exercises/05_async_programming/01_basic_future,      *)
(* 02_tokio_tasks and 04_select_timeout on the runtime that polls them.    *)
(* Task 0 is the caller's; its polls, those of the tasks it spawns and the *)
(* firing of timers interleave.                                            *)
(***************************************************************************)
EXTENDS Naturals, Sequences

CONSTANTS
    MaxCount,   \* bound: polls of a CountDown, tasks spawned
    Deadlines   \* bound: when timers fire; 0 stands for a future ready at once

VARIABLES
    fn, n,        \* the function called, and how many polls or tasks it takes
    pc,           \* where task 0 goes on
    spawned,
    woken,        \* the tasks to poll: a wake while polled is not forgotten
    polling,      \* the tasks being polled
    deadline,     \* of each timer
    registered,   \* the timers that wake their task when they fire
    fired, now,   \* the timers that fired, and the time of the timer driver
    done,         \* the spawned tasks that are complete
    awaited,      \* the task whose completion wakes task 0
    results,      \* what task 0 has collected
    answer        \* what the function returned

vars == <<fn, n, pc, spawned, woken, polling, deadline, registered, fired, now,
          done, awaited, results, answer>>

Never == 99
Main == 0
Tasks == 1..MaxCount
Timers == Tasks \cup {1, 2}
Joining == {"concurrent_squares", "parallel_sleep_tasks"}
Racing == {"with_timeout", "race"}
Counting == {"CountDown", "YieldOnce"}

Init ==
    /\ fn = "none" /\ n = 0 /\ pc = "idle" /\ spawned = 0
    /\ woken = {} /\ polling = {}
    /\ deadline = [x \in Timers |-> Never]
    /\ registered = {} /\ fired = {} /\ now = 1
    /\ done = {} /\ awaited = Main /\ results = <<>> /\ answer = <<>>

\* Timer 1 of with_timeout and race is the future's or the first one's, timer 2
\* the timeout's or the second one's; timeout() sleeps a finite time.
Call ==
    /\ pc = "idle"
    /\ fn' \in Counting \cup Joining \cup Racing
    /\ n' \in IF fn' = "YieldOnce" THEN {1} ELSE IF fn' \in Racing THEN {0} ELSE 0..MaxCount
    /\ deadline' \in [Timers -> Deadlines \cup {Never}]
    /\ \A x \in Timers : deadline'[x] = Never => fn' \in Racing /\ (fn' = "race" \/ x # 2)
    /\ pc' = IF fn' \in Joining THEN "spawn" ELSE "poll"
    /\ woken' = {Main}
    /\ UNCHANGED <<spawned, polling, registered, fired, now, done, awaited, results, answer>>

-----------------------------------------------------------------------------
(* The runtime (external) *)

StartPoll(t) ==
    /\ t \in woken \ polling
    /\ woken' = woken \ {t} /\ polling' = polling \cup {t}
    /\ UNCHANGED <<fn, n, pc, spawned, deadline, registered, fired, now, done, awaited, results, answer>>

Owner(x) == IF fn \in Joining THEN x ELSE Main
Elapsed(x) == x \in fired \/ deadline[x] < now

\* Timers fire in the order of their deadlines.
Fire(x) ==
    /\ x \in registered \ fired /\ deadline[x] # Never
    /\ \A y \in registered \ fired : deadline[x] <= deadline[y]
    /\ fired' = fired \cup {x}
    /\ now' = IF deadline[x] > now THEN deadline[x] ELSE now
    /\ woken' = woken \cup {Owner(x)}
    /\ UNCHANGED <<fn, n, pc, spawned, polling, deadline, registered, done, awaited, results, answer>>

Pending(t) == polling' = polling \ {t}

Ready(a) ==
    /\ pc' = "ready" /\ answer' = a
    /\ polling' = polling \ {Main} /\ registered' = {}

-----------------------------------------------------------------------------
(* CountDown::poll and YieldOnce::poll: n is what is left *)

\* count -= 1, or yielded = true, and the wake, ...
CountDown ==
    /\ fn \in Counting /\ pc = "poll" /\ Main \in polling /\ n > 0
    /\ n' = n - 1 /\ woken' = woken \cup {Main}
    /\ pc' = "pending"
    /\ UNCHANGED <<fn, spawned, polling, deadline, registered, fired, now, done, awaited, results, answer>>

\* ... before Pending is returned.
ReturnPending ==
    /\ pc = "pending" /\ pc' = "poll"
    /\ Pending(Main)
    /\ UNCHANGED <<fn, n, spawned, woken, deadline, registered, fired, now, done, awaited, results, answer>>

Liftoff ==
    /\ fn \in Counting /\ pc = "poll" /\ Main \in polling /\ n = 0
    /\ Ready(<<"liftoff">>)
    /\ UNCHANGED <<fn, n, spawned, woken, deadline, fired, now, done, awaited, results>>

-----------------------------------------------------------------------------
(* concurrent_squares, parallel_sleep_tasks *)

\* A task is on the queue once it is spawned, and may be polled before the next.
Spawn ==
    /\ pc = "spawn" /\ Main \in polling
    /\ IF spawned < n
       THEN /\ spawned' = spawned + 1 /\ woken' = woken \cup {spawned'}
            /\ UNCHANGED pc
       ELSE /\ pc' = "await" /\ UNCHANGED <<spawned, woken>>
    /\ UNCHANGED <<fn, n, polling, deadline, registered, fired, now, done, awaited, results, answer>>

\* sleep(..).await; i * i.
PollTask(t) ==
    /\ t \in polling \ {Main}
    /\ Pending(t)
    /\ IF Elapsed(t)
       THEN /\ done' = done \cup {t}
            /\ woken' = IF awaited = t THEN woken \cup {Main} ELSE woken
            /\ UNCHANGED registered
       ELSE /\ registered' = registered \cup {t} /\ UNCHANGED <<done, woken>>
    /\ UNCHANGED <<fn, n, pc, spawned, deadline, fired, now, awaited, results, answer>>

\* results.push(handle.await.unwrap()), handle after handle.
LastHandle == n - Len(results)  \* mutant: the last one first
NextHandle == Len(results) + 1

Await ==
    /\ pc = "await" /\ Main \in polling /\ Len(results) < n
    /\ LET t == NextHandle IN
       IF t \in done
       THEN results' = Append(results, t - 1) /\ UNCHANGED <<polling, awaited>>
       ELSE awaited' = t /\ Pending(Main) /\ UNCHANGED results
    /\ UNCHANGED <<fn, n, pc, spawned, woken, deadline, registered, fired, now, done, answer>>

\* parallel_sleep_tasks sorts what is in this order already.
AllAwaited ==
    /\ pc = "await" /\ Main \in polling /\ Len(results) = n
    /\ Ready(IF fn = "concurrent_squares" THEN [i \in 1..n |-> results[i] * results[i]] ELSE results)
    /\ UNCHANGED <<fn, n, spawned, woken, deadline, fired, now, done, awaited, results>>

-----------------------------------------------------------------------------
(* with_timeout, race *)

\* timeout() polls the future first, and then its own sleep.
Outcomes == IF Elapsed(1) THEN {<<"Some">>} ELSE {<<"None">>}

\* select! polls its branches in a random order and takes the first ready one.
PollBoth ==
    /\ fn \in Racing /\ pc = "poll" /\ Main \in polling
    /\ IF Elapsed(1) \/ Elapsed(2)
       THEN \E a \in IF fn = "with_timeout" THEN Outcomes
                     ELSE {<<"res", x>> : x \in {y \in {1, 2} : Elapsed(y)}} : Ready(a)
       ELSE /\ registered' = {1, 2} /\ Pending(Main)
            /\ UNCHANGED <<pc, answer>>
    /\ UNCHANGED <<fn, n, spawned, woken, deadline, fired, now, done, awaited, results>>

MainPoll == CountDown \/ ReturnPending \/ Liftoff \/ Spawn \/ Await \/ AllAwaited \/ PollBoth
Next ==
    \/ Call \/ MainPoll
    \/ \E t \in {Main} \cup Tasks : StartPoll(t)
    \/ \E t \in Tasks : PollTask(t)
    \/ \E x \in Timers : Fire(x)

\* The runtime polls what is woken, a poll ends, and time passes.
Fairness ==
    /\ \A t \in {Main} \cup Tasks : WF_vars(StartPoll(t))
    /\ WF_vars(MainPoll)
    /\ \A t \in Tasks : WF_vars(PollTask(t))
    /\ WF_vars(\E x \in Timers : Fire(x))

-----------------------------------------------------------------------------
\* FutureEnds: a future is ready in the end, unless it races two that never are.
FutureEnds ==
    pc \in {"poll", "spawn"} /\ (fn = "race" => \E x \in {1, 2} : deadline[x] # Never)
        ~> pc = "ready"

\* FuturesAnswer: all results come in the order of the spawns; with_timeout is
\* None only if the future was not ready before the timeout, and neither it
\* nor race answers for a future that never is ready.
FuturesAnswer ==
    pc = "ready" =>
        /\ fn = "concurrent_squares" => answer = [i \in 1..n |-> (i - 1) * (i - 1)]
        /\ fn = "parallel_sleep_tasks" => answer = [i \in 1..n |-> i - 1]
        /\ fn = "with_timeout" =>
              IF answer = <<"Some">> THEN deadline[1] # Never ELSE deadline[2] <= deadline[1]
        /\ fn = "race" => deadline[answer[2]] # Never
=============================================================================
